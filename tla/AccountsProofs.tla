--------------------------- MODULE AccountsProofs ----------------------------
(***************************************************************************)
(* For any number of emails and of registrations in flight, and with every *)
(* failure allowed: Accounts keeps its invariant, welcomes no email twice, *)
(* and every registration behaves as one of AtomicRegister.                *)
(***************************************************************************)
EXTENDS Accounts, TLAPS

\* Registration r goes on as q: what the rest of the state has to do for the
\* invariant to survive.
Becomes(r, q) ==
    /\ reg' = [reg EXCEPT ![r] = q]
    /\ q \in Register
    /\ Sound(q, users')

Fresh(r, q) ==
    q.status = 201 => /\ q.email \notin welcomed
                      /\ \A s \in Reqs \ {r} : reg[s].status = 201 => reg[s].email # q.email

\* p is q, answered with an error.
Refused(p, q, st) == p = [q EXCEPT !.pc = "reply", !.status = st, !.id = NoId]

\* A request keeps being sound when rows are added.
LEMMA SoundGrows ==
  ASSUME NEW q, NEW rows, NEW more, rows \subseteq more, Sound(q, rows)
  PROVE  Sound(q, more)
BY DEF Sound

\* A step of one registration that adds no row and whose 201, if it is one, is new.
LEMMA StepKeepsInv ==
  ASSUME IInv, NEW r \in Reqs, NEW q, Becomes(r, q), Fresh(r, q),
         users \subseteq users', users' \subseteq Row, EmailsUnique', UNCHANGED welcomed
  PROVE  IInv'
<1> USE DEF IInv
<1>1. TypeOK'
  BY DEF TypeOK, Becomes
<1>2. OneWelcome'
  BY DEF OneWelcome, Becomes, Fresh, TypeOK
<1>3. RequestsSound'
  <2> SUFFICES ASSUME NEW s \in Reqs PROVE Sound(reg'[s], users')
    BY DEF RequestsSound
  <2>1. CASE s = r
    BY <2>1 DEF Becomes, TypeOK
  <2>2. CASE s # r
    <3>1. Sound(reg[s], users')
      BY SoundGrows DEF RequestsSound
    <3>2. QED
      BY <2>2, <3>1 DEF Becomes, TypeOK
  <2>3. QED
    BY <2>1, <2>2
<1>4. WelcomedHaveRows'
  BY DEF WelcomedHaveRows, Taken
<1>5. QED
  BY <1>1, <1>2, <1>3, <1>4

\* A request that moves on is sound.
LEMMA MovedOn ==
  ASSUME NEW q \in Register, NEW rows, q.email \in Emails, NEW pc \in {"select", "hash", "insert"},
         q.status = 0, NEW p, p = [q EXCEPT !.pc = pc]
  PROVE  p \in Register /\ Sound(p, rows) /\ p.status # 201
<1>1. pc \in PCs
  BY DEF PCs
<1>2. p \in Register /\ p.pc = pc /\ p.email \in Emails /\ p.status = 0
  BY <1>1 DEF Register
<1>3. p # Idle /\ pc # "reply" /\ pc # "idle"
  BY <1>2 DEF Idle
<1>4. QED
  BY <1>2, <1>3 DEF Sound

\* So is one that is answered with an error.
LEMMA Answered ==
  ASSUME NEW q \in Register, NEW rows, q.email \in Emails, NEW st \in {409, 500},
         NEW p, Refused(p, q, st)
  PROVE  p \in Register /\ Sound(p, rows) /\ p.status # 201
<1>1. "reply" \in PCs /\ st \in Statuses
  BY DEF PCs, Statuses
<1>2. p \in Register /\ p.pc = "reply" /\ p.email \in Emails /\ p.status = st
  BY <1>1 DEF Register, Refused
<1>3. p # Idle
  BY <1>2 DEF Idle
<1>4. QED
  BY <1>2, <1>3 DEF Sound

\* A request that is over is sound.
LEMMA IdleSound ==
  ASSUME NEW rows
  PROVE  Idle \in Register /\ Sound(Idle, rows) /\ Idle.status # 201
BY DEF Register, Sound, PCs, Statuses, Idle

\* The invariant holds initially.
LEMMA InitInv == Init => IInv
<1> SUFFICES ASSUME Init PROVE IInv
  OBVIOUS
<1>1. \A r \in Reqs : reg[r] = Idle /\ reg[r].status # 201
  BY IdleSound DEF Init
<1>2. TypeOK /\ RequestsSound
  BY IdleSound, <1>1 DEF Init, TypeOK, RequestsSound
<1>3. QED
  BY <1>1, <1>2 DEF Init, IInv, OneWelcome, EmailsUnique, WelcomedHaveRows

\* Every step preserves it.
LEMMA NextInv == IInv /\ [Next]_vars => IInv'
<1> SUFFICES ASSUME IInv, [Next]_vars PROVE IInv'
  OBVIOUS
<1>0. TypeOK /\ RequestsSound /\ EmailsUnique
  BY DEF IInv
<1>1. ASSUME NEW r \in Reqs, NEW e \in Emails, Arrive(r, e) PROVE IInv'
  <2>1. PICK q : q = [Idle EXCEPT !.pc = "select", !.email = e]
    OBVIOUS
  <2>2. q \in Register /\ Sound(q, users) /\ q.status # 201
    <3>1. "select" \in PCs /\ Idle \in Register /\ Idle.status = 0
      BY IdleSound DEF PCs, Idle
    <3>2. q \in Register /\ q.pc = "select" /\ q.email = e /\ q.status = 0
      BY <2>1, <3>1 DEF Register
    <3>3. q # Idle
      BY <3>2 DEF Idle
    <3>4. QED
      BY <3>2, <3>3 DEF Sound
  <2>3. Becomes(r, q) /\ Fresh(r, q) /\ UNCHANGED <<users, welcomed>>
    BY <1>1, <2>1, <2>2 DEF Arrive, Becomes, Fresh
  <2>4. QED
    BY <1>0, <2>3, StepKeepsInv DEF TypeOK, EmailsUnique
<1>2. ASSUME NEW r \in Reqs, NEW st \in {400, 422}, Reject(r, st) PROVE IInv'
  <2>1. PICK q : q = [reg[r] EXCEPT !.pc = "reply", !.status = st, !.id = NoId]
    OBVIOUS
  <2>2. reg[r] = Idle
    BY <1>0, <1>2 DEF RequestsSound, Sound, Reject, At
  <2>3. q \in Register /\ Sound(q, users) /\ q.status # 201
    <3>1. "reply" \in PCs /\ st \in Statuses /\ Idle \in Register /\ Idle.email = NoEmail
      BY IdleSound DEF PCs, Statuses, Idle
    <3>2. q \in Register /\ q.pc = "reply" /\ q.email = NoEmail /\ q.status = st
      BY <2>1, <2>2, <3>1 DEF Register
    <3>3. q # Idle
      BY <3>2 DEF Idle
    <3>4. QED
      BY <3>2, <3>3 DEF Sound
  <2>4. Becomes(r, q) /\ Fresh(r, q) /\ UNCHANGED <<users, welcomed>>
    BY <1>2, <2>1, <2>3 DEF Reject, Answer, Becomes, Fresh
  <2>5. QED
    BY <1>0, <2>4, StepKeepsInv DEF TypeOK, EmailsUnique
<1>3. ASSUME NEW r \in Reqs, Select(r) \/ Hash(r) \/ Fails(r) \/ InsertDuplicate(r) PROVE IInv'
  <2>1. /\ reg[r] \in Register /\ reg[r].email \in Emails /\ reg[r].status = 0
        /\ UNCHANGED <<users, welcomed>>
    BY <1>0, <1>3 DEF TypeOK, RequestsSound, Sound, At, Select, Hash, Fails, InsertDuplicate
  <2>2. \/ \E pc \in {"hash", "insert"} : Goto(r, pc)
        \/ \E st \in {409, 500} : Answer(r, st, NoId)
    BY <1>3 DEF Select, Hash, Fails, InsertDuplicate
  <2>3. CASE \E pc \in {"hash", "insert"} : Goto(r, pc)
    <3>1. PICK pc \in {"hash", "insert"} : Goto(r, pc)
      BY <2>3
    <3>2. PICK q : q = [reg[r] EXCEPT !.pc = pc]
      OBVIOUS
    <3>3. q \in Register /\ Sound(q, users) /\ q.status # 201
      BY <2>1, <3>2, MovedOn
    <3>4. Becomes(r, q) /\ Fresh(r, q)
      BY <2>1, <3>1, <3>2, <3>3 DEF Goto, Becomes, Fresh
    <3>5. QED
      BY <1>0, <2>1, <3>4, StepKeepsInv DEF TypeOK, EmailsUnique
  <2>4. CASE \E st \in {409, 500} : Answer(r, st, NoId)
    <3>1. PICK st \in {409, 500} : Answer(r, st, NoId)
      BY <2>4
    <3>2. PICK q : Refused(q, reg[r], st)
      BY DEF Refused
    <3>3. q \in Register /\ Sound(q, users) /\ q.status # 201
      BY <2>1, <3>2, Answered
    <3>4. Becomes(r, q) /\ Fresh(r, q)
      BY <2>1, <3>1, <3>2, <3>3 DEF Answer, Refused, Becomes, Fresh
    <3>5. QED
      BY <1>0, <2>1, <3>4, StepKeepsInv DEF TypeOK, EmailsUnique
  <2>5. QED
    BY <2>2, <2>3, <2>4
<1>4. ASSUME NEW r \in Reqs, NEW id \in Ids, Insert(r, id) PROVE IInv'
  <2>1. reg[r] \in Register /\ reg[r].email \in Emails /\ UNCHANGED welcomed
    BY <1>0, <1>4 DEF TypeOK, RequestsSound, Sound, At, Insert
  <2>2. /\ users \subseteq users' /\ users' \subseteq Row /\ EmailsUnique'
        /\ [id |-> id, email |-> reg[r].email] \in users'
    BY <1>0, <1>4, <2>1 DEF Insert, Inserted, Taken, Row, TypeOK, EmailsUnique
  <2>3. PICK q : q = [reg[r] EXCEPT !.pc = "reply", !.status = 201, !.id = id]
    OBVIOUS
  <2>4. q \in Register /\ q.email = reg[r].email /\ q.status = 201 /\ q.id = id /\ q.pc = "reply"
    <3>1. "reply" \in PCs /\ 201 \in Statuses /\ id \in Ids \cup {NoId}
      BY DEF PCs, Statuses
    <3>2. q \in Register
      BY <2>1, <2>3, <3>1, Zenon DEF Register
    <3>3. QED
      BY <2>1, <2>3, <3>2 DEF Register
  <2>5. Sound(q, users')
    BY <2>1, <2>2, <2>4 DEF Sound, Idle
  <2>6. Fresh(r, q)
    <3>1. q.email \notin welcomed
      BY <1>4, <2>4 DEF Insert, IInv, WelcomedHaveRows
    <3>2. ASSUME NEW s \in Reqs, reg[s].status = 201 PROVE reg[s].email # q.email
      <4>1. [id |-> reg[s].id, email |-> reg[s].email] \in users
        BY <1>0, <3>2 DEF RequestsSound, Sound
      <4>2. Taken(reg[s].email)
        BY <4>1 DEF Taken
      <4>3. QED
        BY <1>4, <2>4, <4>2 DEF Insert
    <3>3. QED
      BY <3>1, <3>2 DEF Fresh
  <2>7. Becomes(r, q)
    BY <1>4, <2>3, <2>4, <2>5 DEF Insert, Answer, Becomes
  <2>8. QED
    BY <2>1, <2>2, <2>6, <2>7, StepKeepsInv
<1>5. ASSUME NEW r \in Reqs, InsertFails(r) PROVE IInv'
  <2>1. reg[r] \in Register /\ reg[r].email \in Emails /\ UNCHANGED welcomed
    BY <1>0, <1>5 DEF TypeOK, RequestsSound, Sound, At, InsertFails
  <2>2. users \subseteq users' /\ users' \subseteq Row /\ EmailsUnique'
    <3>1. CASE UNCHANGED users
      BY <1>0, <3>1 DEF TypeOK, EmailsUnique
    <3>2. CASE ~ Taken(reg[r].email) /\ \E id \in Ids : Inserted(reg[r].email, id)
      BY <1>0, <2>1, <3>2 DEF Inserted, Taken, Row, TypeOK, EmailsUnique
    <3>3. QED
      BY <1>5, <3>1, <3>2 DEF InsertFails
  <2>3. PICK q : Refused(q, reg[r], 500)
    BY DEF Refused
  <2>4. q \in Register /\ Sound(q, users') /\ q.status # 201
    BY <2>1, <2>3, Answered
  <2>5. Becomes(r, q) /\ Fresh(r, q)
    BY <1>5, <2>3, <2>4 DEF InsertFails, Answer, Refused, Becomes, Fresh
  <2>6. QED
    BY <2>1, <2>2, <2>5, StepKeepsInv
<1>6. ASSUME NEW r \in Reqs, Crash(r) PROVE IInv'
  <2>1. Becomes(r, Idle) /\ Fresh(r, Idle) /\ UNCHANGED <<users, welcomed>>
    BY <1>6, IdleSound DEF Crash, Becomes, Fresh
  <2>2. QED
    BY <1>0, <2>1, StepKeepsInv DEF TypeOK, EmailsUnique
<1>7. ASSUME NEW r \in Reqs, Reply(r) PROVE IInv'
  <2>1. reg' = [reg EXCEPT ![r] = Idle] /\ UNCHANGED users
    BY <1>7 DEF Reply
  <2>2. Idle \in Register /\ Sound(Idle, users) /\ Idle.status # 201
    BY IdleSound
  <2>3. \A s \in Reqs : reg'[s].status = 201 => s # r /\ reg'[s] = reg[s]
    BY <1>0, <2>1, <2>2 DEF TypeOK
  <2>4. CASE reg[r].status = 201
    <3>1. reg[r].email \in Emails /\ Taken(reg[r].email)
      <4>1. /\ reg[r].email \in Emails
            /\ [id |-> reg[r].id, email |-> reg[r].email] \in users
        BY <1>0, <2>4 DEF RequestsSound, Sound
      <4>2. QED
        BY <4>1 DEF Taken
    <3>2. welcomed' = welcomed \cup {reg[r].email}
      BY <1>7, <2>4 DEF Reply
    <3>3. TypeOK' /\ RequestsSound' /\ EmailsUnique'
      BY <1>0, <2>1, <2>2, <3>1, <3>2 DEF TypeOK, RequestsSound, EmailsUnique
    <3>4. OneWelcome' /\ WelcomedHaveRows'
      BY <2>1, <2>3, <2>4, <3>1, <3>2 DEF IInv, OneWelcome, WelcomedHaveRows, Taken
    <3>5. QED
      BY <3>3, <3>4 DEF IInv
  <2>5. CASE reg[r].status # 201
    <3>1. Becomes(r, Idle) /\ Fresh(r, Idle) /\ UNCHANGED <<users, welcomed>>
      BY <1>7, <2>1, <2>2, <2>5 DEF Reply, Becomes, Fresh
    <3>2. QED
      BY <1>0, <3>1, StepKeepsInv DEF TypeOK, EmailsUnique
  <2>6. QED
    BY <2>4, <2>5
<1>8. CASE UNCHANGED vars
  BY <1>8 DEF vars, IInv, TypeOK, OneWelcome, EmailsUnique, RequestsSound, WelcomedHaveRows, Taken
<1>9. QED
  BY <1>1, <1>2, <1>3, <1>4, <1>5, <1>6, <1>7, <1>8 DEF Next, Serve

-----------------------------------------------------------------------------
\* The invariant holds in every reachable state.
THEOREM Invariance == Spec => []IInv
<1>1. QED
  BY InitInv, NextInv, PTL DEF Spec

\* Every reachable state is well typed.
THEOREM TypeCorrect == Spec => []TypeOK
<1>1. IInv => TypeOK
  BY DEF IInv
<1>2. QED
  BY Invariance, <1>1, PTL

\* No email is welcomed twice (auth.go:139, 163-181).
THEOREM NoEmailWelcomedTwice == Spec => []OneWelcome
<1>1. IInv => OneWelcome
  BY DEF IInv
<1>2. QED
  BY Invariance, <1>1, PTL

-----------------------------------------------------------------------------
(* Refinement.                                                             *)

Calls       == [r \in Reqs |-> CallOf(r)]
CallFrom(q) == [email |-> q.email, outcome |-> Outcome(q.status)]
TakenEmails == {u.email : u \in users}

\* What AtomicRegister sees of a step of one registration.
LEMMA CallsStep ==
  ASSUME TypeOK, NEW r \in Reqs, NEW q, reg' = [reg EXCEPT ![r] = q]
  PROVE  Calls' = [Calls EXCEPT ![r] = CallFrom(q)]
BY DEF TypeOK, Calls, CallOf, CallFrom

\* A registration at rest is no call; an undecided one is a call without outcome.
LEMMA OutcomeOf ==
  /\ Outcome(0) = "none" /\ Outcome(400) = "none" /\ Outcome(422) = "none"
  /\ Outcome(201) = "created" /\ Outcome(409) = "conflict" /\ Outcome(500) = "failed"
BY DEF Outcome

\* Every initial state of Accounts is one of AtomicRegister.
LEMMA InitRefines == Init => Atomic!Init
<1> SUFFICES ASSUME Init PROVE Atomic!Init
  OBVIOUS
<1>1. TakenEmails = {}
  BY DEF Init, TakenEmails
<1>2. \A r \in Reqs : CallOf(r) = Atomic!Free
  BY OutcomeOf DEF Init, Idle, CallOf, Atomic!Free
<1>3. QED
  BY <1>1, <1>2 DEF Atomic!Init, TakenEmails

\* A registration that has an email and no answer yet is an undecided call.
LEMMA UndecidedCall ==
  ASSUME IInv, NEW r \in Reqs, reg[r].pc \in {"select", "hash", "insert"}
  PROVE  Atomic!Undecided(r) /\ CallOf(r).email = reg[r].email
<1>1. reg[r].email \in Emails /\ reg[r].status = 0
  BY DEF IInv, RequestsSound, Sound
<1>2. CallOf(r).email = reg[r].email /\ CallOf(r).outcome = "none"
  BY <1>1, OutcomeOf DEF CallOf
<1>3. QED
  BY <1>1, <1>2, AccountsAssumption DEF Atomic!Undecided

\* An answer gives the call its outcome.
LEMMA AnswerDecides ==
  ASSUME TypeOK, NEW r \in Reqs, NEW st, NEW id, Answer(r, st, id)
  PROVE  st \in Statuses => Atomic!Becomes(r, Outcome(st))
<1> SUFFICES ASSUME st \in Statuses PROVE Atomic!Becomes(r, Outcome(st))
  OBVIOUS
<1>1. PICK q : q = [reg[r] EXCEPT !.pc = "reply", !.status = st, !.id = id]
  OBVIOUS
<1>2. q.email = reg[r].email /\ q.status = st
  <2>1. reg[r] \in Register
    BY DEF TypeOK
  <2>2. QED
    BY <1>1, <2>1 DEF Register
<1>3. CallFrom(q) = [CallOf(r) EXCEPT !.outcome = Outcome(st)]
  BY <1>2 DEF CallFrom, CallOf
<1>4. reg' = [reg EXCEPT ![r] = q]
  BY <1>1 DEF Answer
<1>5. Calls' = [Calls EXCEPT ![r] = CallFrom(q)]
  BY <1>4, CallsStep
<1>6. Calls[r] = CallOf(r)
  BY DEF Calls
<1>7. QED
  BY <1>3, <1>5, <1>6 DEF Atomic!Becomes, Calls

\* An email is taken for AtomicRegister when it has a row.
LEMMA TakenSeen == \A e : e \in TakenEmails <=> Taken(e)
BY DEF TakenEmails, Taken

\* What a new row adds to the taken emails.
LEMMA InsertedSeen ==
  ASSUME NEW e, NEW id, Inserted(e, id)
  PROVE  TakenEmails' = TakenEmails \cup {e}
<1>1. PICK row : row = [id |-> id, email |-> e]
  OBVIOUS
<1>2. row.email = e /\ users' = users \cup {row}
  BY <1>1 DEF Inserted
<1>3. QED
  BY <1>2 DEF TakenEmails

\* A request that is over, answered or not, is a call that has returned.
LEMMA OverReturns ==
  ASSUME IInv, NEW r \in Reqs, reg' = [reg EXCEPT ![r] = Idle], UNCHANGED users
  PROVE  [Atomic!Next]_(Atomic!vars)
<1>1. CallFrom(Idle) = Atomic!Free
  BY OutcomeOf DEF CallFrom, Idle, Atomic!Free
<1>2. Calls' = [Calls EXCEPT ![r] = Atomic!Free]
  BY <1>1, CallsStep DEF IInv
<1>3. UNCHANGED TakenEmails
  BY DEF TakenEmails
<1>4. CASE Calls[r] = Atomic!Free
  <2>1. Calls' = Calls
    BY <1>2, <1>4 DEF Calls
  <2>2. QED
    BY <2>1, <1>3 DEF Atomic!vars, Calls, TakenEmails
<1>5. CASE Calls[r] # Atomic!Free
  <2>1. Atomic!Return(r)
    BY <1>2, <1>3, <1>5 DEF Atomic!Return, Calls, TakenEmails
  <2>2. QED
    BY <2>1 DEF Atomic!Next
<1>6. QED
  BY <1>4, <1>5

\* Every step of Accounts is a step of AtomicRegister, or invisible to it.
LEMMA NextRefines == IInv /\ [Next]_vars => [Atomic!Next]_(Atomic!vars)
<1> SUFFICES ASSUME IInv, [Next]_vars PROVE [Atomic!Next]_(Atomic!vars)
  OBVIOUS
<1>0. TypeOK /\ RequestsSound
  BY DEF IInv
<1>1. ASSUME NEW r \in Reqs, NEW e \in Emails, Arrive(r, e) PROVE Atomic!Invoke(r, e)
  <2>1. reg[r] = Idle /\ UNCHANGED users
    BY <1>0, <1>1 DEF Arrive, At, RequestsSound, Sound
  <2>2. CallOf(r) = Atomic!Free
    BY <2>1, OutcomeOf DEF Idle, CallOf, Atomic!Free
  <2>3. PICK q : q = [Idle EXCEPT !.pc = "select", !.email = e]
    OBVIOUS
  <2>4. CallFrom(q) = [email |-> e, outcome |-> "none"]
    BY <2>3, OutcomeOf DEF Idle, CallFrom
  <2>5. reg' = [reg EXCEPT ![r] = q]
    BY <1>1, <2>3 DEF Arrive
  <2>6. Calls' = [Calls EXCEPT ![r] = CallFrom(q)]
    BY <1>0, <2>5, CallsStep
  <2>7. UNCHANGED TakenEmails
    BY <2>1 DEF TakenEmails
  <2>8. QED
    BY <2>2, <2>4, <2>6, <2>7 DEF Atomic!Invoke, Calls, TakenEmails
<1>2. ASSUME NEW r \in Reqs, NEW st \in {400, 422}, Reject(r, st)
      PROVE  UNCHANGED Atomic!vars
  <2>1. reg[r] = Idle /\ UNCHANGED users
    BY <1>0, <1>2 DEF Reject, At, RequestsSound, Sound
  <2>2. PICK q : q = [reg[r] EXCEPT !.pc = "reply", !.status = st, !.id = NoId]
    OBVIOUS
  <2>3. reg' = [reg EXCEPT ![r] = q]
    BY <1>2, <2>2 DEF Reject, Answer
  <2>4. CallFrom(q) = CallOf(r)
    BY <2>1, <2>2, OutcomeOf DEF Idle, CallFrom, CallOf
  <2>5. Calls' = [Calls EXCEPT ![r] = CallFrom(q)]
    BY <1>0, <2>3, CallsStep
  <2>6. Calls[r] = CallFrom(q) /\ Calls = [s \in Reqs |-> Calls[s]]
    BY <2>4 DEF Calls
  <2>7. Calls' = Calls
    BY <2>5, <2>6
  <2>8. QED
    BY <2>1, <2>7 DEF Atomic!vars, Calls
<1>3. ASSUME NEW r \in Reqs, NEW pc, Goto(r, pc), UNCHANGED users
      PROVE  UNCHANGED Atomic!vars
  <2>1. PICK q : q = [reg[r] EXCEPT !.pc = pc]
    OBVIOUS
  <2>2. reg' = [reg EXCEPT ![r] = q]
    BY <1>3, <2>1 DEF Goto
  <2>3. CallFrom(q) = CallOf(r)
    <3>1. reg[r] \in Register
      BY <1>0 DEF TypeOK
    <3>2. QED
      BY <2>1, <3>1 DEF Register, CallFrom, CallOf
  <2>4. Calls' = [Calls EXCEPT ![r] = CallFrom(q)]
    BY <1>0, <2>2, CallsStep
  <2>5. Calls' = Calls
    BY <2>3, <2>4 DEF Calls
  <2>6. QED
    BY <1>3, <2>5 DEF Atomic!vars, Calls
<1>4. ASSUME NEW r \in Reqs, At(r, "select") \/ At(r, "insert"), Taken(reg[r].email),
             Answer(r, 409, NoId), UNCHANGED users
      PROVE  Atomic!Conflict(r)
  <2>1. Atomic!Undecided(r) /\ CallOf(r).email = reg[r].email
    BY <1>4, UndecidedCall DEF At
  <2>2. Atomic!Becomes(r, "conflict")
    BY <1>0, <1>4, AnswerDecides, OutcomeOf DEF Statuses
  <2>3. reg[r].email \in TakenEmails
    BY <1>4, TakenSeen
  <2>4. QED
    BY <1>4, <2>1, <2>2, <2>3 DEF Atomic!Conflict, TakenEmails
<1>5. ASSUME NEW r \in Reqs, NEW id \in Ids, Insert(r, id) PROVE Atomic!Create(r)
  <2>1. Atomic!Undecided(r) /\ CallOf(r).email = reg[r].email
    BY <1>5, UndecidedCall DEF Insert, At
  <2>2. Atomic!Becomes(r, "created")
    BY <1>0, <1>5, AnswerDecides, OutcomeOf DEF Insert, Statuses
  <2>3. reg[r].email \notin TakenEmails /\ TakenEmails' = TakenEmails \cup {reg[r].email}
    BY <1>5, TakenSeen, InsertedSeen DEF Insert
  <2>4. QED
    BY <2>1, <2>2, <2>3 DEF Atomic!Create, TakenEmails
<1>6. ASSUME NEW r \in Reqs, Fails(r) \/ InsertFails(r) PROVE Atomic!Fail(r)
  <2>1. Atomic!Undecided(r) /\ CallOf(r).email = reg[r].email
    BY <1>6, UndecidedCall DEF Fails, InsertFails, At
  <2>2. Atomic!Becomes(r, "failed")
    BY <1>0, <1>6, AnswerDecides, OutcomeOf DEF Fails, InsertFails, Statuses
  <2>3. TakenEmails' \in {TakenEmails, TakenEmails \cup {reg[r].email}}
    <3>1. CASE UNCHANGED users
      BY <3>1 DEF TakenEmails
    <3>2. CASE \E id \in Ids : Inserted(reg[r].email, id)
      BY <3>2, InsertedSeen
    <3>3. QED
      BY <1>6, <3>1, <3>2 DEF Fails, InsertFails
  <2>4. QED
    BY <2>1, <2>2, <2>3 DEF Atomic!Fail, TakenEmails
<1>7. ASSUME NEW r \in Reqs, Reply(r) \/ Crash(r) PROVE [Atomic!Next]_(Atomic!vars)
  BY <1>7, OverReturns DEF Reply, Crash
<1>8. ASSUME NEW r \in Reqs, Select(r) \/ Hash(r) \/ InsertDuplicate(r)
      PROVE  Atomic!Conflict(r) \/ UNCHANGED Atomic!vars
  BY <1>3, <1>4, <1>8 DEF Select, Hash, InsertDuplicate
<1>9. CASE UNCHANGED vars
  BY <1>9 DEF vars, Atomic!vars, CallOf
<1>10. QED
  BY <1>1, <1>2, <1>5, <1>6, <1>7, <1>8, <1>9 DEF Next, Serve, Atomic!Next

\* Every registration behaves as if it happened at one instant (auth.go:113-193).
THEOREM RegisterIsAtomic == Spec => ImplementsAtomicRegister
<1>1. QED
  BY InitRefines, NextRefines, Invariance, PTL DEF Spec, ImplementsAtomicRegister, Atomic!Spec

-----------------------------------------------------------------------------
(* What AtomicRegister promises holds of whatever implements it.           *)

\* Who is told that there is an account for the email, by 201 that it is new (auth.go:188)
\* or by 409 that it is not (auth.go:143, 178), is told the truth.
AnswersTrue ==
    \A r \in Reqs : reg[r].status \in {201, 409} => \E u \in users : u.email = reg[r].email

\* The same of calls and the emails taken.
CallsTrue(calls, emails) ==
    \A c \in Reqs : calls[c].outcome \in {"created", "conflict"} => calls[c].email \in emails

\* No step of AtomicRegister makes an answer that was true a lie, nor gives a false one.
LEMMA AtomicKeeps ==
    ASSUME [Atomic!Next]_(Atomic!vars),
           CallsTrue([r \in Reqs |-> CallOf(r)], {u.email : u \in users})
    PROVE  CallsTrue([r \in Reqs |-> CallOf(r)], {u.email : u \in users})'
<1>1. PICK old : old = [r \in Reqs |-> CallOf(r)]
  OBVIOUS
<1>2. PICK new : new = [r \in Reqs |-> CallOf(r)]'
  OBVIOUS
<1>3. PICK had : had = {u.email : u \in users}
  OBVIOUS
<1>4. PICK has : has = {u.email : u \in users}'
  OBVIOUS
<1>5. CallsTrue(old, had) /\ DOMAIN old = Reqs
  BY <1>1, <1>3
<1>6. ASSUME NEW c \in Reqs, NEW call, new = [old EXCEPT ![c] = call], had \subseteq has,
             call.outcome \in {"created", "conflict"} => call.email \in has
      PROVE  CallsTrue(new, has)
  BY <1>5, <1>6 DEF CallsTrue
<1>7. ASSUME NEW c \in Reqs, Atomic!Create(c) \/ Atomic!Conflict(c) \/ Atomic!Fail(c)
      PROVE  CallsTrue(new, has)
  <2>1. PICK outcome \in {"created", "conflict", "failed"} :
           /\ new = [old EXCEPT ![c] = [@ EXCEPT !.outcome = outcome]]
           /\ had \subseteq has /\ (outcome # "failed" => old[c].email \in has)
    BY <1>1, <1>2, <1>3, <1>4, <1>7 DEF Atomic!Create, Atomic!Conflict, Atomic!Fail, Atomic!Becomes
  <2>2. PICK call : call = [old[c] EXCEPT !.outcome = outcome]
    OBVIOUS
  <2>3. call.outcome = outcome /\ call.email = old[c].email
    <3>1. old[c] = [email |-> old[c].email, outcome |-> old[c].outcome]
      BY <1>1 DEF CallOf
    <3> QED
      BY <2>2, <3>1
  <2>4. new = [old EXCEPT ![c] = call]
    BY <2>1, <2>2
  <2> QED
    BY <1>6, <2>1, <2>3, <2>4
<1>8. ASSUME NEW c \in Reqs, Atomic!Return(c) \/ \E e \in Emails : Atomic!Invoke(c, e)
      PROVE  CallsTrue(new, has)
  <2>1. PICK e : new = [old EXCEPT ![c] = [email |-> e, outcome |-> "none"]] /\ has = had
    BY <1>1, <1>2, <1>3, <1>4, <1>8 DEF Atomic!Return, Atomic!Invoke, Atomic!Free
  <2>2. PICK call : call = [email |-> e, outcome |-> "none"]
    OBVIOUS
  <2>3. new = [old EXCEPT ![c] = call] /\ call.outcome = "none"
    BY <2>1, <2>2
  <2> QED
    BY <1>6, <2>1, <2>3
<1>9. CASE UNCHANGED Atomic!vars
  <2>1. new = old /\ has = had
    BY <1>1, <1>2, <1>3, <1>4, <1>9 DEF Atomic!vars
  <2> QED
    BY <1>2, <1>4, <1>5, <2>1
<1>10. CallsTrue(new, has)
  <2>1. CASE Atomic!Next
    BY <1>7, <1>8, <2>1 DEF Atomic!Next
  <2> QED
    BY <1>2, <1>4, <1>9, <2>1
<1> QED
  BY <1>2, <1>4, <1>10

\* However registrations interleave and fail: 201 and 409 are answered only of an email that
\* has an account, and while the answer is on its way the account stays.
THEOREM AnswersAreTrue == Spec => []AnswersTrue
<1> DEFINE I == CallsTrue([r \in Reqs |-> CallOf(r)], {u.email : u \in users})
<1>1. Atomic!Init => I
  <2> SUFFICES ASSUME Atomic!Init PROVE I
    OBVIOUS
  <2>1. PICK calls : calls = [r \in Reqs |-> CallOf(r)]
    OBVIOUS
  <2>2. \A r \in Reqs : calls[r].outcome = "none"
    BY <2>1 DEF Atomic!Init, Atomic!Free
  <2> QED
    BY <2>1, <2>2 DEF CallsTrue
<1>2. I /\ [Atomic!Next]_(Atomic!vars) => I'
  BY AtomicKeeps
<1>3. I => AnswersTrue
  <2> SUFFICES ASSUME I, NEW r \in Reqs, reg[r].status \in {201, 409}
               PROVE  \E u \in users : u.email = reg[r].email
    BY DEF AnswersTrue
  <2>1. Outcome(reg[r].status) \in {"created", "conflict"}
    <3>1. CASE reg[r].status = 201
      BY <3>1 DEF Outcome
    <3>2. CASE reg[r].status = 409
      BY <3>2 DEF Outcome
    <3> QED
      BY <3>1, <3>2
  <2>2. CallOf(r).email = reg[r].email /\ CallOf(r).outcome \in {"created", "conflict"}
    BY <2>1 DEF CallOf
  <2>3. reg[r].email \in {u.email : u \in users}
    BY <2>2 DEF CallsTrue
  <2> QED
    BY <2>3
<1> HIDE DEF I
<1> QED
  BY <1>1, <1>2, <1>3, RegisterIsAtomic, PTL DEF ImplementsAtomicRegister, Atomic!Spec
=============================================================================
