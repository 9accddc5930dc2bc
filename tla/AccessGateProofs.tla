--------------------------- MODULE AccessGateProofs ---------------------------
(***************************************************************************)
(* Proofs about AccessGate: its types, and that it implements RoleLease,   *)
(* for any users, roles, requests, clients, lifetimes and clock skew.      *)
(* The invariant follows a role from the row it was read in to the token   *)
(* it is sealed in: each was held at a known instant, or lost since.       *)
(***************************************************************************)
EXTENDS AccessGate, TLAPS

Lapses == [user : Users, role : Roles, at : 0 .. MaxTime]

\* What a request has read was true when it read it, or is in lapsed since.
ReadInv == \A q \in Requests : req[q] # Idle =>
               /\ req[q].asOf <= clock
               /\ Lease!HeldSince(req[q].user, req[q].role, req[q].asOf)

\* A token is sealed with the clock of its machine.
SealInv == \A q \in Requests : req[q] \in Sealed => req[q].exp <= clock + Skew + TTL

\* The instant a token that expires at e speaks for.
SpeaksFor(e) == e - TTL - Skew - WriteTimeout

TokenInv == \A c \in Clients : token[c] # NoToken =>
                /\ SpeaksFor(token[c].exp) <= clock
                /\ Lease!HeldSince(token[c].user, token[c].role, SpeaksFor(token[c].exp))

IInv == TypeOK /\ ReadInv /\ SealInv /\ TokenInv

-----------------------------------------------------------------------------
\* A role held since an instant was held since any earlier one.
LEMMA HeldEarlier ==
    ASSUME NEW u, NEW r, NEW s \in Int, NEW t \in Int, s <= t, TypeOK,
           Lease!HeldSince(u, r, t)
    PROVE  Lease!HeldSince(u, r, s)
<1>1. CASE role[u] = r
  BY <1>1 DEF Lease!HeldSince
<1>2. CASE role[u] # r
  <2>1. PICK l \in lapsed : l.user = u /\ l.role = r /\ l.at >= t
    BY <1>2 DEF Lease!HeldSince
  <2>2. l.at \in Int
    BY <2>1 DEF TypeOK
  <2>3. l.at >= s
    BY <2>1, <2>2
  <2> QED BY <2>1, <2>3 DEF Lease!HeldSince
<1> QED BY <1>1, <1>2

\* No change of a role makes an earlier holder forgotten.
LEMMA HeldAcrossChange ==
    ASSUME TypeOK, NEW v \in Users, Lease!ChangeRole(v),
           NEW u \in Users, NEW r \in Roles, NEW t \in Int, t <= clock,
           Lease!HeldSince(u, r, t)
    PROVE  Lease!HeldSince(u, r, t)'
<1> USE AccessGateAssumption
<1>0. clock \in Int /\ lapsed' = Lease!Lapse(v)
  BY DEF TypeOK, Lease!ChangeRole
<1>1. PICK w \in (Roles \cup {Gone}) \ {role[v]} : role' = [role EXCEPT ![v] = w]
  BY DEF Lease!ChangeRole
<1>2. CASE u = v /\ role[v] = r
  <2>1. [user |-> v, role |-> r, at |-> clock] \in lapsed'
    BY <1>0, <1>2 DEF Lease!Lapse
  <2> QED BY <2>1, <1>0, <1>2 DEF Lease!HeldSince
<1>3. CASE role[u] = r /\ u # v
  BY <1>1, <1>3 DEF TypeOK, Lease!HeldSince
<1>4. CASE role[u] # r
  <2>1. PICK l \in lapsed : l.user = u /\ l.role = r /\ l.at >= t
    BY <1>4 DEF Lease!HeldSince
  <2>2. l.user # v \/ l.role # role[v]
    BY <1>4, <2>1
  <2>3. l \in lapsed'
    BY <1>0, <2>1, <2>2 DEF Lease!Lapse
  <2> QED BY <2>1, <2>3 DEF Lease!HeldSince
<1> QED BY <1>2, <1>3, <1>4

LEMMA HeldUnchanged ==
    ASSUME NEW u, NEW r, NEW t, UNCHANGED <<role, lapsed>>, Lease!HeldSince(u, r, t)
    PROVE  Lease!HeldSince(u, r, t)'
BY DEF Lease!HeldSince

\* What each kind of request or token holds.
LEMMA Contents ==
    ASSUME TypeOK
    PROVE  /\ clock \in Nat
           /\ \A q \in Requests : req[q] # Idle =>
                  req[q].user \in Users /\ req[q].role \in Roles /\ req[q].asOf \in Int
           /\ \A q \in Requests : req[q] \in Sealed => req[q] # Idle /\ req[q].exp \in Int
           /\ \A c \in Clients : token[c] # NoToken =>
                  token[c].user \in Users /\ token[c].role \in Roles /\ token[c].exp \in Int
<1> USE AccessGateAssumption
<1>1. clock \in Nat
  BY DEF TypeOK
<1>2. \A q \in Requests : req[q] # Idle =>
          req[q].user \in Users /\ req[q].role \in Roles /\ req[q].asOf \in Int
  BY DEF TypeOK, Pending, Sealed
<1>3. \A q \in Requests : req[q] \in Sealed => req[q] # Idle /\ req[q].exp \in Int
  BY DEF Sealed
<1>4. \A c \in Clients : token[c] # NoToken =>
          token[c].user \in Users /\ token[c].role \in Roles /\ token[c].exp \in Int
  BY DEF TypeOK, Token
<1> QED BY <1>1, <1>2, <1>3, <1>4

-----------------------------------------------------------------------------
LEMMA InitIInv == Init => IInv
<1> SUFFICES ASSUME Init PROVE IInv
  OBVIOUS
<1> USE AccessGateAssumption
<1>1. /\ clock = 0 /\ role \in [Users -> Roles \cup {Gone}] /\ lapsed = {}
      /\ answer = Lease!None
  BY DEF Init, Lease!Init
<1>2. /\ req = [q \in Requests |-> Idle] /\ token = [c \in Clients |-> NoToken]
  BY DEF Init
<1>3. TypeOK
  BY <1>1, <1>2 DEF TypeOK
<1>4. ReadInv /\ SealInv /\ TokenInv
  BY <1>2 DEF ReadInv, SealInv, TokenInv
<1> QED BY <1>3, <1>4 DEF IInv

LEMMA TickKeeps == ASSUME IInv, Tick PROVE IInv'
<1> USE AccessGateAssumption DEF IInv
<1>1. /\ clock' = clock + 1 /\ clock < MaxTime /\ answer' = Lease!None
      /\ UNCHANGED <<role, lapsed, req, token>>
  BY DEF Tick, Lease!Tick
<1>2. TypeOK'
  BY <1>1 DEF TypeOK
<1>3. ReadInv'
  BY <1>1, HeldUnchanged, Contents DEF ReadInv
<1>4. SealInv'
  BY <1>1, Contents DEF SealInv
<1>5. TokenInv'
  BY <1>1, HeldUnchanged, Contents DEF TokenInv, SpeaksFor
<1> QED BY <1>2, <1>3, <1>4, <1>5

LEMMA ChangeRoleKeeps == ASSUME IInv, NEW v \in Users, ChangeRole(v) PROVE IInv'
<1> USE AccessGateAssumption DEF IInv
<1>1. /\ Lease!ChangeRole(v) /\ UNCHANGED <<clock, req, token>> /\ answer' = Lease!None
      /\ lapsed' = Lease!Lapse(v)
  BY DEF ChangeRole, Lease!ChangeRole
<1>2. TypeOK'
  <2>1. PICK w \in (Roles \cup {Gone}) \ {role[v]} : role' = [role EXCEPT ![v] = w]
    BY <1>1 DEF Lease!ChangeRole
  <2>2. role' \in [Users -> Roles \cup {Gone}]
    BY <2>1 DEF TypeOK
  <2>3. lapsed' \subseteq Lapses
    <3>1. role[v] # Gone => [user |-> v, role |-> role[v], at |-> clock] \in Lapses
      BY DEF TypeOK, Lapses
    <3> QED BY <1>1, <3>1 DEF TypeOK, Lapses, Lease!Lapse
  <2> QED BY <1>1, <2>2, <2>3 DEF TypeOK, Lapses
<1>3. ReadInv'
  BY <1>1, HeldAcrossChange, Contents DEF ReadInv
<1>4. SealInv'
  BY <1>1 DEF SealInv
<1>5. TokenInv'
  <2>1. ASSUME NEW c \in Clients, token[c] # NoToken
        PROVE  Lease!HeldSince(token[c].user, token[c].role, SpeaksFor(token[c].exp))'
    <3>1. SpeaksFor(token[c].exp) \in Int
      BY <2>1, Contents DEF SpeaksFor
    <3> QED BY <1>1, <2>1, <3>1, HeldAcrossChange, Contents DEF TokenInv, SpeaksFor
  <2> QED BY <1>1, <2>1 DEF TokenInv, SpeaksFor
<1> QED BY <1>2, <1>3, <1>4, <1>5

-----------------------------------------------------------------------------
\* A handler's step on its own request, into something that satisfies the invariant.
LEMMA RequestStep ==
    ASSUME IInv, NEW q \in Requests, NEW x \in {Idle} \cup Pending \cup Sealed,
           req' = [req EXCEPT ![q] = x], UNCHANGED <<clock, role, lapsed, answer>>,
           x # Idle => x.asOf <= clock /\ Lease!HeldSince(x.user, x.role, x.asOf),
           x \in Sealed => x.exp <= clock + Skew + TTL
    PROVE  /\ req' \in [Requests -> {Idle} \cup Pending \cup Sealed]
           /\ ReadInv' /\ SealInv'
<1> USE DEF IInv
<1>1. req' \in [Requests -> {Idle} \cup Pending \cup Sealed]
  BY DEF TypeOK
<1>2. \A p \in Requests : req'[p] = IF p = q THEN x ELSE req[p]
  BY DEF TypeOK
<1>3. \A u, r, t : Lease!HeldSince(u, r, t)' <=> Lease!HeldSince(u, r, t)
  BY DEF Lease!HeldSince
<1>4. ReadInv'
  BY <1>2, <1>3 DEF ReadInv
<1>5. SealInv'
  BY <1>2 DEF SealInv
<1> QED BY <1>1, <1>4, <1>5

LEMMA TokenUnchanged ==
    ASSUME TokenInv, UNCHANGED <<clock, role, lapsed, token>>
    PROVE  TokenInv'
BY HeldUnchanged DEF TokenInv, SpeaksFor

LEMMA LookUpKeeps ==
    ASSUME IInv, NEW q \in Requests, NEW u \in Users, LookUp(q, u) PROVE IInv'
<1> USE DEF IInv
<1> DEFINE x == [user |-> u, role |-> role[u], asOf |-> clock]
<1>1. x \in Pending
  BY Contents DEF LookUp, Pending
<1>2. x # Idle /\ x \notin Sealed
  BY <1>1, AccessGateAssumption DEF Pending, Sealed
<1>3. Lease!HeldSince(x.user, x.role, x.asOf) /\ x.asOf <= clock
  BY Contents DEF Lease!HeldSince
<1>4. req' = [req EXCEPT ![q] = x] /\ UNCHANGED <<clock, role, lapsed, token, answer>>
  BY DEF LookUp
<1> HIDE DEF x
<1>5. req' \in [Requests -> {Idle} \cup Pending \cup Sealed] /\ ReadInv' /\ SealInv'
  BY <1>1, <1>2, <1>3, <1>4, RequestStep
<1> QED BY <1>4, <1>5, TokenUnchanged DEF TypeOK

LEMMA CreateKeeps ==
    ASSUME IInv, NEW q \in Requests, CreateAccessToken(q) PROVE IInv'
<1> USE DEF IInv
<1>1. PICK now \in Readings :
          req' = [req EXCEPT ![q] = [user |-> req[q].user, role |-> req[q].role,
                                     asOf |-> req[q].asOf, exp |-> now + TTL]]
  BY DEF CreateAccessToken
<1> DEFINE x == [user |-> req[q].user, role |-> req[q].role,
                 asOf |-> req[q].asOf, exp |-> now + TTL]
<1>2. req[q] # Idle /\ UNCHANGED <<clock, role, lapsed, token, answer>>
  BY AccessGateAssumption DEF CreateAccessToken
<1>3. now \in Int /\ now <= clock + Skew
  BY <1>1, Contents, AccessGateAssumption DEF Readings
<1>4. x \in Sealed
  BY <1>2, <1>3, Contents, AccessGateAssumption DEF Sealed
<1>5. x.asOf <= clock /\ Lease!HeldSince(x.user, x.role, x.asOf)
  BY <1>2 DEF ReadInv
<1>6. x.exp <= clock + Skew + TTL
  BY <1>3, Contents, AccessGateAssumption
<1>7. req' = [req EXCEPT ![q] = x]
  BY <1>1
<1> HIDE DEF x
<1>8. req' \in [Requests -> {Idle} \cup Pending \cup Sealed] /\ ReadInv' /\ SealInv'
  BY <1>2, <1>4, <1>5, <1>6, <1>7, RequestStep
<1> QED BY <1>2, <1>8, TokenUnchanged DEF TypeOK

LEMMA AbandonKeeps ==
    ASSUME IInv, NEW q \in Requests, Abandon(q) PROVE IInv'
<1> USE DEF IInv
<1>1. Idle \notin Sealed
  BY AccessGateAssumption
<1>2. req' = [req EXCEPT ![q] = Idle] /\ UNCHANGED <<clock, role, lapsed, token, answer>>
  BY DEF Abandon
<1>3. req' \in [Requests -> {Idle} \cup Pending \cup Sealed] /\ ReadInv' /\ SealInv'
  BY <1>1, <1>2, RequestStep
<1> QED BY <1>2, <1>3, TokenUnchanged DEF TypeOK

\* The response leaves within WriteTimeout of the lookup, so the token speaks for an
\* instant no later than the lookup's.
LEMMA ReplyKeeps ==
    ASSUME IInv, NEW q \in Requests, Reply(q) PROVE IInv'
<1> USE DEF IInv
<1>1. PICK c \in Clients : token' = [token EXCEPT ![c] = Payload(req[q])]
  BY DEF Reply
<1>2. /\ req[q] \in Sealed /\ req[q] # Idle /\ clock <= req[q].asOf + WriteTimeout
      /\ req' = [req EXCEPT ![q] = Idle] /\ UNCHANGED <<clock, role, lapsed, answer>>
  BY Contents DEF Reply
<1>3. req' \in [Requests -> {Idle} \cup Pending \cup Sealed] /\ ReadInv' /\ SealInv'
  BY <1>2, AccessGateAssumption, RequestStep
<1> DEFINE t == Payload(req[q])
<1>4. t \in Token /\ t.exp = req[q].exp /\ t.user = req[q].user /\ t.role = req[q].role
  BY <1>2, Contents DEF Payload, Token
<1>5. SpeaksFor(t.exp) \in Int /\ SpeaksFor(t.exp) <= req[q].asOf /\ req[q].asOf <= clock
  BY <1>2, <1>4, Contents, AccessGateAssumption DEF SealInv, ReadInv, SpeaksFor
<1>6. SpeaksFor(t.exp) <= clock
  BY <1>2, <1>5, Contents
<1>7. Lease!HeldSince(t.user, t.role, SpeaksFor(t.exp))
  BY <1>2, <1>4, <1>5, Contents, HeldEarlier DEF ReadInv
<1> HIDE DEF t
<1>8. token' = [token EXCEPT ![c] = t]
  BY <1>1 DEF t
<1>9. token' \in [Clients -> Token \cup {NoToken}]
  BY <1>4, <1>8 DEF TypeOK
<1>10. \A d \in Clients : token'[d] = IF d = c THEN t ELSE token[d]
  BY <1>8 DEF TypeOK
<1>11. \A u, r, s : Lease!HeldSince(u, r, s)' <=> Lease!HeldSince(u, r, s)
  BY <1>2 DEF Lease!HeldSince
<1>12. TokenInv'
  <2>1. SUFFICES ASSUME NEW d \in Clients, token'[d] # NoToken
                 PROVE  /\ SpeaksFor(token'[d].exp) <= clock
                        /\ Lease!HeldSince(token'[d].user, token'[d].role,
                                           SpeaksFor(token'[d].exp))
    BY <1>2, <1>11 DEF TokenInv, SpeaksFor
  <2>2. CASE d = c
    BY <2>2, <1>6, <1>7, <1>10
  <2>3. CASE d # c
    BY <2>1, <2>3, <1>10 DEF TokenInv
  <2> QED BY <2>2, <2>3
<1> QED BY <1>2, <1>3, <1>9, <1>12 DEF TypeOK

\* An answer changes nothing the invariant speaks of.
LEMMA AnswerKeeps ==
    ASSUME IInv,
           NEW a \in Lease!Refusals \cup [status : {200}, user : Users, gate : Roles],
           Answer(a)
    PROVE  IInv'
<1> USE DEF IInv
<1>1. UNCHANGED <<clock, role, lapsed, req, token>> /\ answer' = a
  BY DEF Answer
<1>2. TypeOK'
  BY <1>1 DEF TypeOK
<1>3. ReadInv' /\ SealInv'
  BY <1>1, HeldUnchanged DEF ReadInv, SealInv
<1> QED BY <1>1, <1>2, <1>3, TokenUnchanged

LEMMA RefusalKeeps ==
    ASSUME IInv, NEW s \in {401, 403}, Answer([status |-> s])
    PROVE  IInv' /\ Lease!Refuse
<1>1. [status |-> s] \in Lease!Refusals
  BY DEF Lease!Refusals
<1>2. Lease!Refuse
  BY <1>1 DEF Lease!Refuse, Answer
<1> QED BY <1>1, <1>2, AnswerKeeps

\* A token that is valid on some clock speaks for an instant of the last Bound ticks.
LEMMA AdmitKeeps ==
    ASSUME IInv, NEW t \in Held, NEW gate \in Roles, NEW now \in Readings, Admit(t, gate, now)
    PROVE  IInv' /\ Lease!Admit(t.user, gate)
<1> USE DEF IInv
<1>1. PICK c \in Clients : t = token[c] /\ token[c] # NoToken
  BY DEF Held
<1>2. now \in Int /\ now >= clock - Skew
  BY Contents, AccessGateAssumption DEF Readings
<1>3. now <= t.exp /\ t.role = gate /\ Answer(Lease!Admission(t.user, gate))
  BY DEF Admit, Valid
<1>4. clock - Bound \in Int /\ SpeaksFor(t.exp) \in Int /\ clock - Bound <= SpeaksFor(t.exp)
  BY <1>1, <1>2, <1>3, Contents, AccessGateAssumption DEF Bound, SpeaksFor
<1>5. Lease!HeldSince(t.user, gate, SpeaksFor(t.exp))
  BY <1>1, <1>3 DEF TokenInv
<1>6. Lease!HeldSince(t.user, gate, clock - Bound)
  BY <1>4, <1>5, HeldEarlier
<1>7. Lease!Admission(t.user, gate) \in [status : {200}, user : Users, gate : Roles]
  BY <1>1, Contents DEF Lease!Admission
<1>8. IInv'
  BY <1>3, <1>7, AnswerKeeps
<1>9. Lease!Admit(t.user, gate)
  BY <1>3, <1>6 DEF Lease!Admit, Answer
<1> QED BY <1>8, <1>9

-----------------------------------------------------------------------------
\* Every step keeps the invariant and is one of RoleLease's, or changes nothing it sees.
LEMMA StepKeepsAndMaps ==
    ASSUME IInv, [Next]_vars
    PROVE  IInv' /\ [Lease!Next]_(Lease!vars)
<1>1. CASE Tick
  BY <1>1, TickKeeps DEF Tick, Lease!Next
<1>2. CASE NothingToVerify
  BY <1>2, RefusalKeeps DEF NothingToVerify, Lease!Next
<1>3. ASSUME NEW u \in Users, ChangeRole(u)
      PROVE  IInv' /\ [Lease!Next]_(Lease!vars)
  BY <1>3, ChangeRoleKeeps DEF ChangeRole, Lease!Next
<1>4. ASSUME NEW q \in Requests, Handle(q)
      PROVE  IInv' /\ [Lease!Next]_(Lease!vars)
  <2>1. UNCHANGED Lease!vars
    BY <1>4 DEF Handle, LookUp, CreateAccessToken, Reply, Abandon, Lease!vars
  <2>2. IInv'
    BY <1>4, LookUpKeeps, CreateKeeps, ReplyKeeps, AbandonKeeps DEF Handle
  <2> QED BY <2>1, <2>2
<1>5. ASSUME NEW t \in Held, NEW gate \in Roles, NEW now \in Readings, Gate(t, gate, now)
      PROVE  IInv' /\ [Lease!Next]_(Lease!vars)
  <2>1. CASE Expired(t, now)
    BY <2>1, RefusalKeeps DEF Expired, Lease!Next
  <2>2. CASE Forbidden(t, gate, now)
    BY <2>2, RefusalKeeps DEF Forbidden, Lease!Next
  <2>3. CASE Admit(t, gate, now)
    <3>1. t.user \in Users
      BY Contents DEF IInv, Held
    <3> QED BY <2>3, <3>1, AdmitKeeps DEF Lease!Next
  <2> QED BY <1>5, <2>1, <2>2, <2>3 DEF Gate
<1>6. CASE UNCHANGED vars
  <2>1. UNCHANGED <<clock, role, lapsed, req, token, answer>>
    BY <1>6 DEF vars
  <2>2. ReadInv' /\ SealInv'
    BY <2>1, HeldUnchanged DEF IInv, ReadInv, SealInv
  <2>3. TypeOK' /\ TokenInv'
    BY <2>1, TokenUnchanged DEF IInv, TypeOK
  <2> QED BY <2>1, <2>2, <2>3 DEF IInv, Lease!vars
<1> QED BY <1>1, <1>2, <1>3, <1>4, <1>5, <1>6 DEF Next

\* Every role the gateway works with can be traced to an instant at which the user had it.
THEOREM Invariance == Spec => []IInv
<1>1. IInv /\ [Next]_vars => IInv'
  BY StepKeepsAndMaps
<1> QED BY InitIInv, <1>1, PTL DEF Spec

\* Clocks, roles, requests, tokens and answers keep their types.
THEOREM TypeCorrect == Spec => []TypeOK
BY Invariance, PTL DEF IInv

\* Whoever a gated route admits held the role it asks for within TTL + WriteTimeout +
\* 2 * Skew of the call, whatever requests and tokens are about.
THEOREM Refinement == Spec => ImplementsRoleLease
<1>1. Init => Lease!Init
  BY DEF Init
<1>2. IInv /\ [Next]_vars => [Lease!Next]_(Lease!vars)
  BY StepKeepsAndMaps
<1> QED BY <1>1, <1>2, Invariance, PTL DEF Spec, Lease!Spec, ImplementsRoleLease

-----------------------------------------------------------------------------
(* What RoleLease promises holds of whatever implements it.                *)

\* Of every role a user had and lost it is known when that was last, once; and an admission
\* was of a user who held the role within the bound.
LeaseInv ==
    /\ \A l, m \in lapsed : l.user = m.user /\ l.role = m.role => l = m
    /\ \A u \in Users, r \in Roles :
          answer = Lease!Admission(u, r) => Lease!HeldSince(u, r, clock - Bound)

\* No step of RoleLease breaks that, whatever else there is.
LEMMA LeaseKeeps == LeaseInv /\ [Lease!Next]_(Lease!vars) => LeaseInv'
<1> SUFFICES ASSUME LeaseInv, [Lease!Next]_(Lease!vars) PROVE LeaseInv'
  OBVIOUS
<1>1. ASSUME UNCHANGED lapsed, UNCHANGED <<clock, role>>,
             \A u \in Users, r \in Roles :
                answer' = Lease!Admission(u, r) =>
                   answer' = answer \/ Lease!HeldSince(u, r, clock - Bound)
      PROVE  LeaseInv'
  BY <1>1 DEF LeaseInv, Lease!HeldSince, Lease!Admission, Bound
<1>2. ASSUME answer' = Lease!None
      PROVE  \A u \in Users, r \in Roles : answer' # Lease!Admission(u, r)
  BY <1>2 DEF Lease!None, Lease!Admission
<1>3. CASE Lease!Tick
  BY <1>2, <1>3 DEF LeaseInv, Lease!Tick, Lease!Admission
<1>4. CASE Lease!Refuse
  <2>1. \A u \in Users, r \in Roles : answer' # Lease!Admission(u, r)
    BY <1>4 DEF Lease!Refuse, Lease!Refusals, Lease!Admission
  <2> QED
    BY <1>1, <1>4, <2>1 DEF Lease!Refuse
<1>5. ASSUME NEW u \in Users, Lease!ChangeRole(u) PROVE LeaseInv'
  <2>1. lapsed' = Lease!Lapse(u) /\ answer' = Lease!None
    BY <1>5 DEF Lease!ChangeRole
  <2>2. \A l, m \in lapsed' : l.user = m.user /\ l.role = m.role => l = m
    BY <2>1 DEF LeaseInv, Lease!Lapse
  <2> QED
    BY <1>2, <2>1, <2>2 DEF LeaseInv, Lease!Admission
<1>6. ASSUME NEW u \in Users, NEW r \in Roles, Lease!Admit(u, r) PROVE LeaseInv'
  <2>1. \A v \in Users, s \in Roles :
           answer' = Lease!Admission(v, s) => v = u /\ s = r
    BY <1>6 DEF Lease!Admit, Lease!Admission
  <2> QED
    BY <1>1, <1>6, <2>1 DEF Lease!Admit
<1>7. CASE UNCHANGED Lease!vars
  BY <1>1, <1>7 DEF Lease!vars
<1> QED
  BY <1>3, <1>4, <1>5, <1>6, <1>7 DEF Lease!Next

\* From Bound after the instant at which a user last lost a role it does not hold, no gated
\* route admits that user with it (middleware.go:35).
RevokedRunsOut ==
    \A l \in lapsed :
        role[l.user] # l.role /\ l.at < clock - Bound => answer # Lease!Admission(l.user, l.role)

\* A role that was taken away runs out, whatever tokens and requests are about: by way of the
\* abstract specification, which knows neither.
THEOREM RolesRunOut == Spec => []RevokedRunsOut
<1>1. Lease!Init => LeaseInv
  BY DEF LeaseInv, Lease!Init, Lease!None, Lease!Admission
<1>2. LeaseInv /\ TypeOK => RevokedRunsOut
  <2> SUFFICES ASSUME LeaseInv, TypeOK, NEW l \in lapsed, role[l.user] # l.role,
                      l.at < clock - Bound, answer = Lease!Admission(l.user, l.role)
               PROVE  FALSE
    BY DEF RevokedRunsOut
  <2>1. l.user \in Users /\ l.role \in Roles /\ l.at \in Int /\ clock \in Int /\ Bound \in Int
    BY AccessGateAssumption DEF TypeOK, Bound
  <2>2. Lease!HeldSince(l.user, l.role, clock - Bound)
    BY <2>1 DEF LeaseInv
  <2>3. PICK m \in lapsed : m.user = l.user /\ m.role = l.role /\ m.at >= clock - Bound
    BY <2>2 DEF Lease!HeldSince
  <2>4. m = l
    BY <2>3 DEF LeaseInv
  <2> QED
    BY <2>1, <2>3, <2>4
<1> QED
  BY <1>1, <1>2, LeaseKeeps, Refinement, TypeCorrect, PTL DEF ImplementsRoleLease, Lease!Spec
=============================================================================
