--------------------------- MODULE LockoutProofs ----------------------------
(***************************************************************************)
(* For every set of spellings and accounts, every limit, window and number *)
(* of logins in flight: Lockout is type correct; whatever fails, only the  *)
(* owner or time takes a failure back and Retry-After is within half a     *)
(* second; and as long as nothing fails no failure counter is left without *)
(* a window and the guesses stay within their budget.                      *)
(***************************************************************************)
EXTENDS MCLockoutModes, FiniteSetTheorems, TLAPS

\* A login that has asked for the counter knows its email.
EmailKnown == \A r \in Reqs :
    login[r].pc \in {"ttl", "lookup", "incr", "expire", "reset"} => login[r].email \in Emails

TInv == TypeOK /\ EmailKnown

USE DEF At, Key

\* The window is a positive number of ticks.
LEMMA WindowType == Window \in Nat \ {0}
<1>1. \A a, b \in Nat \ {0} : a * b \in Nat \ {0}
  OBVIOUS
<1>2. QED
  BY <1>1, LockoutAssumption DEF Window

\* Going to another step, and answering, keep a login a login.
LEMMA GotoKeepsType ==
  ASSUME TypeOK, NEW r \in Reqs, NEW pc \in PCs, Goto(r, pc)
  PROVE  login' \in [Reqs -> Login]
BY DEF TypeOK, Goto, Login

LEMMA AnswerKeepsType ==
  ASSUME TypeOK, NEW r \in Reqs, NEW st \in Statuses, Answer(r, st)
  PROVE  login' \in [Reqs -> Login]
<1>1. "reply" \in PCs
  BY DEF PCs
<1>2. QED
  BY <1>1 DEF TypeOK, Answer, Login

\* So does answering that the account is locked.
LEMMA LockedType ==
  ASSUME NEW l \in Login, NEW pc \in PCs, NEW st \in Statuses, NEW left \in 0 .. LockoutWindow
  PROVE  [l EXCEPT !.pc = pc, !.status = st, !.retry = left] \in Login
<1>1. PICK l1 : l1 = [l EXCEPT !.pc = pc]
  OBVIOUS
<1>2. l1 \in Login
  BY <1>1 DEF Login
<1>3. PICK l2 : l2 = [l1 EXCEPT !.status = st]
  OBVIOUS
<1>4. l2 \in Login
  BY <1>2, <1>3 DEF Login
<1>5. [l2 EXCEPT !.retry = left] \in Login
  BY <1>4 DEF Login
<1>6. QED
  BY <1>1, <1>3, <1>5

\* A login that has just arrived is a login.
LEMMA ArrivedType ==
  ASSUME NEW pc \in PCs, NEW e \in Emails, NEW good \in BOOLEAN
  PROVE  [Idle EXCEPT !.pc = pc, !.email = e, !.good = good] \in Login
<1>1. Idle \in Login
  BY LockoutAssumption DEF Idle, Login, PCs, Statuses
<1>2. QED
  BY <1>1, Zenon DEF Login

\* TInv holds initially.
LEMMA InitTInv == Init => TInv
BY LockoutAssumption DEF Init, Idle, TInv, TypeOK, EmailKnown, Login, PCs, Statuses

\* Every step preserves TInv.
LEMMA NextTInv == TInv /\ [Next]_vars => TInv'
<1> SUFFICES ASSUME TInv, [Next]_vars PROVE TInv'
  OBVIOUS
<1> USE LockoutAssumption, WindowType DEF TInv
<1>1. CASE Tick
  <2>1. count' \in [Keys -> Nat] /\ guesses' \in [Keys -> 0 .. GuessCap]
    BY <1>1 DEF Tick, Dropped, TypeOK
  <2>2. ttl' \in [Keys -> (1 .. Window) \cup {NoTTL}]
    BY <1>1 DEF Tick, TypeOK
  <2>3. QED
    BY <1>1, <2>1, <2>2 DEF Tick, TypeOK, EmailKnown
<1>2. ASSUME NEW r \in Reqs, Arrive(r) PROVE TInv'
  <2>1. PICK e \in Emails, good \in BOOLEAN : IsLockedGet(r, e, good)
    BY <1>2 DEF Arrive
  <2>2. PICK pc \in {"ttl", "lookup"} :
           login' = [login EXCEPT ![r] = [Idle EXCEPT !.pc = pc, !.email = e, !.good = good]]
    BY <2>1 DEF IsLockedGet
  <2>3. PICK q : q = [Idle EXCEPT !.pc = pc, !.email = e, !.good = good]
    OBVIOUS
  <2>4. q \in Login
    BY <2>3, ArrivedType DEF PCs
  <2>5. q.email \in Emails
    BY <2>3 DEF Idle
  <2>6. login' = [login EXCEPT ![r] = q] /\ UNCHANGED <<count, ttl, guesses>>
    BY <2>1, <2>2, <2>3 DEF IsLockedGet
  <2>7. QED
    BY <2>4, <2>5, <2>6 DEF TypeOK, EmailKnown
<1>3. ASSUME NEW r \in Reqs, Serve(r) PROVE TInv'
  <2>1. CASE IsLockedTTL(r)
    <3>1. PICK left \in 0 .. LockoutWindow :
             login' = [login EXCEPT ![r].pc = "reply", ![r].status = 429, ![r].retry = left]
      BY <2>1 DEF IsLockedTTL
    <3>2. "reply" \in PCs /\ 429 \in Statuses
      BY DEF PCs, Statuses
    <3>3. login' \in [Reqs -> Login]
      <4>0. login[r] \in Login
        BY DEF TInv, TypeOK
      <4>1. [login[r] EXCEPT !.pc = "reply", !.status = 429, !.retry = left] \in Login
        BY <3>2, <4>0, LockedType, ZenonT(40)
      <4>2. QED
        BY <3>1, <4>1 DEF TypeOK
    <3>4. UNCHANGED <<count, ttl, guesses>>
      BY <2>1 DEF IsLockedTTL
    <3>5. QED
      BY <3>1, <3>3, <3>4 DEF TypeOK, EmailKnown
  <2>2. CASE Lookup(r)
    <3>1. PICK pc \in {"reset", "incr"} : Goto(r, pc)
      BY <2>2 DEF Lookup
    <3>2. login' \in [Reqs -> Login] /\ login[r].email \in Emails
      BY <2>2, <3>1, GotoKeepsType DEF Lookup, EmailKnown, PCs
    <3>3. guesses' \in [Keys -> 0 .. GuessCap] /\ UNCHANGED <<count, ttl>>
      BY <2>2, <3>2 DEF Lookup, TypeOK
    <3>4. QED
      BY <3>1, <3>2, <3>3 DEF Goto, TypeOK, EmailKnown
  <2>3. CASE LookupFails(r) \/ RecordFailureExpireFails(r) \/ ResetFailuresFails(r)
    <3>1. PICK st \in {201, 401, 500} : Answer(r, st)
      BY <2>3 DEF LookupFails, RecordFailureExpireFails, ResetFailuresFails
    <3>2. login' \in [Reqs -> Login]
      BY <3>1, AnswerKeepsType DEF Statuses
    <3>3. UNCHANGED <<count, ttl, guesses>>
      BY <2>3 DEF LookupFails, RecordFailureExpireFails, ResetFailuresFails
    <3>4. QED
      BY <3>1, <3>2, <3>3 DEF Answer, TypeOK, EmailKnown
  <2>4. CASE RecordFailureIncr(r)
    <3>1. login[r].email \in Emails /\ count' \in [Keys -> Nat] /\ UNCHANGED <<ttl, guesses>>
      BY <2>4 DEF RecordFailureIncr, Incremented, EmailKnown, TypeOK
    <3>2. CASE Goto(r, "expire")
      <4>1. login' \in [Reqs -> Login]
        BY <3>2, GotoKeepsType DEF PCs
      <4>2. QED
        BY <3>1, <3>2, <4>1 DEF Goto, TypeOK, EmailKnown
    <3>3. CASE Answer(r, 401)
      <4>1. login' \in [Reqs -> Login]
        BY <3>3, AnswerKeepsType DEF Statuses
      <4>2. QED
        BY <3>1, <3>3, <4>1 DEF Answer, TypeOK, EmailKnown
    <3>4. QED
      BY <2>4, <3>2, <3>3 DEF RecordFailureIncr
  <2>5. CASE RecordFailureIncrFails(r)
    <3>1. Answer(r, 401) /\ UNCHANGED <<ttl, guesses>> /\ count' \in [Keys -> Nat]
      BY <2>5 DEF RecordFailureIncrFails, Incremented, EmailKnown, TypeOK
    <3>2. login' \in [Reqs -> Login]
      BY <3>1, AnswerKeepsType DEF Statuses
    <3>3. QED
      BY <3>1, <3>2 DEF Answer, TypeOK, EmailKnown
  <2>6. CASE RecordFailureExpire(r)
    <3>1. Answer(r, 401) /\ UNCHANGED <<count, guesses>>
      BY <2>6 DEF RecordFailureExpire
    <3>2. ttl' \in [Keys -> (1 .. Window) \cup {NoTTL}]
      BY <2>6 DEF RecordFailureExpire, EmailKnown, TypeOK
    <3>3. login' \in [Reqs -> Login]
      BY <3>1, AnswerKeepsType DEF Statuses
    <3>4. QED
      BY <3>1, <3>2, <3>3 DEF Answer, TypeOK, EmailKnown
  <2>7. CASE ResetFailures(r)
    <3>1. Answer(r, 201)
      BY <2>7 DEF ResetFailures
    <3>2. /\ ttl' \in [Keys -> (1 .. Window) \cup {NoTTL}]
          /\ count' \in [Keys -> Nat] /\ guesses' \in [Keys -> 0 .. GuessCap]
      BY <2>7 DEF ResetFailures, Dropped, EmailKnown, TypeOK
    <3>3. login' \in [Reqs -> Login]
      BY <3>1, AnswerKeepsType DEF Statuses
    <3>4. QED
      BY <3>1, <3>2, <3>3 DEF Answer, TypeOK, EmailKnown
  <2>8. CASE Reply(r)
    BY <2>8 DEF Reply, Idle, TypeOK, EmailKnown, Login, PCs, Statuses
  <2>9. QED
    BY <1>3, <2>1, <2>2, <2>3, <2>4, <2>5, <2>6, <2>7, <2>8 DEF Serve
<1>4. ASSUME NEW r \in Reqs, Crash(r) PROVE TInv'
  BY <1>4 DEF Crash, Idle, TypeOK, EmailKnown, Login, PCs, Statuses
<1>5. CASE UNCHANGED vars
  BY <1>5 DEF vars, TypeOK, EmailKnown
<1>6. QED
  BY <1>1, <1>2, <1>3, <1>4, <1>5 DEF Next

\* Every variable keeps its type, with and without failures.
THEOREM TypeCorrect == Spec => []TypeOK
<1>1. TInv => TypeOK
  BY DEF TInv
<1>2. QED
  BY <1>1, InitTInv, NextTInv, PTL DEF Spec

-----------------------------------------------------------------------------
(* As long as nothing fails.                                               *)

\* A step of one login that leaves the counters alone, and does not abandon a
\* counter it was about to give its window, keeps the windows.
LEMMA QuietKeepsWindow ==
  ASSUME TypeOK, CounterHasWindow, NEW r \in Reqs, NEW q,
         login' = [login EXCEPT ![r] = q], UNCHANGED <<count, ttl>>,
         ~ At(r, "expire")
  PROVE  CounterHasWindow'
BY DEF CounterHasWindow, Pending, TypeOK

\* Between INCR and EXPIRE the login that created a counter is still running;
\* whoever clears the counter meanwhile, the next one to create it takes over.
LEMMA NextWindow == ~ Faults /\ TInv /\ CounterHasWindow /\ [Next]_vars => CounterHasWindow'
<1> SUFFICES ASSUME ~ Faults, TInv, CounterHasWindow, [Next]_vars PROVE CounterHasWindow'
  OBVIOUS
<1> USE LockoutAssumption, WindowType DEF TInv
<1>1. CASE Tick
  BY <1>1 DEF Tick, Dropped, CounterHasWindow, Pending, TypeOK
<1>2. ASSUME NEW r \in Reqs, Arrive(r) PROVE CounterHasWindow'
  <2>1. PICK e \in Emails, good \in BOOLEAN : IsLockedGet(r, e, good)
    BY <1>2 DEF Arrive
  <2>2. PICK q : login' = [login EXCEPT ![r] = q]
    BY <2>1 DEF IsLockedGet
  <2>3. UNCHANGED <<count, ttl>> /\ ~ At(r, "expire")
    BY <2>1 DEF IsLockedGet
  <2>4. QED
    BY <2>2, <2>3, QuietKeepsWindow
<1>3. ASSUME NEW r \in Reqs, Serve(r) PROVE CounterHasWindow'
  <2>1. CASE IsLockedTTL(r) \/ Lookup(r) \/ Reply(r)
    <3>1. PICK q : login' = [login EXCEPT ![r] = q]
      BY <2>1 DEF IsLockedTTL, Lookup, Goto, Reply
    <3>2. UNCHANGED <<count, ttl>> /\ ~ At(r, "expire")
      BY <2>1 DEF IsLockedTTL, Lookup, Reply
    <3>3. QED
      BY <3>1, <3>2, QuietKeepsWindow
  <2>2. CASE RecordFailureIncr(r)
    <3>1. CASE count[Key(r)] = 0
      <4>1. login' = [login EXCEPT ![r].pc = "expire"] /\ Key(r) \in Keys
        BY <2>2, <3>1 DEF RecordFailureIncr, Goto, TypeOK, EmailKnown
      <4>2. /\ At(r, "expire")' /\ Key(r)' = Key(r)
            /\ \A r1 \in Reqs : r1 # r => login'[r1] = login[r1]
        BY <4>1 DEF TypeOK, Login
      <4>3. ttl' = ttl /\ \A k \in Keys : k # Key(r) => count'[k] = count[k]
        BY <2>2, <4>1 DEF RecordFailureIncr, Incremented, TypeOK
      <4>4. \A k \in Keys : k = Key(r) => Pending(k, "expire")' # {}
        BY <4>2 DEF Pending
      <4>5. \A k \in Keys : Pending(k, "expire") # {} => Pending(k, "expire")' # {}
        BY <2>2, <4>2 DEF Pending, RecordFailureIncr
      <4>6. QED
        BY <4>3, <4>4, <4>5 DEF CounterHasWindow
    <3>2. CASE count[Key(r)] # 0
      BY <2>2, <3>2 DEF RecordFailureIncr, Incremented, Answer, CounterHasWindow, Pending,
                        TypeOK, EmailKnown
    <3>3. QED
      BY <3>1, <3>2
  <2>3. CASE RecordFailureExpire(r)
    BY <2>3 DEF RecordFailureExpire, Answer, CounterHasWindow, Pending, TypeOK, EmailKnown
  <2>4. CASE ResetFailures(r)
    BY <2>4 DEF ResetFailures, Dropped, Answer, CounterHasWindow, Pending, TypeOK, EmailKnown
  <2>5. QED
    BY <1>3, <2>1, <2>2, <2>3, <2>4
       DEF Serve, LookupFails, RecordFailureIncrFails, RecordFailureExpireFails,
           ResetFailuresFails
<1>4. ASSUME NEW r \in Reqs, Crash(r) PROVE CounterHasWindow'
  BY <1>4 DEF Crash
<1>5. CASE UNCHANGED vars
  BY <1>5 DEF vars, CounterHasWindow, Pending
<1>6. QED
  BY <1>1, <1>2, <1>3, <1>4, <1>5 DEF Next

\* As long as nothing fails, every failure counter has its window or is about to
\* get it from the login that created it: no lock lasts for ever.
THEOREM CountersExpire == ASSUME ~ Faults PROVE Spec => []CounterHasWindow
<1>1. Init => TInv /\ CounterHasWindow
  BY InitTInv DEF Init, CounterHasWindow
<1>2. TInv /\ CounterHasWindow /\ [Next]_vars => (TInv /\ CounterHasWindow)'
  BY NextTInv, NextWindow
<1>3. QED
  BY <1>1, <1>2, PTL DEF Spec

-----------------------------------------------------------------------------
(* The budget.                                                             *)

\* The sets the budget counts are finite, and no larger than the logins in flight.
LEMMA SetsAreFinite ==
  ASSUME NEW k \in Keys
  PROVE  /\ IsFiniteSet(Past(k)) /\ IsFiniteSet(Pending(k, "incr"))
         /\ Cardinality(Reqs) \in Nat /\ Cardinality(Past(k)) \in Nat
         /\ Cardinality(Pending(k, "incr")) \in Nat
         /\ Cardinality(Past(k)) <= Cardinality(Reqs)
         /\ Cardinality(Pending(k, "incr")) <= Cardinality(Past(k))
<1>1. Past(k) \in SUBSET Reqs /\ Pending(k, "incr") \in SUBSET Past(k)
  BY DEF Past, Pending
<1>2. IsFiniteSet(Reqs) /\ IsFiniteSet(Past(k))
  BY <1>1, FS_Subset, LockoutAssumption
<1>3. QED
  BY <1>1, <1>2, FS_Subset, FS_CardinalityType

\* The same of the next state, which is a state too.
LEMMA SetsStayFinite ==
  ASSUME NEW k \in Keys
  PROVE  /\ IsFiniteSet(Past(k)') /\ IsFiniteSet(Pending(k, "incr")')
         /\ Cardinality(Past(k)') \in Nat /\ Cardinality(Pending(k, "incr")') \in Nat
         /\ Cardinality(Past(k)') <= Cardinality(Reqs)
<1>1. Past(k)' \in SUBSET Reqs /\ Pending(k, "incr")' \in SUBSET Past(k)'
  BY DEF Past, Pending
<1>2. IsFiniteSet(Reqs) /\ IsFiniteSet(Past(k)')
  BY <1>1, FS_Subset, LockoutAssumption
<1>3. QED
  BY <1>1, <1>2, FS_Subset, FS_CardinalityType

\* A step that leaves the counters alone and lets no login past the check, nor one
\* that is about to count a failure go without counting it.
LEMMA QuietKeepsBudget ==
  ASSUME TypeOK, BudgetInv, UNCHANGED <<count, guesses>>,
         \A k \in Keys : Past(k)' \subseteq Past(k),
         \A k \in Keys : Pending(k, "incr")' = Pending(k, "incr")
  PROVE  BudgetInv'
<1> SUFFICES ASSUME NEW k \in Keys
             PROVE  /\ count'[k] + Cardinality(Past(k)') < MaxLoginFailures + Cardinality(Reqs)
                    /\ guesses'[k] <= count'[k] + Cardinality(Pending(k, "incr")')
  BY DEF BudgetInv
<1>1. Cardinality(Past(k)') <= Cardinality(Past(k)) /\ Cardinality(Past(k)') \in Nat
  BY SetsAreFinite, SetsStayFinite, FS_Subset
<1>2. QED
  BY <1>1, SetsAreFinite, LockoutAssumption DEF BudgetInv, TypeOK

\* A login passes the check only while the counter is below the limit.
LEMMA ArriveKeepsBudget ==
  ASSUME ~ Faults, TInv, BudgetInv, NEW r \in Reqs, Arrive(r)
  PROVE  BudgetInv'
<1> USE DEF TInv
<1>1. PICK e \in Emails, good \in BOOLEAN : IsLockedGet(r, e, good)
  BY DEF Arrive
<1>2. PICK pc : pc = IF count[KeyOf[e]] < MaxLoginFailures THEN "lookup" ELSE "ttl"
  OBVIOUS
<1>3. PICK q : q = [Idle EXCEPT !.pc = pc, !.email = e, !.good = good]
  OBVIOUS
<1>4. login' = [login EXCEPT ![r] = q] /\ At(r, "idle") /\ UNCHANGED <<count, guesses>>
  BY <1>1, <1>2, <1>3 DEF IsLockedGet
<1>5. q.pc = pc /\ q.email = e
  BY <1>3 DEF Idle
<1>6. login'[r] = q /\ \A r1 \in Reqs : r1 # r => login'[r1] = login[r1]
  BY <1>4 DEF TypeOK
<1>7. \A k \in Keys : Pending(k, "incr")' = Pending(k, "incr")
  BY <1>2, <1>4, <1>5, <1>6 DEF Pending
<1>8. CASE pc = "ttl"
  <2>1. \A k \in Keys : Past(k)' \subseteq Past(k)
    BY <1>4, <1>5, <1>6, <1>8 DEF Past
  <2>2. QED
    BY <1>4, <1>7, <2>1, QuietKeepsBudget
<1>9. CASE pc = "lookup"
  <2>1. count[KeyOf[e]] < MaxLoginFailures
    BY <1>2, <1>9
  <2>2. \A k \in Keys : k # KeyOf[e] => Past(k)' = Past(k)
    BY <1>4, <1>5, <1>6 DEF Past
  <2> SUFFICES ASSUME NEW k \in Keys
               PROVE  /\ count'[k] + Cardinality(Past(k)') < MaxLoginFailures + Cardinality(Reqs)
                      /\ guesses'[k] <= count'[k] + Cardinality(Pending(k, "incr")')
    BY DEF BudgetInv
  <2>3. guesses'[k] <= count'[k] + Cardinality(Pending(k, "incr")')
    BY <1>4, <1>7 DEF BudgetInv
  <2>4. CASE k = KeyOf[e]
    BY <2>1, <2>3, <2>4, <1>4, SetsAreFinite, SetsStayFinite, LockoutAssumption DEF TypeOK
  <2>5. CASE k # KeyOf[e]
    BY <2>2, <2>3, <2>5, <1>4 DEF BudgetInv
  <2>6. QED
    BY <2>4, <2>5
<1>10. QED
  BY <1>2, <1>8, <1>9

\* A refused login becomes a guess, which its request has yet to count.
LEMMA LookupKeepsBudget ==
  ASSUME TInv, BudgetInv, NEW r \in Reqs, Lookup(r)
  PROVE  BudgetInv'
<1> USE DEF TInv
<1>1. PICK pc \in {"reset", "incr"} : login' = [login EXCEPT ![r].pc = pc]
  BY DEF Lookup, Goto
<1>2. /\ At(r, "lookup") /\ login'[r].pc = pc /\ Key(r)' = Key(r) /\ count' = count
      /\ \A r1 \in Reqs : r1 # r => login'[r1] = login[r1]
  BY <1>1 DEF Lookup, TypeOK, Login
<1>3. CASE pc = "reset"
  <2>1. UNCHANGED <<count, guesses>>
    <3>1. ~ Goto(r, "incr")
      BY <1>2, <1>3 DEF Goto, TypeOK, Login
    <3>2. QED
      BY <1>2, <3>1 DEF Lookup
  <2>2. \A k \in Keys : Past(k)' \subseteq Past(k)
    BY <1>2, <1>3 DEF Past
  <2>3. \A k \in Keys : Pending(k, "incr")' = Pending(k, "incr")
    BY <1>2, <1>3 DEF Pending
  <2>4. QED
    BY <2>1, <2>2, <2>3, QuietKeepsBudget
<1>4. CASE pc = "incr"
  <2>1. Key(r) \in Keys
    BY <1>2, LockoutAssumption DEF EmailKnown
  <2>2. \A k \in Keys : guesses'[k] <= guesses[k] + (IF k = Key(r) THEN 1 ELSE 0)
    BY <2>1 DEF Lookup, TypeOK
  <2>3. \A k \in Keys : Past(k)' = Past(k)
    BY <1>2, <1>4 DEF Past
  <2>4. \A k \in Keys : Pending(k, "incr")' =
           IF k = Key(r) THEN Pending(k, "incr") \cup {r} ELSE Pending(k, "incr")
    BY <1>2, <1>4 DEF Pending
  <2>5. \A k \in Keys : r \notin Pending(k, "incr")
    BY <1>2 DEF Pending
  <2>6. guesses' \in [Keys -> 0 .. GuessCap]
    BY <2>1, LockoutAssumption DEF Lookup, TypeOK
  <2> SUFFICES ASSUME NEW k \in Keys
               PROVE  /\ count'[k] + Cardinality(Past(k)') < MaxLoginFailures + Cardinality(Reqs)
                      /\ guesses'[k] <= count'[k] + Cardinality(Pending(k, "incr")')
    BY DEF BudgetInv
  <2>7. Cardinality(Pending(k, "incr")') =
          Cardinality(Pending(k, "incr")) + (IF k = Key(r) THEN 1 ELSE 0)
    BY <2>4, <2>5, SetsAreFinite, FS_AddElement
  <2>8. guesses[k] \in Nat /\ guesses'[k] \in Nat /\ count[k] \in Nat
    BY <2>6, LockoutAssumption DEF TypeOK
  <2>9. QED
    BY <1>2, <2>2, <2>3, <2>7, <2>8, SetsAreFinite DEF BudgetInv
<1>5. QED
  BY <1>1, <1>3, <1>4

\* Counting a failure turns the place the request held into a count.
LEMMA IncrKeepsBudget ==
  ASSUME TInv, BudgetInv, NEW r \in Reqs, RecordFailureIncr(r)
  PROVE  BudgetInv'
<1> USE DEF TInv
<1>1. PICK pc \in {"expire", "reply"}, st \in Statuses :
         login' = [login EXCEPT ![r].pc = pc, ![r].status = st]
  <2>1. CASE Goto(r, "expire")
    <3>1. login' = [login EXCEPT ![r].pc = "expire", ![r].status = login[r].status]
      BY <2>1 DEF Goto, TypeOK, Login
    <3>2. login[r].status \in Statuses
      BY DEF TypeOK, Login
    <3>3. QED
      BY <3>1, <3>2
  <2>2. CASE Answer(r, 401)
    BY <2>2 DEF Answer, Statuses
  <2>3. QED
    BY <2>1, <2>2 DEF RecordFailureIncr
<1>2. /\ At(r, "incr") /\ login'[r].pc = pc /\ Key(r)' = Key(r) /\ guesses' = guesses
      /\ \A r1 \in Reqs : r1 # r => login'[r1] = login[r1]
  BY <1>1 DEF RecordFailureIncr, TypeOK, Login
<1>3. Key(r) \in Keys
  BY <1>2, LockoutAssumption DEF EmailKnown
<1>4. \A k \in Keys : count'[k] = count[k] + (IF k = Key(r) THEN 1 ELSE 0)
  BY <1>3 DEF RecordFailureIncr, Incremented, TypeOK
<1>5. \A k \in Keys :
         /\ Past(k)' = IF k = Key(r) THEN Past(k) \ {r} ELSE Past(k)
         /\ Pending(k, "incr")' =
              IF k = Key(r) THEN Pending(k, "incr") \ {r} ELSE Pending(k, "incr")
         /\ k = Key(r) => r \in Past(k) /\ r \in Pending(k, "incr")
  BY <1>2 DEF Past, Pending
<1> SUFFICES ASSUME NEW k \in Keys
             PROVE  /\ count'[k] + Cardinality(Past(k)') < MaxLoginFailures + Cardinality(Reqs)
                    /\ guesses'[k] <= count'[k] + Cardinality(Pending(k, "incr")')
  BY DEF BudgetInv
<1>6. Cardinality(Past(k)') = Cardinality(Past(k)) - (IF k = Key(r) THEN 1 ELSE 0)
  BY <1>5, SetsAreFinite, FS_RemoveElement
<1>7. Cardinality(Pending(k, "incr")') =
        Cardinality(Pending(k, "incr")) - (IF k = Key(r) THEN 1 ELSE 0)
  BY <1>5, SetsAreFinite, FS_RemoveElement
<1>8. guesses[k] \in Nat /\ count[k] \in Nat
  BY LockoutAssumption DEF TypeOK
<1>9. QED
  BY <1>2, <1>4, <1>6, <1>7, <1>8, SetsAreFinite, LockoutAssumption DEF BudgetInv

\* A counter that is dropped takes its guesses with it.
LEMMA DroppedKeepsBudget ==
  ASSUME TypeOK, BudgetInv, NEW gone \in SUBSET Keys, Dropped(gone),
         \A k \in Keys : Past(k)' = Past(k),
         \A k \in Keys : Pending(k, "incr")' = Pending(k, "incr")
  PROVE  BudgetInv'
<1> SUFFICES ASSUME NEW k \in Keys
             PROVE  /\ count'[k] + Cardinality(Past(k)') < MaxLoginFailures + Cardinality(Reqs)
                    /\ guesses'[k] <= count'[k] + Cardinality(Pending(k, "incr")')
  BY DEF BudgetInv
<1>1. CASE k \in gone
  <2>1. count'[k] = 0 /\ guesses'[k] = 0
    BY <1>1 DEF Dropped
  <2>2. QED
    BY <2>1, SetsAreFinite, SetsStayFinite, LockoutAssumption
<1>2. CASE k \notin gone
  <2>1. count'[k] = count[k] /\ guesses'[k] = guesses[k]
    BY <1>2 DEF Dropped
  <2>2. QED
    BY <2>1 DEF BudgetInv
<1>3. QED
  BY <1>1, <1>2

\* Every step of a fault-free behaviour keeps the budget.
LEMMA NextBudget == ~ Faults /\ TInv /\ BudgetInv /\ [Next]_vars => BudgetInv'
<1> SUFFICES ASSUME ~ Faults, TInv, BudgetInv, [Next]_vars PROVE BudgetInv'
  OBVIOUS
<1>1. CASE Tick
  <2>1. UNCHANGED login /\ Dropped({k \in Keys : ttl[k] = 1})
    BY <1>1 DEF Tick
  <2>2. \A k \in Keys : Past(k)' = Past(k) /\ Pending(k, "incr")' = Pending(k, "incr")
    BY <2>1 DEF Past, Pending
  <2>3. QED
    BY <2>1, <2>2, DroppedKeepsBudget DEF TInv
<1>2. ASSUME NEW r \in Reqs, Arrive(r) PROVE BudgetInv'
  BY <1>2, ArriveKeepsBudget
<1>3. ASSUME NEW r \in Reqs, Serve(r) PROVE BudgetInv'
  <2>1. CASE IsLockedTTL(r) \/ RecordFailureExpire(r) \/ Reply(r)
    <3>1. /\ login[r].pc \in {"ttl", "expire", "reply"} /\ login'[r].pc \in {"idle", "reply"}
          /\ \A r1 \in Reqs : r1 # r => login'[r1] = login[r1]
          /\ UNCHANGED <<count, guesses>>
      BY <2>1 DEF IsLockedTTL, RecordFailureExpire, Reply, Answer, Idle, TInv, TypeOK, Login
    <3>2. \A k \in Keys : Past(k)' \subseteq Past(k)
      BY <3>1 DEF Past
    <3>3. \A k \in Keys : Pending(k, "incr")' = Pending(k, "incr")
      BY <3>1 DEF Pending
    <3>4. QED
      BY <3>1, <3>2, <3>3, QuietKeepsBudget DEF TInv
  <2>2. CASE Lookup(r)
    BY <2>2, LookupKeepsBudget
  <2>3. CASE RecordFailureIncr(r)
    BY <2>3, IncrKeepsBudget
  <2>4. CASE ResetFailures(r)
    <3>1. /\ login[r].pc = "reset" /\ login'[r].pc = "reply"
          /\ \A r1 \in Reqs : r1 # r => login'[r1] = login[r1]
      BY <2>4 DEF ResetFailures, Answer, TInv, TypeOK, Login
    <3>2. Dropped({Key(r)}) /\ {Key(r)} \in SUBSET Keys
      BY <2>4, <3>1, LockoutAssumption DEF ResetFailures, TInv, EmailKnown
    <3>3. \A k \in Keys : Past(k)' = Past(k) /\ Pending(k, "incr")' = Pending(k, "incr")
      BY <3>1 DEF Past, Pending
    <3>4. PICK gone \in SUBSET Keys : gone = {Key(r)}
      BY <3>2
    <3>5. Dropped(gone)
      BY <3>2, <3>4
    <3>6. QED
      BY <3>3, <3>5, DroppedKeepsBudget DEF TInv
  <2>5. QED
    BY <1>3, <2>1, <2>2, <2>3, <2>4
       DEF Serve, LookupFails, RecordFailureIncrFails, RecordFailureExpireFails,
           ResetFailuresFails
<1>4. ASSUME NEW r \in Reqs, Crash(r) PROVE BudgetInv'
  BY <1>4 DEF Crash
<1>5. CASE UNCHANGED vars
  BY <1>5 DEF vars, BudgetInv, Past, Pending
<1>6. QED
  BY <1>1, <1>2, <1>3, <1>4, <1>5 DEF Next

\* Initially nothing has been guessed or counted.
LEMMA InitBudget == Init => BudgetInv
<1> SUFFICES ASSUME Init, NEW k \in Keys
             PROVE  /\ count[k] + Cardinality(Past(k)) < MaxLoginFailures + Cardinality(Reqs)
                    /\ guesses[k] <= count[k] + Cardinality(Pending(k, "incr"))
  BY DEF BudgetInv
<1>1. count[k] = 0 /\ guesses[k] = 0
  BY DEF Init
<1>2. QED
  BY <1>1, SetsAreFinite, LockoutAssumption

\* The budget bounds the counter and the guesses.
LEMMA BudgetBounds == TInv /\ BudgetInv => GuessesBounded /\ CounterBounded
<1> SUFFICES ASSUME TInv, BudgetInv, NEW k \in Keys
             PROVE  /\ guesses[k] < MaxLoginFailures + Cardinality(Reqs)
                    /\ count[k] < MaxLoginFailures + Cardinality(Reqs)
  BY DEF GuessesBounded, CounterBounded
<1>1. guesses[k] \in Nat /\ count[k] \in Nat
  BY LockoutAssumption DEF TInv, TypeOK
<1>2. QED
  BY <1>1, SetsAreFinite, LockoutAssumption DEF BudgetInv

\* As long as nothing fails, the guesses an account takes before its window is over
\* or its owner logs in are fewer than the limit plus the logins in flight at a time.
THEOREM BudgetHolds == ASSUME ~ Faults PROVE Spec => [](GuessesBounded /\ CounterBounded)
<1>1. TInv /\ BudgetInv /\ [Next]_vars => (TInv /\ BudgetInv)'
  BY NextTInv, NextBudget
<1>2. QED
  BY <1>1, InitTInv, InitBudget, BudgetBounds, PTL DEF Spec

-----------------------------------------------------------------------------
(* What a step may never do, whether anything fails or not.                *)

\* A login that is about to clear a counter sent the right password for a row of
\* users that matches the email as it was spelled.
OwnersReset == \A r \in Reqs :
    At(r, "reset") => login[r].good /\ login[r].email \in Registered

\* The login of one request changes, and of no other.
LEMMA OneLoginSteps ==
  ASSUME TypeOK, NEW r \in Reqs, Arrive(r) \/ Serve(r) \/ Crash(r)
  PROVE  \A r1 \in Reqs : r1 # r => login'[r1] = login[r1]
<1>1. CASE Arrive(r)
  <2>1. PICK e \in Emails, good \in BOOLEAN : IsLockedGet(r, e, good)
    BY <1>1 DEF Arrive
  <2>2. PICK q : login' = [login EXCEPT ![r] = q]
    BY <2>1 DEF IsLockedGet
  <2>3. QED
    BY <2>2 DEF TypeOK
<1>2. CASE Crash(r)
  BY <1>2 DEF Crash, TypeOK
<1>3. CASE Serve(r)
  <2>1. CASE IsLockedTTL(r)
    BY <2>1 DEF IsLockedTTL, TypeOK
  <2>2. CASE Lookup(r) \/ LookupFails(r)
    BY <2>2 DEF Lookup, LookupFails, Goto, Answer, TypeOK
  <2>3. CASE RecordFailureIncr(r) \/ RecordFailureIncrFails(r)
    BY <2>3 DEF RecordFailureIncr, RecordFailureIncrFails, Goto, Answer, TypeOK
  <2>4. CASE RecordFailureExpire(r) \/ RecordFailureExpireFails(r)
    BY <2>4 DEF RecordFailureExpire, RecordFailureExpireFails, Answer, TypeOK
  <2>5. CASE ResetFailures(r) \/ ResetFailuresFails(r) \/ Reply(r)
    BY <2>5 DEF ResetFailures, ResetFailuresFails, Reply, Answer, TypeOK
  <2>6. QED
    BY <1>3, <2>1, <2>2, <2>3, <2>4, <2>5 DEF Serve
<1>4. QED
  BY <1>1, <1>2, <1>3

\* Only Lookup sends a login to clear the counter, and it does so for an owner.
LEMMA NextOwnersReset == TInv /\ OwnersReset /\ [Next]_vars => OwnersReset'
<1> SUFFICES ASSUME TInv, OwnersReset, [Next]_vars PROVE OwnersReset'
  OBVIOUS
<1> USE DEF TInv
<1>1. ASSUME NEW r \in Reqs, Arrive(r) \/ Serve(r) \/ Crash(r) PROVE OwnersReset'
  <2>1. \A r1 \in Reqs : r1 # r => login'[r1] = login[r1]
    BY <1>1, OneLoginSteps
  <2>2. CASE Lookup(r)
    <3>1. CASE login[r].email \in Registered /\ login[r].good
      <4>1. login'[r].good = login[r].good /\ login'[r].email = login[r].email
        BY <2>2, <3>1 DEF Lookup, Goto, TypeOK, Login
      <4>2. QED
        BY <2>1, <3>1, <4>1 DEF OwnersReset
    <3>2. CASE ~ (login[r].email \in Registered /\ login[r].good)
      <4>1. login' = [login EXCEPT ![r].pc = "incr"]
        BY <2>2, <3>2 DEF Lookup, Goto
      <4>2. login'[r].pc = "incr"
        BY <4>1 DEF TypeOK, Login
      <4>3. QED
        BY <2>1, <4>2 DEF OwnersReset
    <3>3. QED
      BY <3>1, <3>2
  <2>3. CASE ~ Lookup(r)
    <3>1. login'[r].pc # "reset"
      <4>1. CASE Arrive(r)
        <5>1. PICK e \in Emails, good \in BOOLEAN : IsLockedGet(r, e, good)
          BY <4>1 DEF Arrive
        <5>2. PICK pc \in {"ttl", "lookup"} :
                 login' = [login EXCEPT ![r] = [Idle EXCEPT !.pc = pc, !.email = e, !.good = good]]
          BY <5>1 DEF IsLockedGet
        <5>3. QED
          BY <5>2 DEF TypeOK, Idle
      <4>2. CASE Crash(r)
        BY <4>2 DEF Crash, TypeOK, Idle
      <4>3. CASE Serve(r)
        <5>1. CASE IsLockedTTL(r)
          BY <5>1 DEF IsLockedTTL, TypeOK, Login
        <5>2. CASE LookupFails(r)
          BY <5>2 DEF LookupFails, Answer, TypeOK, Login
        <5>3. CASE RecordFailureIncr(r) \/ RecordFailureIncrFails(r)
          BY <5>3 DEF RecordFailureIncr, RecordFailureIncrFails, Goto, Answer, TypeOK, Login
        <5>4. CASE RecordFailureExpire(r) \/ RecordFailureExpireFails(r)
          BY <5>4 DEF RecordFailureExpire, RecordFailureExpireFails, Answer, TypeOK, Login
        <5>5. CASE ResetFailures(r) \/ ResetFailuresFails(r) \/ Reply(r)
          BY <5>5 DEF ResetFailures, ResetFailuresFails, Reply, Answer, TypeOK, Login, Idle
        <5>6. QED
          BY <2>3, <4>3, <5>1, <5>2, <5>3, <5>4, <5>5 DEF Serve
      <4>4. QED
        BY <1>1, <4>1, <4>2, <4>3
    <3>2. QED
      BY <2>1, <3>1 DEF OwnersReset
  <2>4. QED
    BY <2>2, <2>3
<1>2. CASE Tick \/ UNCHANGED vars
  BY <1>2 DEF Tick, vars, OwnersReset
<1>3. QED
  BY <1>1, <1>2 DEF Next

\* A counter goes down only in Tick and in ResetFailures.
LEMMA StepClearsRightly ==
  ASSUME TInv, OwnersReset, Next, NEW k \in Keys, count'[k] < count[k]
  PROVE  \/ ttl[k] = 1
         \/ \E r \in Pending(k, "reset") : login[r].good /\ login[r].email \in Registered
<1> USE DEF TInv
<1>1. CASE Tick
  BY <1>1 DEF Tick, Dropped, TypeOK
<1>2. ASSUME NEW r \in Reqs, Arrive(r) PROVE FALSE
  BY <1>2 DEF Arrive, IsLockedGet, TypeOK
<1>3. ASSUME NEW r \in Reqs, Crash(r) PROVE FALSE
  BY <1>3 DEF Crash, TypeOK
<1>4. ASSUME NEW r \in Reqs, Serve(r) PROVE r \in Pending(k, "reset")
  <2>1. CASE ResetFailures(r)
    BY <2>1 DEF ResetFailures, Dropped, Pending, TypeOK
  <2>2. CASE RecordFailureIncr(r) \/ RecordFailureIncrFails(r)
    BY <2>2 DEF RecordFailureIncr, RecordFailureIncrFails, Incremented, TypeOK
  <2>3. CASE \/ IsLockedTTL(r) \/ Lookup(r) \/ LookupFails(r) \/ RecordFailureExpire(r)
             \/ RecordFailureExpireFails(r) \/ ResetFailuresFails(r) \/ Reply(r)
    BY <2>3 DEF IsLockedTTL, Lookup, LookupFails, RecordFailureExpire,
                RecordFailureExpireFails, ResetFailuresFails, Reply, TypeOK
  <2>4. QED
    BY <1>4, <2>1, <2>2, <2>3 DEF Serve
<1>5. QED
  BY <1>1, <1>2, <1>3, <1>4 DEF Next, OwnersReset, Pending

\* Only the account's owner or the end of the window gives guesses back, even when
\* Redis, Postgres, clients and replicas fail.
THEOREM OnlyOwnersClear == Spec => OnlyOwnerOrTimeClears
<1>1. Init => TInv /\ OwnersReset
  BY InitTInv DEF Init, Idle, OwnersReset
<1>2. TInv /\ OwnersReset /\ [Next]_vars => (TInv /\ OwnersReset)'
  BY NextTInv, NextOwnersReset
<1>3. TInv /\ OwnersReset /\ [Next]_vars =>
        [\A k \in Keys : count'[k] < count[k] =>
            \/ ttl[k] = 1
            \/ \E r \in Pending(k, "reset") :
                  login[r].good /\ login[r].email \in Registered]_vars
  BY StepClearsRightly
<1>4. QED
  BY <1>1, <1>2, <1>3, PTL DEF Spec, OnlyOwnerOrTimeClears

\* What TTL tells of a time is off by no more than the half second it rounds.
LEMMA SecondsLeftIsClose ==
  ASSUME NEW t \in Nat
  PROVE  /\ SecondsLeft(t) \in Nat
         /\ t <= SecondsLeft(t) * Second + (Second \div 2)
         /\ SecondsLeft(t) * Second <= t + (Second \div 2)
<1>1. PICK half \in Nat : half = Second \div 2 /\ Second <= 2 * half + 1
  BY LockoutAssumption
<1>2. PICK q : q = SecondsLeft(t)
  OBVIOUS
<1>3. q \in Nat /\ q * Second <= t + half /\ t + half < q * Second + Second
  BY <1>1, <1>2, LockoutAssumption DEF SecondsLeft
<1>4. PICK told \in Nat : told = q * Second
  BY <1>3, LockoutAssumption
<1>5. t <= told + half
  BY <1>1, <1>3, <1>4, LockoutAssumption
<1>6. QED
  BY <1>1, <1>2, <1>3, <1>4, <1>5

\* From "ttl" only IsLockedTTL answers.
LEMMA LockedAnswerIsClose ==
  ASSUME TInv, Next, NEW r \in Reqs, At(r, "ttl"), At(r, "reply")', ttl[Key(r)] # NoTTL
  PROVE  /\ ttl[Key(r)] <= login'[r].retry * Second + (Second \div 2)
         /\ \/ login'[r].retry * Second <= ttl[Key(r)] + (Second \div 2)
            \/ login'[r].retry * Second = Window
<1> USE DEF TInv
<1>1. ~ Tick
  BY DEF Tick
<1>2. PICK r1 \in Reqs : Arrive(r1) \/ Serve(r1) \/ Crash(r1)
  BY <1>1 DEF Next
<1>3. r1 = r
  BY <1>2, OneLoginSteps
<1>4. ~ Arrive(r)
  BY DEF Arrive, IsLockedGet
<1>5. ~ Crash(r)
  BY DEF Crash, Idle, TypeOK
<1>6. IsLockedTTL(r)
  BY <1>2, <1>3, <1>4, <1>5
     DEF Serve, Lookup, LookupFails, RecordFailureIncr, RecordFailureIncrFails,
         RecordFailureExpire, RecordFailureExpireFails, ResetFailures,
         ResetFailuresFails, Reply
<1>7. PICK left \in 0 .. LockoutWindow :
         /\ left = SecondsLeft(ttl[Key(r)]) \/ left = LockoutWindow
         /\ login' = [login EXCEPT ![r].pc = "reply", ![r].status = 429, ![r].retry = left]
  BY <1>6 DEF IsLockedTTL
<1>8. login'[r].retry = left
  BY <1>7 DEF TypeOK, Login
<1>9. Key(r) \in Keys
  BY LockoutAssumption DEF EmailKnown
<1>10. ttl[Key(r)] \in 1 .. Window
  BY <1>9 DEF TypeOK
<1>11. CASE left = SecondsLeft(ttl[Key(r)])
  <2>1. ttl[Key(r)] \in Nat
    BY <1>10, WindowType
  <2>2. QED
    BY <1>8, <1>11, <2>1, SecondsLeftIsClose
<1>12. CASE left = LockoutWindow
  <2>1. left * Second = Window
    BY <1>12 DEF Window
  <2>2. ttl[Key(r)] <= Window + (Second \div 2)
    BY <1>10, WindowType, LockoutAssumption
  <2>3. QED
    BY <1>8, <2>1, <2>2
<1>13. QED
  BY <1>7, <1>11, <1>12

\* Whatever the TTL command answered, a refused client is told the end of the window
\* within half a second, or a full window.
THEOREM RetryAfterIsHonest == Spec => RetryAfterIsClose
<1>1. TInv /\ [Next]_vars =>
        [\A r \in Reqs :
            At(r, "ttl") /\ At(r, "reply")' /\ ttl[Key(r)] # NoTTL =>
               LET told == login'[r].retry * Second IN
               /\ ttl[Key(r)] <= told + (Second \div 2)
               /\ told <= ttl[Key(r)] + (Second \div 2) \/ told = Window]_vars
  BY LockedAnswerIsClose
<1>2. QED
  BY <1>1, InitTInv, NextTInv, PTL DEF Spec, RetryAfterIsClose

-----------------------------------------------------------------------------
(* The two modes of MCLockoutModes, whose clean one is Lockout without faults. *)

\* While nothing fails, a step of either mode is a step of Lockout.
LEMMA CleanStep == ~ faulty /\ [ModesNext]_<<vars, faulty>> => [Next]_vars /\ ~ faulty'
BY DEF ModesNext, Clean, vars

\* In the clean mode every failure counter has its window or is about to get it.
THEOREM CleanWindows == ASSUME ~ Faults PROVE ModesSpec => []WindowWithoutFaults
<1> DEFINE Sound == TInv /\ CounterHasWindow
<1>1. ModesInit => faulty \/ Sound
  BY InitTInv DEF ModesInit, Init, CounterHasWindow
<1>2. (faulty \/ Sound) /\ [ModesNext]_<<vars, faulty>> => (faulty \/ Sound)'
  <2>1. faulty /\ [ModesNext]_<<vars, faulty>> => faulty'
    BY DEF ModesNext, Clean
  <2>2. QED
    BY <2>1, CleanStep, NextTInv, NextWindow
<1>3. (faulty \/ Sound) => WindowWithoutFaults
  BY DEF WindowWithoutFaults
<1>4. QED
  BY <1>1, <1>2, <1>3, PTL DEF ModesSpec

\* In the clean mode the budget of guesses holds.
THEOREM CleanBudget == ASSUME ~ Faults PROVE ModesSpec => []BudgetWithoutFaults
<1> DEFINE Sound == TInv /\ BudgetInv
<1>1. ModesInit => faulty \/ Sound
  BY InitTInv, InitBudget DEF ModesInit
<1>2. (faulty \/ Sound) /\ [ModesNext]_<<vars, faulty>> => (faulty \/ Sound)'
  <2>1. faulty /\ [ModesNext]_<<vars, faulty>> => faulty'
    BY DEF ModesNext, Clean
  <2>2. QED
    BY <2>1, CleanStep, NextTInv, NextBudget
<1>3. (faulty \/ Sound) => BudgetWithoutFaults
  BY BudgetBounds DEF BudgetWithoutFaults
<1>4. QED
  BY <1>1, <1>2, <1>3, PTL DEF ModesSpec
=============================================================================
