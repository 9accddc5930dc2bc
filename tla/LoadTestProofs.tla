----------------------------- MODULE LoadTestProofs -----------------------------
(***************************************************************************)
(* Theorems about LoadTest: for any number of users, addresses, accounts   *)
(* and attempts, and whichever of the three ways the program takes, its    *)
(* state is well typed; no sample of the closed loop is lost or cut by the *)
(* deadline, and its compute phase is not throttled when the pause is long *)
(* enough; the timing check compares like with like and never meets a      *)
(* lock.  Each way's steps leave the others' state alone, so each has an   *)
(* invariant of its own.                                                   *)
(***************************************************************************)
EXTENDS LoadTest, OpenLoopProofs

-----------------------------------------------------------------------------
(* Each way by itself.                                                     *)

LEMMA StepsApart ==
    ASSUME [RunNext]_all
    PROVE  [Next]_vars /\ [C!Next]_closed /\ [T!Next]_timing
BY DEF RunNext, Open, Closed, Timing, all

LEMMA SafetyPart == RunSpec => Run /\ [][RunNext]_all
BY PTL DEF RunSpec

-----------------------------------------------------------------------------
(* Arithmetic.                                                             *)

\* A quotient is below q when the dividend is below q divisors.
LEMMA QuotientBelow ==
    ASSUME NEW x \in Nat, NEW d \in Nat \ {0}, NEW q \in Nat
    PROVE  x \div d < q <=> x < d * q
<1>1. x \div d \in Nat /\ x % d \in 0 .. d - 1 /\ x = d * (x \div d) + (x % d)
  OBVIOUS
<1>2. PICK k \in Nat : k = x \div d
  BY <1>1
<1>3. CASE k < q
  <2>1. d * (k + 1) <= d * q
    BY <1>3
  <2>2. x < d * (k + 1)
    BY <1>1, <1>2
  <2> QED
    BY <1>2, <1>3, <2>1, <2>2
<1>4. CASE k >= q
  <2>1. d * q <= d * k
    BY <1>4
  <2> QED
    BY <1>1, <1>2, <1>4, <2>1
<1> QED
  BY <1>3, <1>4

\* The place in the window advances by one, and starts again.
LEMMA PlaceInWindow ==
    ASSUME NEW n \in Nat, NEW W \in Nat \ {0}
    PROVE  /\ n % W \in 0 .. W - 1 /\ n % W <= n
           /\ (n + 1) % W = IF n % W = W - 1 THEN 0 ELSE (n % W) + 1
<1>1. n \div W \in Nat /\ n % W \in 0 .. W - 1 /\ n = W * (n \div W) + (n % W)
  OBVIOUS
<1>2. /\ (n + 1) \div W \in Nat /\ (n + 1) % W \in 0 .. W - 1
      /\ n + 1 = W * ((n + 1) \div W) + ((n + 1) % W)
  OBVIOUS
<1>3. PICK k \in Nat, m \in Nat : k = n \div W /\ m = (n + 1) \div W
  BY <1>1, <1>2
<1>4. W * (m - k) = (n % W) + 1 - ((n + 1) % W)
  BY <1>1, <1>2, <1>3
<1>5. m - k \in {0, 1}
  <2>1. CASE m - k >= 2
    <3>1. W * (m - k) >= W * 2
      BY <2>1
    <3> QED
      BY <1>1, <1>2, <1>4, <3>1
  <2>2. CASE m - k <= -1
    <3>1. W * (m - k) <= W * (-1)
      BY <2>2
    <3> QED
      BY <1>1, <1>2, <1>4, <3>1
  <2> QED
    BY <2>1, <2>2
<1> QED
  BY <1>1, <1>2, <1>3, <1>4, <1>5

-----------------------------------------------------------------------------
(* The closed loop.                                                        *)

\* A user lives in a phase only.
DoneOutside == ~ C!InPhase => \A u \in C!U : user[u].pc = "done"

\* Every request a user sent is a sample it keeps or in flight, and what it keeps is
\* published when it ends.
SamplesKept ==
    \A u \in C!U :
        /\ C!Total(kept[u]) + (IF user[u].pc = "sending" THEN 1 ELSE 0) = sent[u]
        /\ user[u].pc = "done" => perUser[u] = kept[u]
        /\ user[u].pc = "ramp" => kept[u] = C!Nothing /\ perUser[u] = C!Nothing

ClosedInv == C!TypeOK /\ DoneOutside /\ SamplesKept /\ DeadlineCutsNothing

LEMMA ClosedConstants ==
    /\ Users \in Nat \ {0} /\ Addresses \in Nat \ {0} /\ Accounts \in Nat
    /\ Ramp \in Nat /\ ClosedWarmup \in Nat /\ ClosedDuration \in Nat \ {0} /\ Cooldown \in Nat
    /\ Naps \subseteq Nat /\ Naps # {}
    /\ Timeout \in Nat \ {0} /\ Window \in Nat \ {0} /\ Limit \in Nat \ {0}
    /\ ClosedTime \in Nat
BY LoadTestAssumption DEF C!ClosedLoopAssumption

\* How a request ends: as a sample of some kind, counted by the limiter or not.
RequestEnds(u, kind) ==
    /\ user[u].pc = "sending" /\ C!Record(u, kind) /\ kind \in C!Kinds
    /\ \/ UNCHANGED hits
       \/ C!Used(address[u]) < Limit /\ C!CountIt(u)
    /\ kind = "cancelled" => interrupted
    /\ kind = "throttled" => C!Used(address[u]) >= Limit

\* How a user's life goes on otherwise.
UserMoves(u) == C!WakeUp(u) \/ C!RampCut(u) \/ C!ThinkCut(u) \/ C!LeaveLoop(u) \/ C!Issue(u)

LEMMA LiveMoves ==
    ASSUME NEW u \in C!U, C!Live(u)
    PROVE  UserMoves(u) \/ \E kind \in C!Kinds : RequestEnds(u, kind)
<1>1. CASE C!Answered(u)
  <2>1. RequestEnds(u, "answered")
    BY <1>1 DEF C!Answered, RequestEnds, C!Kinds
  <2> QED
    BY <2>1 DEF C!Kinds
<1>2. CASE C!Throttled(u)
  <2>1. RequestEnds(u, "throttled")
    BY <1>2 DEF C!Throttled, RequestEnds, C!Kinds
  <2> QED
    BY <2>1 DEF C!Kinds
<1>3. CASE C!TimesOut(u)
  <2>1. RequestEnds(u, "timeout")
    BY <1>3 DEF C!TimesOut, C!Unanswered, RequestEnds, C!Kinds
  <2> QED
    BY <2>1 DEF C!Kinds
<1>4. CASE C!Cancelled(u)
  <2>1. RequestEnds(u, "cancelled")
    BY <1>4 DEF C!Cancelled, C!Unanswered, RequestEnds, C!Kinds
  <2> QED
    BY <2>1 DEF C!Kinds
<1> QED
  BY <1>1, <1>2, <1>3, <1>4 DEF C!Live, UserMoves

\* What runs between the phases: every user is done, and what the last phase left is
\* forgotten.
StageMoves ==
    /\ C!Forget /\ \A u \in C!U : user[u].pc = "done"
    /\ \/ C!Leave("over", 0)
       \/ stage = "limiter" /\ C!Pause
       \/ stage = "seed" /\ C!Enter("limiter")
       \/ stage = "seed" /\ C!Enter("compute")
       \/ stage = "pause" /\ now >= until /\ C!Enter("compute")

LEMMA StageSteps ==
    ASSUME DoneOutside, C!SeedFails \/ C!Seeded \/ C!PhaseReturns \/ C!PauseOver
    PROVE  StageMoves
<1>1. CASE C!SeedFails
  BY <1>1 DEF C!SeedFails, C!Stop, C!Leave, DoneOutside, C!InPhase, StageMoves
<1>2. CASE C!Seeded
  BY <1>2 DEF C!Seeded, C!Stop, C!Leave, C!Enter, DoneOutside, C!InPhase, StageMoves
<1>3. CASE C!PhaseReturns
  BY <1>3 DEF C!PhaseReturns, C!Stop, C!Leave, C!Pause, StageMoves
<1>4. CASE C!PauseOver
  BY <1>4 DEF C!PauseOver, C!Stop, C!Leave, C!Enter, DoneOutside, C!InPhase, StageMoves
<1> QED
  BY <1>1, <1>2, <1>3, <1>4

\* One case per kind of step.
LEMMA ClosedCases ==
    ASSUME DoneOutside, [C!Next]_closed
    PROVE  \/ C!Tick \/ C!Interrupt \/ C!Expire \/ C!SeedAccount \/ StageMoves
           \/ \E u \in C!U : UserMoves(u)
           \/ \E u \in C!U, kind \in C!Kinds : RequestEnds(u, kind)
           \/ UNCHANGED closed
BY LiveMoves, StageSteps DEF C!Next, C!Main

\* A move gives a user a new place and leaves the others where they are.
LEMMA GotoMoves ==
    ASSUME C!TypeOK, NEW u \in C!U, NEW t \in Nat,
           NEW pc \in {"ready", "sending", "thinking", "done"}, C!Goto(u, pc, t)
    PROVE  /\ user'[u] = [pc |-> pc, t |-> t] /\ user'[u].pc = pc
           /\ \A v \in C!U : v # u => user'[v] = user[v]
           /\ user' \in [C!U -> [pc : {"ramp", "ready", "sending", "thinking", "done"}, t : Nat]]
<1>1. PICK q : q = [pc |-> pc, t |-> t]
  OBVIOUS
<1>2. q.pc = pc /\ q \in [pc : {"ramp", "ready", "sending", "thinking", "done"}, t : Nat]
  BY <1>1
<1>3. user' = [user EXCEPT ![u] = q]
  BY <1>1 DEF C!Goto
<1> QED
  BY <1>1, <1>2, <1>3 DEF C!TypeOK

\* What the limiter counts of an address, before and after it counted a request.
LEMMA CountedType ==
    ASSUME C!TypeOK, NEW a
    PROVE  /\ C!Counted(a) \in [before : Nat, now : Nat]
           /\ C!Counted(a).before \in Nat /\ C!Counted(a).now \in Nat
<1>1. C!Counted(a) \in [before : Nat, now : Nat]
  BY DEF C!TypeOK, C!Counted, C!Fresh
<1> QED
  BY <1>1

LEMMA CountItCounts ==
    ASSUME C!TypeOK, NEW u \in C!U, C!CountIt(u)
    PROVE  /\ DOMAIN hits' \subseteq Nat
           /\ hits' \in [DOMAIN hits' -> [before : Nat, now : Nat]]
           /\ \A a \in Nat :
                C!Counted(a)' = IF a = address[u]
                                THEN [before |-> C!Counted(a).before, now |-> C!Counted(a).now + 1]
                                ELSE C!Counted(a)
<1>1. PICK b : b = address[u]
  OBVIOUS
<1>2. PICK q : q = [before |-> C!Counted(b).before, now |-> C!Counted(b).now + 1]
  OBVIOUS
<1>3. q = [C!Counted(b) EXCEPT !.now = @ + 1]
  BY <1>2, CountedType
<1>4. /\ b \in Nat /\ DOMAIN hits \subseteq Nat
      /\ hits \in [DOMAIN hits -> [before : Nat, now : Nat]]
  BY <1>1 DEF C!TypeOK
<1>5. hits' = [a \in DOMAIN hits \cup {b} |-> IF a = b THEN q ELSE hits[a]]
  BY <1>1, <1>3 DEF C!CountIt
<1>6. q \in [before : Nat, now : Nat] /\ q.before = C!Counted(b).before
      /\ q.now = C!Counted(b).now + 1
  BY <1>2, CountedType
<1>7. \A a \in Nat \ {b} : C!Counted(a)' = C!Counted(a)
  BY <1>5 DEF C!Counted
<1>8. \A a \in Nat : a = b => C!Counted(a)' = q
  BY <1>5 DEF C!Counted
<1> QED
  BY <1>1, <1>2, <1>4, <1>5, <1>6, <1>7, <1>8

LEMMA ClosedTypeStep ==
    ASSUME C!TypeOK, DoneOutside, [C!Next]_closed
    PROVE  C!TypeOK'
<1> USE ClosedConstants
<1>1. CASE C!Tick
  <2>1. now' \in 0 .. ClosedTime
    BY <1>1 DEF C!Tick, C!TypeOK
  <2>2. DOMAIN hits' \subseteq Nat /\ hits' \in [DOMAIN hits' -> [before : Nat, now : Nat]]
    BY <1>1 DEF C!Tick, C!TypeOK, C!Turned
  <2> QED
    BY <1>1, <2>1, <2>2 DEF C!Tick, C!TypeOK, C!plan, C!ctxs, C!records
<1>2. CASE C!Interrupt \/ C!Expire \/ UNCHANGED closed
  BY <1>2 DEF C!Interrupt, C!Expire, closed, C!TypeOK, C!plan, C!ctxs, C!records
<1>3. CASE C!SeedAccount
  BY <1>3 DEF C!SeedAccount, C!TypeOK, C!ctxs, C!records
<1>4. CASE StageMoves
  <2>1. C!Nothing \in [C!Kinds -> Nat]
    BY DEF C!Nothing
  <2>2. /\ stage' \in {"seed", "limiter", "pause", "compute", "over"} /\ until' \in Nat
        /\ user' \in [C!U -> [pc : {"ramp", "ready", "sending", "thinking", "done"}, t : Nat]]
    <3>1. CASE C!Leave("over", 0) \/ C!Pause
      BY <1>4, <3>1 DEF C!Leave, C!Pause, C!TypeOK
    <3>2. ASSUME NEW phase \in {"limiter", "compute"}, C!Enter(phase)
          PROVE  /\ stage' \in {"limiter", "compute"} /\ until' \in Nat
                 /\ user' \in [C!U -> [pc : {"ramp"}, t : Nat]]
      <4>1. ASSUME NEW u \in C!U
            PROVE  now + (Ramp * u) \div Users \in Nat
        <5>1. PICK k \in Nat : k = Ramp * u
          BY DEF C!U
        <5>2. k \div Users \in Nat
          OBVIOUS
        <5> QED
          BY <5>1, <5>2 DEF C!TypeOK
      <4> QED
        BY <3>2, <4>1 DEF C!Enter, C!TypeOK
    <3>3. CASE C!Enter("limiter") \/ C!Enter("compute")
      BY <3>2, <3>3
    <3> QED
      BY <1>4, <3>1, <3>3 DEF StageMoves
  <2> QED
    BY <1>4, <2>1, <2>2 DEF StageMoves, C!Forget, C!TypeOK
<1>5. ASSUME NEW u \in C!U, UserMoves(u)
      PROVE  C!TypeOK'
  <2>1. CASE C!WakeUp(u)
    BY <2>1, GotoMoves DEF C!WakeUp, C!TypeOK, C!plan, C!ctxs, C!records
  <2>2. CASE C!RampCut(u)
    BY <2>2, GotoMoves DEF C!RampCut, C!TypeOK, C!plan, C!ctxs, C!records
  <2>3. CASE C!Publish(u)
    BY <2>3, GotoMoves DEF C!Publish, C!TypeOK, C!plan, C!ctxs
  <2>4. CASE C!Issue(u)
    <3>1. C!IPFor(nextIP) \in Nat
      BY DEF C!IPFor, C!TypeOK
    <3>2. now + Timeout \in Nat
      BY DEF C!TypeOK
    <3>3. user' \in [C!U -> [pc : {"ramp", "ready", "sending", "thinking", "done"}, t : Nat]]
      BY <2>4, <3>2, GotoMoves DEF C!Issue
    <3>4. address' \in [C!U -> Nat] /\ nextIP' \in Nat /\ sent' \in [C!U -> Nat]
      BY <2>4, <3>1 DEF C!Issue, C!TypeOK
    <3> QED
      BY <2>4, <3>3, <3>4 DEF C!Issue, C!TypeOK, C!plan, C!ctxs
  <2> QED
    BY <1>5, <2>1, <2>2, <2>3, <2>4 DEF UserMoves, C!ThinkCut, C!LeaveLoop
<1>6. ASSUME NEW u \in C!U, NEW kind \in C!Kinds, RequestEnds(u, kind)
      PROVE  C!TypeOK'
  <2>1. user' \in [C!U -> [pc : {"ramp", "ready", "sending", "thinking", "done"}, t : Nat]]
    <3>1. PICK nap \in Naps : C!Goto(u, "thinking", now + nap)
      BY <1>6 DEF RequestEnds, C!Record
    <3>2. now + nap \in Nat
      BY DEF C!TypeOK
    <3> QED
      BY <3>1, <3>2, GotoMoves
  <2>2. kept' \in [C!U -> [C!Kinds -> Nat]]
    BY <1>6 DEF RequestEnds, C!Record, C!TypeOK
  <2>3. DOMAIN hits' \subseteq Nat /\ hits' \in [DOMAIN hits' -> [before : Nat, now : Nat]]
    <3>1. CASE C!CountIt(u)
      BY <3>1, CountItCounts
    <3> QED
      BY <1>6, <3>1 DEF RequestEnds, C!TypeOK
  <2> QED
    BY <1>6, <2>1, <2>2, <2>3 DEF RequestEnds, C!Record, C!TypeOK, C!plan, C!ctxs
<1> QED
  BY <1>1, <1>2, <1>3, <1>4, <1>5, <1>6, ClosedCases

LEMMA DoneOutsideStep ==
    ASSUME C!TypeOK, DoneOutside, [C!Next]_closed
    PROVE  DoneOutside'
<1> USE DEF DoneOutside, C!InPhase
<1>1. CASE C!Tick \/ C!Interrupt \/ C!Expire \/ C!SeedAccount \/ UNCHANGED closed
  BY <1>1 DEF C!Tick, C!Interrupt, C!Expire, C!SeedAccount, closed, C!plan
<1>2. CASE StageMoves
  BY <1>2 DEF StageMoves, C!Leave, C!Pause, C!Enter
<1>3. ASSUME NEW u \in C!U, UserMoves(u)
      PROVE  DoneOutside'
  BY <1>3 DEF UserMoves, C!WakeUp, C!RampCut, C!ThinkCut, C!LeaveLoop, C!Publish, C!Issue, C!plan
<1>4. ASSUME NEW u \in C!U, NEW kind \in C!Kinds, RequestEnds(u, kind)
      PROVE  DoneOutside'
  BY <1>4 DEF RequestEnds, C!Record, C!plan
<1> QED
  BY <1>1, <1>2, <1>3, <1>4, ClosedCases

LEMMA TotalOfNothing == C!Total(C!Nothing) = 0
BY DEF C!Total, C!Nothing, C!Kinds

\* One more sample of a kind is one more sample.
LEMMA TotalCounts ==
    ASSUME NEW s \in [C!Kinds -> Nat], NEW kind \in C!Kinds
    PROVE  /\ C!Total(s) \in Nat
           /\ C!Total([s EXCEPT ![kind] = @ + 1]) = C!Total(s) + 1
BY DEF C!Total, C!Kinds

LEMMA SamplesKeptStep ==
    ASSUME C!TypeOK, DoneOutside, SamplesKept, [C!Next]_closed
    PROVE  SamplesKept'
<1> USE DEF SamplesKept
<1>1. CASE C!Tick \/ C!Interrupt \/ C!Expire \/ C!SeedAccount \/ UNCHANGED closed
  BY <1>1 DEF C!Tick, C!Interrupt, C!Expire, C!SeedAccount, closed, C!records
<1>2. CASE StageMoves
  <2>1. /\ kept' = [u \in C!U |-> C!Nothing] /\ perUser' = [u \in C!U |-> C!Nothing]
        /\ sent' = [u \in C!U |-> 0]
    BY <1>2 DEF StageMoves, C!Forget
  <2>2. \A u \in C!U : user'[u].pc \in {"ramp", "done"}
    BY <1>2 DEF StageMoves, C!Leave, C!Pause, C!Enter
  <2> QED
    BY <2>1, <2>2, TotalOfNothing
<1>3. ASSUME NEW u \in C!U, UserMoves(u)
      PROVE  SamplesKept'
  <2>1. CASE C!WakeUp(u)
    <3>1. user'[u].pc = "ready" /\ \A v \in C!U : v # u => user'[v] = user[v]
      BY <2>1, GotoMoves DEF C!WakeUp
    <3>2. kept' = kept /\ perUser' = perUser /\ sent' = sent
      BY <2>1 DEF C!WakeUp, C!records
    <3>3. user[u].pc # "sending"
      BY <2>1 DEF C!WakeUp
    <3> QED
      BY <3>1, <3>2, <3>3
  <2>2. CASE C!RampCut(u)
    <3>1. user'[u].pc = "done" /\ \A v \in C!U : v # u => user'[v] = user[v]
      BY <2>2, GotoMoves DEF C!RampCut
    <3>2. kept' = kept /\ perUser' = perUser /\ sent' = sent
      BY <2>2 DEF C!RampCut, C!records
    <3>3. user[u].pc = "ramp"
      BY <2>2 DEF C!RampCut
    <3> QED
      BY <3>1, <3>2, <3>3
  <2>3. ASSUME user[u].pc \in {"thinking", "ready"}, C!Publish(u)
        PROVE  SamplesKept'
    <3>1. user'[u].pc = "done" /\ \A v \in C!U : v # u => user'[v] = user[v]
      BY <2>3, GotoMoves DEF C!Publish
    <3>2. kept' = kept /\ sent' = sent
      BY <2>3 DEF C!Publish
    <3>3. perUser'[u] = kept[u] /\ \A v \in C!U : v # u => perUser'[v] = perUser[v]
      BY <2>3 DEF C!Publish, C!TypeOK
    <3> QED
      BY <2>3, <3>1, <3>2, <3>3
  <2>4. CASE C!Issue(u)
    <3>1. user'[u].pc = "sending" /\ \A v \in C!U : v # u => user'[v] = user[v]
      <4>1. now + Timeout \in Nat
        BY ClosedConstants DEF C!TypeOK
      <4> QED
        BY <2>4, <4>1, GotoMoves DEF C!Issue
    <3>2. kept' = kept /\ perUser' = perUser /\ user[u].pc = "ready"
      BY <2>4 DEF C!Issue
    <3>3. sent'[u] = sent[u] + 1 /\ \A v \in C!U : v # u => sent'[v] = sent[v]
      BY <2>4 DEF C!Issue, C!TypeOK
    <3>4. C!Total(kept[u]) \in Nat /\ sent[u] \in Nat
      BY TotalCounts DEF C!TypeOK, C!Kinds
    <3>5. \A v \in C!U : C!Total(kept'[v]) = C!Total(kept[v])
      BY <3>2
    <3> HIDE DEF C!Total
    <3>6. C!Total(kept'[u]) + 1 = sent'[u]
      BY <3>2, <3>3, <3>4, <3>5
    <3> QED
      BY <3>1, <3>2, <3>3, <3>5, <3>6
  <2> QED
    BY <1>3, <2>1, <2>2, <2>3, <2>4 DEF UserMoves, C!ThinkCut, C!LeaveLoop
<1>4. ASSUME NEW u \in C!U, NEW kind \in C!Kinds, RequestEnds(u, kind)
      PROVE  SamplesKept'
  <2>1. user'[u].pc = "thinking" /\ \A v \in C!U : v # u => user'[v] = user[v]
    <3>1. PICK nap \in Naps : C!Goto(u, "thinking", now + nap)
      BY <1>4 DEF RequestEnds, C!Record
    <3>2. now + nap \in Nat
      BY ClosedConstants DEF C!TypeOK
    <3> QED
      BY <3>1, <3>2, GotoMoves
  <2>2. user[u].pc = "sending" /\ perUser' = perUser /\ sent' = sent
    BY <1>4 DEF RequestEnds, C!Record
  <2>3. PICK s \in [C!Kinds -> Nat] : s = kept[u]
    BY DEF C!TypeOK
  <2>4. kept'[u] = [s EXCEPT ![kind] = @ + 1] /\ \A v \in C!U : v # u => kept'[v] = kept[v]
    BY <1>4, <2>3 DEF RequestEnds, C!Record, C!TypeOK
  <2>5. C!Total(kept'[u]) = C!Total(kept[u]) + 1 /\ C!Total(kept[u]) \in Nat
    BY <2>3, <2>4, TotalCounts
  <2>6. C!Total(kept'[u]) = sent'[u]
    BY <2>2, <2>5
  <2>7. sent[u] \in Nat
    BY DEF C!TypeOK
  <2> QED
    BY <2>1, <2>2, <2>4, <2>6, <2>7
<1> QED
  BY <1>1, <1>2, <1>3, <1>4, ClosedCases

LEMMA NotCutStep ==
    ASSUME C!TypeOK, DoneOutside, DeadlineCutsNothing, [C!Next]_closed
    PROVE  DeadlineCutsNothing'
<1> USE DEF DeadlineCutsNothing, C!DeadlineCutsNothing
<1>1. CASE C!Tick \/ C!Interrupt \/ C!Expire \/ C!SeedAccount \/ UNCHANGED closed
  BY <1>1 DEF C!Tick, C!Interrupt, C!Expire, C!SeedAccount, closed, C!records, C!ctxs
<1>2. CASE StageMoves
  BY <1>2 DEF StageMoves, C!Forget, C!Nothing, C!Kinds
<1>3. ASSUME NEW u \in C!U, UserMoves(u)
      PROVE  DeadlineCutsNothing'
  BY <1>3 DEF UserMoves, C!WakeUp, C!RampCut, C!ThinkCut, C!LeaveLoop, C!Publish, C!Issue,
              C!ctxs, C!records
<1>4. ASSUME NEW u \in C!U, NEW kind \in C!Kinds, RequestEnds(u, kind)
      PROVE  DeadlineCutsNothing'
  <2>1. interrupted' = interrupted /\ kept' = [kept EXCEPT ![u][kind] = @ + 1]
    BY <1>4 DEF RequestEnds, C!Record, C!ctxs
  <2>2. kind # "cancelled" => \A v \in C!U : kept'[v]["cancelled"] = kept[v]["cancelled"]
    BY <2>1 DEF C!TypeOK, C!Kinds
  <2> QED
    BY <1>4, <2>1, <2>2 DEF RequestEnds
<1> QED
  BY <1>1, <1>2, <1>3, <1>4, ClosedCases

LEMMA ClosedInit ==
    ASSUME C!Init
    PROVE  ClosedInv
<1> USE ClosedConstants
<1>1. C!TypeOK
  <2>1. DOMAIN hits = {} /\ hits \in [DOMAIN hits -> [before : Nat, now : Nat]]
    BY DEF C!Init
  <2>2. user \in [C!U -> [pc : {"ramp", "ready", "sending", "thinking", "done"}, t : Nat]]
    BY DEF C!Init
  <2>3. C!Nothing \in [C!Kinds -> Nat]
    BY DEF C!Nothing
  <2>4. /\ now \in 0 .. ClosedTime /\ until \in Nat /\ seeded \in 0 .. 2 * Accounts
        /\ nextIP \in Nat
    BY DEF C!Init
  <2>5. /\ address \in [C!U -> Nat] /\ sent \in [C!U -> Nat]
        /\ kept \in [C!U -> [C!Kinds -> Nat]] /\ perUser \in [C!U -> [C!Kinds -> Nat]]
    BY <2>3 DEF C!Init
  <2>6. stage = "seed" /\ wanted \subseteq {"limiter", "compute"}
    BY DEF C!Init
  <2>7. interrupted \in BOOLEAN /\ expired \in BOOLEAN
    BY DEF C!Init
  <2> QED
    BY <2>1, <2>2, <2>4, <2>5, <2>6, <2>7 DEF C!TypeOK
<1>2. DoneOutside
  BY DEF C!Init, DoneOutside
<1>3. SamplesKept
  BY TotalOfNothing DEF C!Init, SamplesKept
<1>4. DeadlineCutsNothing
  BY DEF C!Init, DeadlineCutsNothing, C!DeadlineCutsNothing, C!Nothing, C!Kinds
<1> QED
  BY <1>1, <1>2, <1>3, <1>4 DEF ClosedInv

LEMMA ClosedStep ==
    ASSUME ClosedInv, [C!Next]_closed
    PROVE  ClosedInv'
BY ClosedTypeStep, DoneOutsideStep, SamplesKeptStep, NotCutStep DEF ClosedInv

LEMMA ClosedInvariance == RunSpec => []ClosedInv
<1>1. Run => ClosedInv
  BY ClosedInit DEF Run
<1>2. ClosedInv /\ [RunNext]_all => ClosedInv'
  BY ClosedStep, StepsApart
<1> QED
  BY <1>1, <1>2, SafetyPart, PTL

-----------------------------------------------------------------------------
(* The pause between the phases, and what the limiter remembers after it.  *)

\* At the code's values, 10 a minute and 65 seconds, 100 > 60: what is left of a full
\* window when the pause is over rounds to less than the limit.
PauseForgets == 2 * Limit * (Cooldown - Window) > Window

\* The limiter never counts more than it admits.
AdmittedBounded == \A a \in Nat : C!Counted(a).before <= Limit /\ C!Counted(a).now <= Limit

\* Seeding uses no address of the phases.
SeedClean == stage = "seed" => DOMAIN hits = {}

WindowStart == now - (now % Window)
PauseStart  == until - Cooldown

\* A window that began after the pause did has counted nothing.
PauseQuiet ==
    stage = "pause" =>
        /\ PauseStart \in Nat /\ PauseStart <= now
        /\ WindowStart > PauseStart => \A a \in Nat : C!Counted(a).now = 0
        /\ WindowStart - Window > PauseStart => \A a \in Nat : C!Counted(a).before = 0

\* An address the limiter would admit a request of: nothing counted in this window, and too
\* little left of the one before.
Admits(a) ==
    /\ C!Counted(a).now = 0
    /\ 2 * (C!Counted(a).before * (Window - (now % Window))) + Window < (2 * Window) * Limit

\* A request from a is in flight.
From(u, a) == user[u].pc = "sending" /\ address[u] = a

\* The addresses still to come and those of the requests in flight are admitted, and no
\* two requests have the same one.
AddressesFree ==
    stage = "compute" =>
        /\ \A a \in Nat : a >= nextIP => Admits(a)
        /\ \A u \in C!U, a \in Nat : From(u, a) => a < nextIP /\ Admits(a)
        /\ \A u, v \in C!U, a \in Nat : From(u, a) /\ From(v, a) => u = v

LimiterInv == AdmittedBounded /\ SeedClean /\ PauseQuiet /\ AddressesFree /\ ComputeUnthrottled

\* The place in the window, and how a tick moves it.
LEMMA PlaceType ==
    ASSUME C!TypeOK
    PROVE  now % Window \in 0 .. Window - 1 /\ now % Window \in Nat /\ now % Window <= now
BY PlaceInWindow, ClosedConstants DEF C!TypeOK

\* A tick that begins a window turns every count; any other leaves them.
LEMMA TickTurns ==
    ASSUME C!TypeOK, C!Tick
    PROVE  \/ /\ now % Window = Window - 1 /\ now' % Window = 0
              /\ \A a \in Nat : C!Counted(a)' = [before |-> C!Counted(a).now, now |-> 0]
           \/ /\ now % Window < Window - 1 /\ now' % Window = (now % Window) + 1
              /\ \A a \in Nat : C!Counted(a)' = C!Counted(a)
<1>1. now' = now + 1 /\ hits' = IF now' % Window = 0 THEN C!Turned ELSE hits
  BY DEF C!Tick
<1>2. /\ now % Window \in 0 .. Window - 1
      /\ now' % Window = IF now % Window = Window - 1 THEN 0 ELSE (now % Window) + 1
  BY <1>1, PlaceInWindow, ClosedConstants DEF C!TypeOK
<1>3. CASE now % Window = Window - 1
  <2>1. hits' = C!Turned
    BY <1>1, <1>2, <1>3
  <2>2. ASSUME NEW a \in Nat
        PROVE  C!Counted(a)' = [before |-> C!Counted(a).now, now |-> 0]
    <3>1. CASE a \in DOMAIN hits /\ hits[a].now > 0
      BY <2>1, <3>1 DEF C!Counted, C!Turned
    <3>2. CASE a \in DOMAIN hits /\ ~ hits[a].now > 0
      <4>1. hits[a].now = 0
        BY <3>2 DEF C!TypeOK
      <4>2. a \notin DOMAIN hits'
        BY <2>1, <3>2 DEF C!Turned
      <4> QED
        BY <3>2, <4>1, <4>2 DEF C!Counted, C!Fresh
    <3>3. CASE a \notin DOMAIN hits
      <4>1. a \notin DOMAIN hits'
        BY <2>1, <3>3 DEF C!Turned
      <4> QED
        BY <3>3, <4>1 DEF C!Counted, C!Fresh
    <3> QED
      BY <3>1, <3>2, <3>3
  <2> QED
    BY <1>2, <1>3, <2>2
<1>4. CASE now % Window # Window - 1
  <2>1. hits' = hits
    BY <1>1, <1>2, <1>4, ClosedConstants
  <2> QED
    BY <1>2, <1>4, <2>1, ClosedConstants DEF C!Counted
<1> QED
  BY <1>3, <1>4

\* The count rounded, against the limit.
LEMMA UsedBelow ==
    ASSUME C!TypeOK, NEW a
    PROVE  C!Used(a) < Limit
             <=> 2 * (C!Counted(a).before * (Window - (now % Window)) + C!Counted(a).now * Window)
                   + Window < (2 * Window) * Limit
<1>1. PICK b \in Nat, n \in Nat, r \in Nat :
        b = C!Counted(a).before /\ n = C!Counted(a).now /\ r = Window - (now % Window)
  BY CountedType, PlaceType, ClosedConstants
<1>2. PICK x \in Nat : x = 2 * (b * r + n * Window) + Window
  <2>1. b * r \in Nat /\ n * Window \in Nat
    BY ClosedConstants
  <2> QED
    BY <2>1, ClosedConstants
<1>3. C!Used(a) = x \div (2 * Window)
  BY <1>1, <1>2 DEF C!Used
<1>4. x \div (2 * Window) < Limit <=> x < (2 * Window) * Limit
  BY QuotientBelow, ClosedConstants
<1> QED
  BY <1>1, <1>2, <1>3, <1>4

\* A request is counted only where the window has room for it.
LEMMA RoomForOne ==
    ASSUME C!TypeOK, NEW a, C!Used(a) < Limit
    PROVE  C!Counted(a).now + 1 <= Limit
<1>1. PICK b \in Nat, n \in Nat, r \in Nat :
        b = C!Counted(a).before /\ n = C!Counted(a).now /\ r = Window - (now % Window)
  BY CountedType, PlaceType, ClosedConstants
<1>2. 2 * (b * r + n * Window) + Window < (2 * Window) * Limit
  BY <1>1, UsedBelow
<1>3. b * r \in Nat
  OBVIOUS
<1>4. SUFFICES ASSUME n >= Limit
               PROVE  FALSE
  BY <1>1, ClosedConstants
<1>5. n * Window >= Limit * Window
  BY <1>4, ClosedConstants
<1>6. n * Window \in Nat /\ Limit * Window \in Nat /\ (2 * Window) * Limit = 2 * (Limit * Window)
  BY ClosedConstants
<1> QED
  BY <1>2, <1>3, <1>5, <1>6, ClosedConstants

LEMMA AdmittedIsBelow ==
    ASSUME C!TypeOK, NEW a, Admits(a)
    PROVE  C!Used(a) < Limit
<1>1. PICK b \in Nat, r \in Nat : b = C!Counted(a).before /\ r = Window - (now % Window)
  BY CountedType, PlaceType, ClosedConstants
<1>2. b * r + 0 * Window = b * r
  BY ClosedConstants
<1> QED
  BY <1>1, <1>2, UsedBelow DEF Admits

\* Where nothing is counted at all, a request is admitted.
LEMMA NothingAdmits ==
    ASSUME C!TypeOK, NEW a, C!Counted(a).now = 0, C!Counted(a).before = 0
    PROVE  Admits(a)
<1>1. 0 * (Window - (now % Window)) = 0
  BY PlaceType, ClosedConstants
<1>2. (2 * Window) * Limit >= (2 * Window) * 1
  BY ClosedConstants
<1> QED
  BY <1>1, <1>2, ClosedConstants DEF Admits

\* Nothing but a tick and a request changes what the limiter says.
LEMMA LimiterStays ==
    ASSUME hits' = hits, now' = now
    PROVE  \A a \in Nat : C!Counted(a)' = C!Counted(a) /\ (Admits(a)' <=> Admits(a))
<1>1. \A a \in Nat : C!Counted(a)' = C!Counted(a)
  BY DEF C!Counted
<1> QED
  BY <1>1 DEF Admits

LEMMA OthersLeaveLimiter ==
    ASSUME C!Interrupt \/ C!Expire \/ C!SeedAccount \/ StageMoves \/ UNCHANGED closed
             \/ \E u \in C!U : UserMoves(u)
    PROVE  hits' = hits /\ now' = now
<1>1. CASE C!Interrupt \/ C!Expire \/ C!SeedAccount \/ UNCHANGED closed
  BY <1>1 DEF C!Interrupt, C!Expire, C!SeedAccount, closed
<1>2. CASE StageMoves
  BY <1>2 DEF StageMoves, C!Forget
<1>3. ASSUME NEW u \in C!U, UserMoves(u)
      PROVE  hits' = hits /\ now' = now
  BY <1>3 DEF UserMoves, C!WakeUp, C!RampCut, C!ThinkCut, C!LeaveLoop, C!Publish, C!Issue
<1> QED
  BY <1>1, <1>2, <1>3

\* What a request leaves behind: its user thinks, and only its own address was counted.
LEMMA RequestLeaves ==
    ASSUME C!TypeOK, NEW u \in C!U, NEW kind \in C!Kinds, RequestEnds(u, kind)
    PROVE  /\ now' = now /\ stage' = stage /\ until' = until /\ nextIP' = nextIP
           /\ address' = address /\ address[u] \in Nat
           /\ user'[u].pc = "thinking" /\ \A v \in C!U : v # u => user'[v] = user[v]
           /\ \A a \in Nat \ {address[u]} : C!Counted(a)' = C!Counted(a)
           /\ C!Used(address[u]) < Limit \/ hits' = hits
           /\ C!Counted(address[u]).now \in Nat
           /\ \A a \in Nat : C!Counted(a)'.before = C!Counted(a).before
           /\ \A a \in Nat : C!Counted(a)'.now \in {C!Counted(a).now, C!Counted(a).now + 1}
<1>1. PICK nap \in Naps : C!Goto(u, "thinking", now + nap)
  BY DEF RequestEnds, C!Record
<1>2. now + nap \in Nat
  BY ClosedConstants DEF C!TypeOK
<1>3. user'[u].pc = "thinking" /\ \A v \in C!U : v # u => user'[v] = user[v]
  BY <1>1, <1>2, GotoMoves
<1>4. /\ now' = now /\ stage' = stage /\ until' = until /\ nextIP' = nextIP
      /\ address' = address /\ address[u] \in Nat
  BY DEF RequestEnds, C!Record, C!plan, C!TypeOK
<1>5. CASE hits' = hits
  BY <1>3, <1>4, <1>5, LimiterStays, CountedType
<1>6. CASE C!Used(address[u]) < Limit /\ C!CountIt(u)
  <2>1. \A a \in Nat :
          C!Counted(a)' = IF a = address[u]
                          THEN [before |-> C!Counted(a).before, now |-> C!Counted(a).now + 1]
                          ELSE C!Counted(a)
    BY <1>6, CountItCounts
  <2>2. ASSUME NEW a \in Nat
        PROVE  /\ C!Counted(a)'.before = C!Counted(a).before
               /\ C!Counted(a)'.now \in {C!Counted(a).now, C!Counted(a).now + 1}
    <3>1. PICK q : q = [before |-> C!Counted(a).before, now |-> C!Counted(a).now + 1]
      OBVIOUS
    <3>2. q.before = C!Counted(a).before /\ q.now = C!Counted(a).now + 1
      BY <3>1
    <3>3. C!Counted(a)' = q \/ C!Counted(a)' = C!Counted(a)
      BY <2>1, <3>1
    <3> QED
      BY <3>2, <3>3
  <2> QED
    BY <1>3, <1>4, <1>6, <2>1, <2>2, CountedType
<1> QED
  BY <1>5, <1>6 DEF RequestEnds

LEMMA AdmittedBoundedStep ==
    ASSUME C!TypeOK, DoneOutside, AdmittedBounded, [C!Next]_closed
    PROVE  AdmittedBounded'
<1>1. CASE C!Tick
  <2>1. \A a \in Nat : C!Counted(a)' = C!Counted(a)
                        \/ C!Counted(a)' = [before |-> C!Counted(a).now, now |-> 0]
    BY <1>1, TickTurns
  <2> QED
    BY <2>1, ClosedConstants DEF AdmittedBounded
<1>2. CASE hits' = hits /\ now' = now
  BY <1>2, LimiterStays DEF AdmittedBounded
<1>3. ASSUME NEW u \in C!U, NEW kind \in C!Kinds, RequestEnds(u, kind)
      PROVE  AdmittedBounded'
  <2>1. CASE hits' = hits
    BY <1>3, <2>1, <1>2, RequestLeaves
  <2>2. CASE C!Used(address[u]) < Limit
    <3>1. C!Counted(address[u]).now + 1 <= Limit
      BY <2>2, RoomForOne
    <3>2. /\ \A a \in Nat \ {address[u]} : C!Counted(a)' = C!Counted(a)
          /\ \A a \in Nat : C!Counted(a)'.before = C!Counted(a).before
          /\ \A a \in Nat : C!Counted(a)'.now \in {C!Counted(a).now, C!Counted(a).now + 1}
          /\ address[u] \in Nat /\ C!Counted(address[u]).now \in Nat
      BY <1>3, RequestLeaves
    <3> QED
      BY <3>1, <3>2, ClosedConstants DEF AdmittedBounded
  <2> QED
    BY <1>3, <2>1, <2>2, RequestLeaves
<1> QED
  BY <1>1, <1>2, <1>3, ClosedCases, OthersLeaveLimiter

LEMMA SeedCleanStep ==
    ASSUME C!TypeOK, DoneOutside, SeedClean, [C!Next]_closed
    PROVE  SeedClean'
<1> USE DEF SeedClean
<1>1. CASE C!Tick
  BY <1>1 DEF C!Tick, C!plan, C!Turned
<1>2. CASE C!Interrupt \/ C!Expire \/ C!SeedAccount \/ UNCHANGED closed
  BY <1>2 DEF C!Interrupt, C!Expire, C!SeedAccount, closed, C!plan
<1>3. CASE StageMoves
  BY <1>3 DEF StageMoves, C!Leave, C!Pause, C!Enter
<1>4. ASSUME NEW u \in C!U, UserMoves(u)
      PROVE  SeedClean'
  BY <1>4, OthersLeaveLimiter
     DEF UserMoves, C!WakeUp, C!RampCut, C!ThinkCut, C!LeaveLoop, C!Publish, C!Issue, C!plan
<1>5. ASSUME NEW u \in C!U, NEW kind \in C!Kinds, RequestEnds(u, kind)
      PROVE  SeedClean'
  <2>1. user[u].pc # "done" /\ stage' = stage
    BY <1>5 DEF RequestEnds, C!Record, C!plan
  <2> QED
    BY <2>1 DEF DoneOutside, C!InPhase
<1> QED
  BY <1>1, <1>2, <1>3, <1>4, <1>5, ClosedCases

LEMMA PauseQuietStep ==
    ASSUME C!TypeOK, DoneOutside, PauseQuiet, [C!Next]_closed
    PROVE  PauseQuiet'
<1> USE ClosedConstants DEF PauseQuiet, PauseStart, WindowStart
<1>1. CASE C!Tick
  <2>1. SUFFICES ASSUME stage = "pause"
                 PROVE  PauseQuiet'
    BY <1>1 DEF C!Tick, C!plan
  <2>2. stage' = stage /\ until' = until /\ now' = now + 1 /\ now \in Nat /\ until \in Nat
    BY <1>1 DEF C!Tick, C!plan, C!TypeOK
  <2>3. PICK p \in Nat, p2 \in Nat : p = now % Window /\ p2 = now' % Window /\ p < Window
    <3>1. now % Window \in 0 .. Window - 1 /\ now' % Window \in 0 .. Window - 1
      BY <2>2, PlaceInWindow
    <3> QED
      BY <3>1
  <2>4. CASE /\ now % Window = Window - 1 /\ now' % Window = 0
             /\ \A a \in Nat : C!Counted(a)' = [before |-> C!Counted(a).now, now |-> 0]
    <3>1. \A a \in Nat : C!Counted(a)'.now = 0 /\ C!Counted(a)'.before = C!Counted(a).now
      BY <2>4
    <3>2. now' - (now' % Window) - Window = now - (now % Window)
      BY <2>2, <2>3, <2>4
    <3> QED
      BY <2>1, <2>2, <3>1, <3>2
  <2>5. CASE /\ now % Window < Window - 1 /\ now' % Window = (now % Window) + 1
             /\ \A a \in Nat : C!Counted(a)' = C!Counted(a)
    <3>1. now' - (now' % Window) = now - (now % Window)
      BY <2>2, <2>3, <2>5
    <3> QED
      BY <2>1, <2>2, <2>5, <3>1
  <2> QED
    BY <1>1, <2>4, <2>5, TickTurns
<1>2. CASE C!Interrupt \/ C!Expire \/ C!SeedAccount \/ UNCHANGED closed
  <2>1. stage' = stage /\ until' = until
    BY <1>2 DEF C!Interrupt, C!Expire, C!SeedAccount, closed, C!plan
  <2> QED
    BY <1>2, <2>1, OthersLeaveLimiter, LimiterStays
<1>3. CASE StageMoves
  <2>1. SUFFICES ASSUME stage' = "pause"
                 PROVE  PauseQuiet'
    OBVIOUS
  <2>2. until' = now + Cooldown /\ now' = now /\ now \in Nat
    BY <1>3, <2>1 DEF StageMoves, C!Leave, C!Pause, C!Enter, C!Forget, C!TypeOK
  <2>3. now % Window \in Nat
    BY PlaceType
  <2> QED
    BY <2>2, <2>3
<1>4. ASSUME NEW u \in C!U, UserMoves(u)
      PROVE  PauseQuiet'
  <2>1. user[u].pc # "done" /\ stage' = stage
    BY <1>4 DEF UserMoves, C!WakeUp, C!RampCut, C!ThinkCut, C!LeaveLoop, C!Publish, C!Issue, C!plan
  <2> QED
    BY <2>1 DEF DoneOutside, C!InPhase
<1>5. ASSUME NEW u \in C!U, NEW kind \in C!Kinds, RequestEnds(u, kind)
      PROVE  PauseQuiet'
  <2>1. user[u].pc # "done" /\ stage' = stage
    BY <1>5 DEF RequestEnds, C!Record, C!plan
  <2> QED
    BY <2>1 DEF DoneOutside, C!InPhase
<1> QED
  BY <1>1, <1>2, <1>3, <1>4, <1>5, ClosedCases

\* The pause over, the limiter admits a request from any address: in a window begun after
\* it nothing is counted, and one of those before counts for too little now.
LEMMA PauseAdmits ==
    ASSUME C!TypeOK, AdmittedBounded, PauseQuiet, PauseForgets,
           stage = "pause", now >= until, NEW a \in Nat
    PROVE  Admits(a)
<1> USE ClosedConstants
<1>1. PICK b \in Nat, n \in Nat, p \in Nat :
        b = C!Counted(a).before /\ n = C!Counted(a).now /\ p = now % Window /\ p < Window
  BY CountedType, PlaceType
<1>2. PICK s \in Nat : s = PauseStart
  BY DEF PauseQuiet
<1>3. now \in Nat /\ now >= s + Cooldown
  BY <1>2 DEF PauseStart, C!TypeOK
<1>4. Cooldown > Window
  <2>1. SUFFICES ASSUME Cooldown - Window <= 0
                 PROVE  FALSE
    OBVIOUS
  <2>2. (2 * Limit) * (Cooldown - Window) <= 0
    BY <2>1
  <2> QED
    BY <2>2 DEF PauseForgets
<1>5. n = 0
  <2>1. now - p > s
    BY <1>1, <1>3, <1>4
  <2> QED
    BY <1>1, <1>2, <2>1 DEF PauseQuiet, WindowStart
<1>6. CASE now - p - Window > s
  <2>1. b = 0
    BY <1>1, <1>2, <1>6 DEF PauseQuiet, WindowStart
  <2> QED
    BY <1>1, <1>5, <2>1, NothingAdmits
<1>7. CASE now - p - Window <= s
  <2>1. PICK c \in Nat, r \in Nat : c = Cooldown - Window /\ r = Window - p
    <3>1. Cooldown - Window \in Nat /\ Window - p \in Nat
      BY <1>1, <1>4
    <3> QED
      BY <3>1
  <2>2. p >= c /\ r + c <= Window
    BY <1>3, <1>7, <2>1
  <2>3. b * r <= Limit * r
    BY <1>1 DEF AdmittedBounded
  <2>4. Limit * (r + c) <= Limit * Window
    BY <2>2
  <2>5. Limit * (r + c) = Limit * r + Limit * c
    OBVIOUS
  <2>6. 2 * (Limit * c) > Window
    BY <2>1 DEF PauseForgets
  <2>7. /\ b * r \in Nat /\ Limit * r \in Nat /\ Limit * c \in Nat /\ Limit * Window \in Nat
        /\ (2 * Window) * Limit = 2 * (Limit * Window)
    OBVIOUS
  <2>8. 2 * (b * r) + Window < (2 * Window) * Limit
    BY <2>3, <2>4, <2>5, <2>6, <2>7
  <2> QED
    BY <1>1, <1>5, <2>1, <2>8 DEF Admits
<1> QED
  BY <1>1, <1>2, <1>3, <1>6, <1>7

\* While nothing is counted at an address, time only makes it freer.
LEMMA AdmitsOverTime ==
    ASSUME C!TypeOK, C!Tick, NEW a \in Nat, Admits(a)
    PROVE  Admits(a)'
<1> USE ClosedConstants
<1>1. PICK b \in Nat, p \in Nat :
        b = C!Counted(a).before /\ p = now % Window /\ p < Window
  BY CountedType, PlaceType
<1>2. C!Counted(a).now = 0
  BY DEF Admits
<1>3. CASE /\ now % Window = Window - 1 /\ now' % Window = 0
           /\ \A c \in Nat : C!Counted(c)' = [before |-> C!Counted(c).now, now |-> 0]
  <2>1. C!Counted(a)'.now = 0 /\ C!Counted(a)'.before = 0
    BY <1>2, <1>3
  <2>2. 0 * (Window - (now' % Window)) = 0
    BY <1>3
  <2>3. (2 * Window) * Limit >= (2 * Window) * 1
    OBVIOUS
  <2> QED
    BY <2>1, <2>2, <2>3 DEF Admits
<1>4. CASE /\ now % Window < Window - 1 /\ now' % Window = (now % Window) + 1
           /\ \A c \in Nat : C!Counted(c)' = C!Counted(c)
  <2>1. b * (Window - (p + 1)) <= b * (Window - p)
    BY <1>1
  <2>2. b * (Window - (p + 1)) \in Int /\ b * (Window - p) \in Int /\ (2 * Window) * Limit \in Int
    BY <1>1
  <2>3. 2 * (b * (Window - p)) + Window < (2 * Window) * Limit
    BY <1>1 DEF Admits
  <2>4. 2 * (b * (Window - (p + 1))) + Window < (2 * Window) * Limit
    BY <2>1, <2>2, <2>3
  <2> QED
    BY <1>1, <1>2, <1>4, <2>4 DEF Admits
<1> QED
  BY <1>3, <1>4, TickTurns

LEMMA AddressesFreeStep ==
    ASSUME C!TypeOK, DoneOutside, AdmittedBounded, SeedClean, PauseQuiet, PauseForgets,
           AddressesFree, [C!Next]_closed
    PROVE  AddressesFree'
<1> USE DEF AddressesFree
<1>1. CASE C!Tick
  <2>1. stage' = stage /\ nextIP' = nextIP /\ user' = user /\ address' = address
    BY <1>1 DEF C!Tick, C!plan
  <2>2. \A a \in Nat : Admits(a) => Admits(a)'
    BY <1>1, AdmitsOverTime
  <2>3. \A u \in C!U, a \in Nat : From(u, a)' <=> From(u, a)
    BY <2>1 DEF From
  <2> QED
    BY <2>1, <2>2, <2>3
<1>2. CASE C!Interrupt \/ C!Expire \/ C!SeedAccount \/ UNCHANGED closed
  <2>1. stage' = stage /\ nextIP' = nextIP /\ user' = user /\ address' = address
    BY <1>2 DEF C!Interrupt, C!Expire, C!SeedAccount, closed, C!plan
  <2>2. \A a \in Nat : Admits(a)' <=> Admits(a)
    BY <1>2, OthersLeaveLimiter, LimiterStays
  <2>3. \A u \in C!U, a \in Nat : From(u, a)' <=> From(u, a)
    BY <2>1 DEF From
  <2> QED
    BY <2>1, <2>2, <2>3
<1>3. CASE StageMoves
  <2>1. SUFFICES ASSUME stage' = "compute"
                 PROVE  AddressesFree'
    OBVIOUS
  <2>2. (stage = "seed" \/ (stage = "pause" /\ now >= until)) /\ C!Enter("compute")
    BY <1>3, <2>1 DEF StageMoves, C!Leave, C!Pause, C!Enter
  <2>3. \A u \in C!U : user'[u].pc = "ramp"
    BY <2>2 DEF C!Enter
  <2>4. \A a \in Nat : Admits(a)
    <3>1. CASE stage = "seed"
      BY <3>1, NothingAdmits DEF SeedClean, C!Counted, C!Fresh
    <3>2. CASE stage = "pause" /\ now >= until
      BY <3>2, PauseAdmits
    <3> QED
      BY <2>2, <3>1, <3>2
  <2>5. \A a \in Nat : Admits(a)'
    BY <1>3, <2>4, OthersLeaveLimiter, LimiterStays
  <2>6. \A u \in C!U, a \in Nat : ~ From(u, a)'
    BY <2>3 DEF From
  <2> QED
    BY <2>5, <2>6
<1>4. ASSUME NEW u \in C!U, UserMoves(u)
      PROVE  AddressesFree'
  <2>1. \A a \in Nat : Admits(a)' <=> Admits(a)
    BY <1>4, OthersLeaveLimiter, LimiterStays
  <2>2. CASE C!Issue(u)
    <3>1. SUFFICES ASSUME stage = "compute"
                   PROVE  AddressesFree'
      BY <2>2 DEF C!Issue, C!plan
    <3>2. PICK n \in Nat : n = nextIP
      BY DEF C!TypeOK
    <3>3. now + Timeout \in Nat
      BY ClosedConstants DEF C!TypeOK
    <3>4. user'[u].pc = "sending" /\ \A v \in C!U : v # u => user'[v] = user[v]
      BY <2>2, <3>3, GotoMoves DEF C!Issue
    <3>5. address'[u] = n /\ \A v \in C!U : v # u => address'[v] = address[v]
      BY <2>2, <3>1, <3>2 DEF C!Issue, C!IPFor, C!TypeOK
    <3>6. nextIP' = n + 1
      BY <2>2, <3>2 DEF C!Issue
    <3>7. \A v \in C!U, a \in Nat : From(v, a)' => IF v = u THEN a = n ELSE From(v, a)
      BY <3>4, <3>5 DEF From
    <3>8. \A a \in Nat : a >= n + 1 => Admits(a)'
      BY <2>1, <3>1, <3>2
    <3>9. \A v \in C!U, a \in Nat : From(v, a)' => a < n + 1 /\ Admits(a)'
      BY <2>1, <3>1, <3>2, <3>7
    <3>10. \A v, w \in C!U, a \in Nat : From(v, a)' /\ From(w, a)' => v = w
      BY <3>1, <3>2, <3>7
    <3> QED
      BY <3>6, <3>8, <3>9, <3>10
  <2>3. CASE C!WakeUp(u) \/ C!RampCut(u) \/ C!Publish(u)
    <3>1. stage' = stage /\ nextIP' = nextIP /\ address' = address
      BY <2>3 DEF C!WakeUp, C!RampCut, C!Publish, C!plan
    <3>2. C!Goto(u, "ready", 0) \/ C!Goto(u, "done", 0)
      BY <2>3 DEF C!WakeUp, C!RampCut, C!Publish
    <3>3. user'[u].pc # "sending" /\ \A v \in C!U : v # u => user'[v] = user[v]
      BY <3>2, GotoMoves
    <3>4. \A v \in C!U, a \in Nat : From(v, a)' => From(v, a)
      BY <3>1, <3>3 DEF From
    <3> QED
      BY <2>1, <3>1, <3>4
  <2> QED
    BY <1>4, <2>2, <2>3 DEF UserMoves, C!ThinkCut, C!LeaveLoop
<1>5. ASSUME NEW u \in C!U, NEW kind \in C!Kinds, RequestEnds(u, kind)
      PROVE  AddressesFree'
  <2>1. SUFFICES ASSUME stage = "compute"
                 PROVE  AddressesFree'
    BY <1>5, RequestLeaves
  <2>2. PICK b \in Nat : b = address[u]
    BY DEF C!TypeOK
  <2>3. /\ nextIP' = nextIP /\ address' = address /\ now' = now
        /\ user'[u].pc = "thinking" /\ \A v \in C!U : v # u => user'[v] = user[v]
        /\ \A a \in Nat \ {b} : C!Counted(a)' = C!Counted(a)
    BY <1>5, <2>2, RequestLeaves
  <2>4. \A a \in Nat \ {b} : Admits(a)' <=> Admits(a)
    BY <2>3 DEF Admits
  <2>5. From(u, b) /\ nextIP \in Nat
    BY <1>5, <2>2 DEF From, RequestEnds, C!TypeOK
  <2>6. \A v \in C!U, a \in Nat : From(v, a)' => From(v, a) /\ v # u
    BY <2>3 DEF From
  <2>7. \A a \in Nat : a >= nextIP => a # b
    BY <2>1, <2>5
  <2>8. \A v \in C!U, a \in Nat : From(v, a)' => a # b
    BY <2>1, <2>5, <2>6
  <2> QED
    BY <2>1, <2>3, <2>4, <2>6, <2>7, <2>8
<1> QED
  BY <1>1, <1>2, <1>3, <1>4, <1>5, ClosedCases

LEMMA UnthrottledStep ==
    ASSUME C!TypeOK, DoneOutside, AddressesFree, ComputeUnthrottled, [C!Next]_closed
    PROVE  ComputeUnthrottled'
<1> USE DEF ComputeUnthrottled, C!ComputeUnthrottled
<1>1. CASE C!Tick \/ C!Interrupt \/ C!Expire \/ C!SeedAccount \/ UNCHANGED closed
  BY <1>1 DEF C!Tick, C!Interrupt, C!Expire, C!SeedAccount, closed, C!records, C!plan
<1>2. CASE StageMoves
  BY <1>2 DEF StageMoves, C!Forget, C!Nothing, C!Kinds
<1>3. ASSUME NEW u \in C!U, UserMoves(u)
      PROVE  ComputeUnthrottled'
  BY <1>3 DEF UserMoves, C!WakeUp, C!RampCut, C!ThinkCut, C!LeaveLoop, C!Publish, C!Issue,
              C!plan, C!records
<1>4. ASSUME NEW u \in C!U, NEW kind \in C!Kinds, RequestEnds(u, kind)
      PROVE  ComputeUnthrottled'
  <2>1. SUFFICES ASSUME stage = "compute"
                 PROVE  ComputeUnthrottled'
    BY <1>4 DEF RequestEnds, C!Record, C!plan
  <2>2. C!Used(address[u]) < Limit
    <3>1. Admits(address[u])
      BY <1>4, <2>1 DEF AddressesFree, From, RequestEnds, C!TypeOK
    <3> QED
      BY <3>1, AdmittedIsBelow
  <2>3. C!Used(address[u]) \in Int
    <3>1. PICK x \in Nat :
            x = 2 * (C!Counted(address[u]).before * (Window - (now % Window))
                     + C!Counted(address[u]).now * Window) + Window
      <4>1. PICK b \in Nat, n \in Nat, r \in Nat :
              /\ b = C!Counted(address[u]).before /\ n = C!Counted(address[u]).now
              /\ r = Window - (now % Window)
        BY CountedType, PlaceType, ClosedConstants
      <4>2. b * r \in Nat /\ n * Window \in Nat
        BY ClosedConstants
      <4> QED
        BY <4>1, <4>2, ClosedConstants
    <3>2. x \div (2 * Window) \in Int
      BY ClosedConstants
    <3> QED
      BY <3>1, <3>2 DEF C!Used
  <2>4. kind # "throttled"
    BY <1>4, <2>2, <2>3, ClosedConstants DEF RequestEnds
  <2>5. kept' = [kept EXCEPT ![u][kind] = @ + 1]
    BY <1>4 DEF RequestEnds, C!Record
  <2>6. \A v \in C!U : kept'[v]["throttled"] = kept[v]["throttled"]
    BY <2>4, <2>5 DEF C!TypeOK, C!Kinds
  <2> QED
    BY <2>1, <2>6
<1> QED
  BY <1>1, <1>2, <1>3, <1>4, ClosedCases

LEMMA LimiterInit ==
    ASSUME C!Init
    PROVE  LimiterInv
<1>1. SeedClean
  BY DEF C!Init, SeedClean
<1>2. AdmittedBounded
  <2>1. DOMAIN hits = {}
    BY DEF C!Init
  <2>2. \A a \in Nat : C!Counted(a).before = 0 /\ C!Counted(a).now = 0
    BY <2>1 DEF C!Counted, C!Fresh
  <2> QED
    BY <2>2, ClosedConstants DEF AdmittedBounded
<1>3. PauseQuiet /\ AddressesFree /\ ComputeUnthrottled
  BY DEF C!Init, PauseQuiet, AddressesFree, ComputeUnthrottled, C!ComputeUnthrottled
<1> QED
  BY <1>1, <1>2, <1>3 DEF LimiterInv

LEMMA LimiterInvariance ==
    ASSUME PauseForgets
    PROVE  RunSpec => []LimiterInv
<1>1. Run => LimiterInv
  BY LimiterInit DEF Run
<1>2. ClosedInv /\ LimiterInv /\ [RunNext]_all => LimiterInv'
  BY AdmittedBoundedStep, SeedCleanStep, PauseQuietStep, AddressesFreeStep, UnthrottledStep,
     StepsApart DEF ClosedInv, LimiterInv
<1> QED
  BY <1>1, <1>2, ClosedInvariance, SafetyPart, PTL

-----------------------------------------------------------------------------
(* The timing check.                                                       *)

AttemptsCounted == \A k \in T!Kinds : order[k] + made[k] = T!Attempts

\* A group has no more samples than its attempts give, the one in flight included.
GroupsCounted ==
    \A k \in T!Kinds :
        group[k] + (IF login # T!NoLogin /\ login.kind = k /\ T!Keep(k) THEN 1 ELSE 0)
            <= IF T!Keep(k) THEN made[k] - Discarded ELSE 0

LoginWhileSampling == login # T!NoLogin => step = "sample"

\* Who can have failures: an account whose lock the check found, and a name it has tried,
\* one failure; not the name of a login that has not failed yet, nor one still to come,
\* nor a cleared account.
CountersLow ==
    /\ \A n \in T!Names : failures[n] \in {0, 1, Threshold}
    /\ \A n \in T!Names : n >= Accounts + T!Index => failures[n] = 0
    /\ login.pc \in {"lookup", "verify", "record"} =>
          failures[login.name] = 0 /\ login.name < Accounts + T!Index
    /\ step = "clear" => \A n \in 0 .. ready - 1 : failures[n] = 0
    /\ step = "reported" => \A n \in T!Known : failures[n] = 0

NotThrottled == ~ throttled

\* A login whose work fits takes what its replica was calibrated to, and the jitter.
TookTheTarget == \A o \in observed : o.fits => o.took = target[o.replica] + o.jitter

TimingInv == T!TypeOK /\ AttemptsCounted /\ GroupsCounted /\ LoginWhileSampling
             /\ CountersLow /\ NotThrottled /\ TookTheTarget

LEMMA TimingConstants ==
    /\ Accounts \in Nat \ {0} /\ Threshold \in Nat /\ Threshold > 2
    /\ Samples \in Nat \ {0} /\ Discarded \in Nat
    /\ Probes \subseteq Nat /\ Fallback \in Nat \ {0}
    /\ Lookups \subseteq Nat /\ Verifies \subseteq Nat /\ Records \subseteq Nat
    /\ T!Attempts = Samples + Discarded
BY LoadTestAssumption DEF T!TimingCheckAssumption, T!Attempts

LEMMA NamesAre ==
    /\ T!Names = 0 .. Accounts + 2 * T!Attempts - 1
    /\ T!Known = 0 .. Accounts - 1 /\ T!Known \subseteq T!Names
BY TimingConstants DEF T!Names, T!Known

\* A failed check changes nothing but where it is.
Failed == T!Fail /\ throttled' = throttled

\* An attempt has a name of its own: an account, or an address nobody tried yet; and the
\* counter it meets is clear.
LEMMA AttemptName ==
    ASSUME T!TypeOK, AttemptsCounted, NEW k \in T!Kinds, order[k] > 0
    PROVE  /\ T!Index \in Nat /\ T!Name(k) \in T!Names
           /\ k = "wrong" => T!Name(k) \in T!Known
           /\ k = "absent" => T!Name(k) = Accounts + T!Index
<1> USE TimingConstants
<1>1. /\ made["absent"] \in Nat /\ made["wrong"] \in Nat
      /\ made["absent"] <= T!Attempts /\ made["wrong"] <= T!Attempts /\ made[k] < T!Attempts
  BY DEF T!TypeOK, T!Kinds, AttemptsCounted
<1>2. T!Index \in Nat /\ T!Index <= 2 * T!Attempts - 1
  BY <1>1 DEF T!Index, T!Kinds
<1>3. CASE k = "wrong"
  <2>1. T!Index % Accounts \in 0 .. Accounts - 1
    BY <1>2
  <2> QED
    BY <1>2, <1>3, <2>1, NamesAre DEF T!Name
<1>4. CASE k = "absent"
  BY <1>2, <1>4, NamesAre DEF T!Name
<1> QED
  BY <1>2, <1>3, <1>4 DEF T!Kinds

LEMMA AttemptClear ==
    ASSUME T!TypeOK, AttemptsCounted, CountersLow, NEW k \in T!Kinds, order[k] > 0
    PROVE  T!Cleared(k) \in [T!Names -> 0 .. Threshold] /\ T!Cleared(k)[T!Name(k)] = 0
<1>1. T!Name(k) \in T!Names /\ failures \in [T!Names -> 0 .. Threshold] /\ 0 \in 0 .. Threshold
  BY AttemptName, TimingConstants DEF T!TypeOK
<1>2. CASE k = "wrong"
  <2>1. T!Cleared(k) = [failures EXCEPT ![T!Name(k)] = 0]
    BY <1>2 DEF T!Cleared
  <2> QED
    BY <1>1, <2>1
<1>3. CASE k = "absent"
  <2>1. T!Index \in Nat /\ T!Name(k) = Accounts + T!Index
    BY <1>3, AttemptName
  <2>2. T!Name(k) >= Accounts + T!Index
    BY <2>1, TimingConstants
  <2>3. T!Cleared(k) = failures
    BY <1>3 DEF T!Cleared
  <2> QED
    BY <1>1, <2>2, <2>3 DEF CountersLow
<1> QED
  BY <1>2, <1>3 DEF T!Kinds

\* One case per kind of step: the check is never refused.
LEMMA TimingCases ==
    ASSUME T!TypeOK, AttemptsCounted, CountersLow, [T!Next]_timing
    PROVE  \/ T!SeedLogin \/ T!Begin \/ T!Sampled \/ T!Clear \/ T!Report \/ Failed
           \/ \E k \in T!Kinds : T!Attempt(k)
           \/ T!LookUp \/ T!Verify \/ T!RecordFailure \/ T!PadFailure
           \/ UNCHANGED timing
<1>1. ASSUME NEW k \in T!Kinds, T!Refused(k)
      PROVE  FALSE
  BY <1>1, AttemptClear, TimingConstants DEF T!Refused
<1> QED
  BY <1>1 DEF T!Next, T!Check, T!Server, T!Abort, T!SeedLocked, Failed

LEMMA NoLoginIsNone ==
    /\ T!NoLogin.pc = "none" /\ T!NoLogin \notin T!Login
    /\ \A l \in T!Login : /\ l.pc \in {"lookup", "verify", "record", "pad"} /\ l.kind \in T!Kinds
                          /\ l.name \in T!Names /\ l.replica \in Replicas /\ l.took \in Nat
<1>1. PICK q : q = T!NoLogin
  OBVIOUS
<1>2. q.pc = "none"
  BY <1>1 DEF T!NoLogin
<1> QED
  BY <1>1, <1>2 DEF T!Login

\* Two fields of a login are replaced.
LEMMA LoginProceeds ==
    ASSUME NEW l \in T!Login, NEW to, NEW cost
    PROVE  [l EXCEPT !.pc = to, !.took = @ + cost]
             = [pc |-> to, kind |-> l.kind, name |-> l.name, replica |-> l.replica,
                took |-> l.took + cost]
<1> DEFINE a == [l EXCEPT !.pc = to]
           b == [pc |-> to, kind |-> l.kind, name |-> l.name, replica |-> l.replica,
                 took |-> l.took]
<1>1. a = b
  BY DEF T!Login
<1>2. [b EXCEPT !.took = l.took + cost]
        = [pc |-> to, kind |-> l.kind, name |-> l.name, replica |-> l.replica,
           took |-> l.took + cost]
  OBVIOUS
<1>3. [l EXCEPT !.pc = to, !.took = l.took + cost] = [a EXCEPT !.took = l.took + cost]
  OBVIOUS
<1> HIDE DEF a, b
<1> QED
  BY <1>1, <1>2, <1>3

\* A login proceeds; it stays the login it is.
LEMMA ProceedMoves ==
    ASSUME T!TypeOK, login.pc # "none", NEW to \in {"verify", "record", "pad"}, NEW cost \in Nat,
           T!Proceed(to, cost)
    PROVE  /\ login' \in T!Login /\ login'.pc = to /\ login'.kind = login.kind
           /\ login'.name = login.name /\ login'.replica = login.replica
<1>1. login \in T!Login
  BY NoLoginIsNone DEF T!TypeOK
<1>2. PICK q : q = [pc |-> to, kind |-> login.kind, name |-> login.name,
                    replica |-> login.replica, took |-> login.took + cost]
  OBVIOUS
<1>3. login' = q
  BY <1>1, <1>2, LoginProceeds DEF T!Proceed
<1>4. /\ q.pc = to /\ q.kind = login.kind /\ q.name = login.name /\ q.replica = login.replica
  BY <1>2
<1>5. q \in T!Login
  BY <1>1, <1>2 DEF T!Login
<1> QED
  BY <1>3, <1>4, <1>5

\* The two failures and their way through the server.
LEMMA ServerMoves ==
    ASSUME T!TypeOK, T!LookUp \/ T!Verify \/ T!RecordFailure
    PROVE  /\ login \in T!Login /\ login' \in T!Login /\ login'.kind = login.kind
           /\ login'.name = login.name
           /\ login.pc \in {"lookup", "verify", "record"}
           /\ (login'.pc # "pad") = (login.pc # "record")
           /\ IF login.pc = "record" THEN failures' = [failures EXCEPT ![login.name] = @ + 1]
                                     ELSE failures' = failures
           /\ UNCHANGED <<step, ready, order, made, target, group, observed, throttled>>
<1> USE TimingConstants
<1>1. CASE T!LookUp
  <2>1. PICK to \in {"verify", "record"}, cost \in Lookups : T!Proceed(to, cost)
    BY <1>1 DEF T!LookUp
  <2>2. cost \in Nat /\ login.pc = "lookup" /\ failures' = failures
    BY <1>1 DEF T!LookUp
  <2> QED
    BY <2>1, <2>2, ProceedMoves, NoLoginIsNone DEF T!Proceed, T!TypeOK
<1>2. CASE T!Verify
  <2>1. PICK cost \in Verifies : T!Proceed("record", cost)
    BY <1>2 DEF T!Verify
  <2>2. cost \in Nat /\ login.pc = "verify" /\ failures' = failures
    BY <1>2 DEF T!Verify
  <2> QED
    BY <2>1, <2>2, ProceedMoves, NoLoginIsNone DEF T!Proceed, T!TypeOK
<1>3. CASE T!RecordFailure
  <2>1. PICK cost \in Records : T!Proceed("pad", cost)
    BY <1>3 DEF T!RecordFailure
  <2>2. cost \in Nat /\ login.pc = "record" /\ failures' = [failures EXCEPT ![login.name] = @ + 1]
    BY <1>3 DEF T!RecordFailure
  <2> QED
    BY <2>1, <2>2, ProceedMoves, NoLoginIsNone DEF T!Proceed, T!TypeOK
<1> QED
  BY <1>1, <1>2, <1>3

\* An answer ends a login.
LEMMA PadMoves ==
    ASSUME T!TypeOK, T!PadFailure
    PROVE  /\ login \in T!Login /\ login' = T!NoLogin
           /\ group' = IF T!Keep(login.kind) THEN [group EXCEPT ![login.kind] = @ + 1] ELSE group
           /\ UNCHANGED <<step, ready, order, made, target, failures, throttled>>
           /\ \A o \in observed' \ observed :
                /\ o.kind \in T!Kinds /\ o.replica \in Replicas /\ o.took \in Nat
                /\ o.fits => o.took = target[o.replica] + o.jitter
<1>1. login \in T!Login /\ login.pc = "pad"
  BY NoLoginIsNone DEF T!TypeOK, T!PadFailure
<1>2. PICK r \in Replicas, took \in Nat, base \in Nat :
        r = login.replica /\ took = login.took /\ base = target[login.replica]
  BY <1>1, NoLoginIsNone DEF T!TypeOK
<1>3. PICK jitter \in T!Jitters(login.replica) :
        T!Sample(login.took <= target[login.replica] + jitter, jitter,
                 IF T!Remaining(jitter) > 0 THEN login.took + T!Remaining(jitter) ELSE login.took)
  BY DEF T!PadFailure
<1>4. jitter \in Nat
  <2>1. base \div 4 \in Nat
    OBVIOUS
  <2> QED
    BY <1>2, <2>1 DEF T!Jitters
<1>5. PICK all4 \in Nat :
        all4 = IF T!Remaining(jitter) > 0 THEN login.took + T!Remaining(jitter) ELSE login.took
  BY <1>2, <1>4 DEF T!Remaining
<1>6. login.took <= target[login.replica] + jitter => all4 = base + jitter
  BY <1>2, <1>4, <1>5 DEF T!Remaining
<1>7. PICK o : o = [kind |-> login.kind, replica |-> login.replica,
                    fits |-> login.took <= target[login.replica] + jitter,
                    jitter |-> jitter, took |-> all4]
  OBVIOUS
<1>8. /\ o.kind = login.kind /\ o.replica = r /\ o.took = all4 /\ o.jitter = jitter
  BY <1>2, <1>7
<1>9. o.fits <=> login.took <= target[login.replica] + jitter
  BY <1>7
<1>10. observed' = observed \cup {o}
  BY <1>3, <1>5, <1>7 DEF T!Sample
<1>11. o.fits => o.took = target[o.replica] + o.jitter
  BY <1>2, <1>6, <1>8, <1>9
<1>12. o.kind \in T!Kinds
  BY <1>1, <1>8, NoLoginIsNone
<1>13. /\ login' = T!NoLogin
       /\ group' = IF T!Keep(login.kind) THEN [group EXCEPT ![login.kind] = @ + 1] ELSE group
       /\ UNCHANGED <<step, ready, order, made, target, failures, throttled>>
  BY <1>3 DEF T!Sample
<1> QED
  BY <1>1, <1>8, <1>10, <1>11, <1>12, <1>13

\* An attempt begins a login with a name of its own.
LEMMA AttemptMoves ==
    ASSUME T!TypeOK, AttemptsCounted, CountersLow, NEW k \in T!Kinds, T!Attempt(k)
    PROVE  /\ step = "sample" /\ login = T!NoLogin /\ order[k] > 0
           /\ login' \in T!Login /\ login'.kind = k /\ login'.name = T!Name(k)
           /\ order' = [order EXCEPT ![k] = @ - 1] /\ made' = [made EXCEPT ![k] = @ + 1]
           /\ failures' = T!Cleared(k)
           /\ UNCHANGED <<step, ready, target, group, observed, throttled>>
<1>1. PICK r \in Replicas :
        login' = [pc |-> "lookup", kind |-> k, name |-> T!Name(k), replica |-> r, took |-> 0]
  BY DEF T!Attempt
<1>2. PICK q : q = [pc |-> "lookup", kind |-> k, name |-> T!Name(k), replica |-> r, took |-> 0]
  OBVIOUS
<1>3. order[k] > 0
  BY DEF T!Attempt
<1>4. q \in T!Login /\ q.kind = k /\ q.name = T!Name(k)
  BY <1>2, <1>3, AttemptName DEF T!Login
<1> QED
  BY <1>1, <1>2, <1>4 DEF T!Attempt

LEMMA TimingTypeStep ==
    ASSUME TimingInv, [T!Next]_timing
    PROVE  T!TypeOK'
<1> USE TimingConstants DEF TimingInv
<1>1. CASE T!SeedLogin \/ T!Clear
  <2>1. ready \in T!Names /\ ready' \in 0 .. Accounts
    BY <1>1, NamesAre DEF T!SeedLogin, T!Clear, T!TypeOK
  <2>2. failures' \in [T!Names -> 0 .. Threshold]
    BY <1>1, <2>1 DEF T!SeedLogin, T!Clear, T!TypeOK
  <2> QED
    BY <1>1, <2>1, <2>2 DEF T!SeedLogin, T!Clear, T!TypeOK
<1>2. CASE T!Begin \/ T!Sampled \/ T!Report \/ UNCHANGED timing
  BY <1>2 DEF T!Begin, T!Sampled, T!Report, timing, T!TypeOK
<1>3. CASE Failed
  BY <1>3 DEF Failed, T!Fail, T!TypeOK
<1>4. ASSUME NEW k \in T!Kinds, T!Attempt(k)
      PROVE  T!TypeOK'
  <2>1. order' \in [T!Kinds -> 0 .. T!Attempts] /\ made' \in [T!Kinds -> 0 .. T!Attempts]
    <3>1. order[k] - 1 \in 0 .. T!Attempts /\ made[k] + 1 \in 0 .. T!Attempts
      BY <1>4, AttemptMoves DEF AttemptsCounted, T!TypeOK
    <3> QED
      BY <1>4, <3>1, AttemptMoves DEF T!TypeOK
  <2>2. failures' \in [T!Names -> 0 .. Threshold]
    BY <1>4, AttemptMoves, AttemptClear
  <2> QED
    BY <1>4, <2>1, <2>2, AttemptMoves DEF T!TypeOK
<1>5. CASE T!LookUp \/ T!Verify \/ T!RecordFailure
  <2>1. failures' \in [T!Names -> 0 .. Threshold]
    <3>1. CASE login.pc = "record"
      <4>1. failures[login.name] = 0 /\ login.name \in T!Names
        BY <1>5, <3>1, ServerMoves, NoLoginIsNone DEF CountersLow
      <4> QED
        BY <1>5, <3>1, <4>1, ServerMoves DEF T!TypeOK
    <3> QED
      BY <1>5, <3>1, ServerMoves DEF T!TypeOK
  <2> QED
    BY <1>5, <2>1, ServerMoves DEF T!TypeOK
<1>6. CASE T!PadFailure
  <2>1. group' \in [T!Kinds -> 0 .. Samples]
    <3>1. CASE T!Keep(login.kind)
      <4>1. PICK k \in T!Kinds : k = login.kind
        BY <1>6, PadMoves, NoLoginIsNone
      <4>2. group[k] + 1 <= made[k] - Discarded
        BY <1>6, <3>1, <4>1, PadMoves, NoLoginIsNone DEF GroupsCounted
      <4>3. made[k] \in 0 .. T!Attempts /\ group[k] \in 0 .. Samples
        BY DEF T!TypeOK
      <4>4. group[k] + 1 \in 0 .. Samples
        BY <4>2, <4>3
      <4> QED
        BY <1>6, <3>1, <4>1, <4>4, PadMoves DEF T!TypeOK
    <3> QED
      BY <1>6, <3>1, PadMoves DEF T!TypeOK
  <2>2. \A o \in observed' : o.kind \in T!Kinds /\ o.replica \in Replicas /\ o.took \in Nat
    BY <1>6, PadMoves DEF T!TypeOK
  <2>3. /\ login' = T!NoLogin
        /\ UNCHANGED <<step, ready, order, made, target, failures, throttled>>
    BY <1>6, PadMoves
  <2> QED
    BY <2>1, <2>2, <2>3 DEF T!TypeOK
<1> QED
  BY <1>1, <1>2, <1>3, <1>4, <1>5, <1>6, TimingCases

LEMMA CountsStep ==
    ASSUME TimingInv, [T!Next]_timing
    PROVE  AttemptsCounted' /\ GroupsCounted' /\ LoginWhileSampling'
<1> USE TimingConstants DEF TimingInv, AttemptsCounted, GroupsCounted, LoginWhileSampling, T!Keep
<1>1. CASE T!SeedLogin \/ T!Clear \/ T!Begin \/ T!Report \/ UNCHANGED timing
  BY <1>1 DEF T!SeedLogin, T!Clear, T!Begin, T!Report, timing
<1>2. CASE T!Sampled
  BY <1>2 DEF T!Sampled
<1>3. CASE Failed
  <2>1. \A k \in T!Kinds : group[k] \in Int /\ made[k] \in Int
    BY DEF T!TypeOK
  <2> QED
    BY <1>3, <2>1 DEF Failed, T!Fail
<1>4. ASSUME NEW k \in T!Kinds, T!Attempt(k)
      PROVE  AttemptsCounted' /\ GroupsCounted' /\ LoginWhileSampling'
  <2>1. /\ order'[k] = order[k] - 1 /\ made'[k] = made[k] + 1
        /\ \A j \in T!Kinds : j # k => order'[j] = order[j] /\ made'[j] = made[j]
    BY <1>4, AttemptMoves DEF T!TypeOK
  <2>2. \A j \in T!Kinds : order[j] \in Int /\ made[j] \in Int /\ group[j] \in Int
    BY DEF T!TypeOK
  <2>3. login = T!NoLogin /\ login'.kind = k /\ group' = group /\ step' = "sample"
    BY <1>4, AttemptMoves
  <2>4. AttemptsCounted'
    BY <2>1, <2>2
  <2>5. GroupsCounted'
    BY <2>1, <2>2, <2>3
  <2> QED
    BY <2>3, <2>4, <2>5
<1>5. CASE T!LookUp \/ T!Verify \/ T!RecordFailure
  <2>1. login # T!NoLogin /\ login'.kind = login.kind
    BY <1>5, ServerMoves, NoLoginIsNone
  <2>2. order' = order /\ made' = made /\ group' = group /\ step' = step
    BY <1>5, ServerMoves
  <2>3. AttemptsCounted' /\ LoginWhileSampling'
    BY <2>1, <2>2
  <2>4. \A k \in T!Kinds : group[k] \in Int /\ made[k] \in Int
    BY DEF T!TypeOK
  <2>5. GroupsCounted'
    BY <2>1, <2>2, <2>4
  <2> QED
    BY <2>3, <2>5
<1>6. CASE T!PadFailure
  <2>1. PICK k \in T!Kinds : k = login.kind
    BY <1>6, PadMoves, NoLoginIsNone
  <2>2. login # T!NoLogin /\ login' = T!NoLogin /\ made' = made /\ order' = order
    BY <1>6, PadMoves, NoLoginIsNone
  <2>3. \A j \in T!Kinds : group'[j] = IF j = k /\ T!Keep(j) THEN group[j] + 1 ELSE group[j]
    BY <1>6, <2>1, PadMoves DEF T!TypeOK
  <2>4. \A j \in T!Kinds : made[j] \in Int /\ group[j] \in Int
    BY DEF T!TypeOK
  <2>5. GroupsCounted'
    BY <2>1, <2>2, <2>3, <2>4
  <2> QED
    BY <2>2, <2>5
<1> QED
  BY <1>1, <1>2, <1>3, <1>4, <1>5, <1>6, TimingCases

LEMMA CountersStep ==
    ASSUME TimingInv, [T!Next]_timing
    PROVE  CountersLow' /\ NotThrottled'
<1> USE TimingConstants DEF TimingInv, NotThrottled
<1>1. CASE T!SeedLogin
  <2>1. ready \in T!Names /\ login = T!NoLogin /\ step = "seed"
    BY <1>1, NamesAre DEF T!SeedLogin, T!TypeOK, LoginWhileSampling
  <2>2. /\ made' = made /\ login' = login /\ throttled' = throttled /\ step' = step
        /\ failures' = [failures EXCEPT ![ready] = 0]
    BY <1>1 DEF T!SeedLogin
  <2>3. \A n \in T!Names : failures'[n] \in {0, failures[n]}
    BY <2>1, <2>2 DEF T!TypeOK
  <2>4. T!Index' = T!Index
    BY <2>2 DEF T!Index
  <2> QED
    BY <2>1, <2>2, <2>3, <2>4, NoLoginIsNone DEF CountersLow
<1>2. CASE T!Clear
  <2>1. /\ ready \in T!Known /\ ready \in T!Names /\ ready \in Nat
        /\ login = T!NoLogin /\ step = "clear"
    BY <1>2, NamesAre DEF T!Clear, T!TypeOK, LoginWhileSampling
  <2>2. /\ made' = made /\ login' = login /\ throttled' = throttled /\ step' = step
        /\ failures' = [failures EXCEPT ![ready] = 0] /\ ready' = ready + 1
    BY <1>2 DEF T!Clear
  <2>3. \A n \in T!Names : failures'[n] = IF n = ready THEN 0 ELSE failures[n]
    BY <2>1, <2>2 DEF T!TypeOK
  <2>4. T!Index' = T!Index
    BY <2>2 DEF T!Index
  <2>5. \A n \in 0 .. ready' - 1 : n \in T!Names /\ (n = ready \/ n \in 0 .. ready - 1)
    BY <2>1, <2>2, NamesAre
  <2>6. \A n \in 0 .. ready' - 1 : failures'[n] = 0
    BY <2>1, <2>3, <2>5 DEF CountersLow
  <2> QED
    BY <2>1, <2>2, <2>3, <2>4, <2>6, NoLoginIsNone DEF CountersLow
<1>3. CASE T!Begin \/ T!Sampled
  <2>1. /\ made' = made /\ login' = login /\ throttled' = throttled /\ failures' = failures
        /\ step' \in {"sample", "clear"} /\ ready' = 0
    BY <1>3 DEF T!Begin, T!Sampled
  <2>2. T!Index' = T!Index
    BY <2>1 DEF T!Index
  <2> QED
    BY <2>1, <2>2 DEF CountersLow
<1>4. CASE T!Report
  <2>1. /\ made' = made /\ login' = login /\ throttled' = throttled /\ failures' = failures
        /\ step' = "reported" /\ step = "clear" /\ ready = Accounts
    BY <1>4 DEF T!Report
  <2>2. T!Index' = T!Index
    BY <2>1 DEF T!Index
  <2>3. \A n \in T!Known : failures[n] = 0
    BY <2>1, NamesAre DEF CountersLow
  <2> QED
    BY <2>1, <2>2, <2>3 DEF CountersLow
<1>5. CASE Failed
  <2>1. /\ made' = made /\ login' = T!NoLogin /\ throttled' = throttled /\ failures' = failures
        /\ step' = "failed"
    BY <1>5 DEF Failed, T!Fail
  <2>2. T!Index' = T!Index
    BY <2>1 DEF T!Index
  <2> QED
    BY <2>1, <2>2, NoLoginIsNone DEF CountersLow
<1>6. CASE UNCHANGED timing
  BY <1>6 DEF timing, CountersLow, T!Index
<1>7. ASSUME NEW k \in T!Kinds, T!Attempt(k)
      PROVE  CountersLow' /\ NotThrottled'
  <2>1. PICK i \in Nat, name \in T!Names :
          /\ i = T!Index /\ name = T!Name(k)
          /\ k = "absent" => name = Accounts + i
          /\ k = "wrong" => name \in T!Known
          /\ T!Cleared(k)[name] = 0
    BY <1>7, AttemptName, AttemptClear, AttemptMoves
  <2>2. T!Index' = i + 1
    <3>1. made' = [made EXCEPT ![k] = @ + 1] /\ made["absent"] \in Nat /\ made["wrong"] \in Nat
      BY <1>7, AttemptMoves DEF T!TypeOK, T!Kinds
    <3> QED
      BY <2>1, <3>1 DEF T!Index, T!TypeOK, T!Kinds
  <2>3. \A n \in T!Names : failures'[n] \in {0, failures[n]}
    BY <1>7, <2>1, AttemptMoves DEF T!Cleared, T!TypeOK
  <2>4. failures'[name] = 0
    BY <1>7, <2>1, AttemptMoves
  <2>5. /\ login'.name = name /\ step' = "sample" /\ throttled' = throttled
    BY <1>7, <2>1, AttemptMoves
  <2>6. \A n \in T!Names : n \in Nat
    BY NamesAre
  <2>7. \A n \in T!Names : n >= Accounts + T!Index' => failures'[n] = 0
    BY <2>1, <2>2, <2>3, <2>6 DEF CountersLow
  <2>8. name < Accounts + T!Index'
    BY <2>1, <2>2, NamesAre DEF T!Kinds
  <2> QED
    BY <2>3, <2>4, <2>5, <2>7, <2>8 DEF CountersLow
<1>8. CASE T!LookUp \/ T!Verify \/ T!RecordFailure
  <2>1. PICK name \in T!Names : name = login.name /\ failures[name] = 0
    BY <1>8, ServerMoves, NoLoginIsNone DEF CountersLow
  <2>2. /\ made' = made /\ throttled' = throttled /\ step' = step /\ step = "sample"
        /\ login'.name = name
    BY <1>8, <2>1, ServerMoves, NoLoginIsNone DEF LoginWhileSampling
  <2>3. T!Index' = T!Index
    BY <2>2 DEF T!Index
  <2>4. CASE login.pc = "record"
    <3>1. \A n \in T!Names : failures'[n] = IF n = name THEN 1 ELSE failures[n]
      BY <1>8, <2>1, <2>4, ServerMoves DEF T!TypeOK
    <3>2. login'.pc = "pad"
      BY <1>8, <2>4, ServerMoves, NoLoginIsNone
    <3>3. name \in Nat /\ T!Index \in Int /\ name < Accounts + T!Index
      <4>1. name \in Nat
        BY <2>1, NamesAre
      <4>2. T!Index \in Int
        BY DEF T!Index, T!TypeOK, T!Kinds
      <4> QED
        BY <2>1, <2>4, <4>1, <4>2 DEF CountersLow
    <3> QED
      BY <2>2, <2>3, <3>1, <3>2, <3>3 DEF CountersLow
  <2>5. CASE login.pc # "record"
    BY <1>8, <2>1, <2>2, <2>3, <2>5, ServerMoves DEF CountersLow
  <2> QED
    BY <2>4, <2>5
<1>9. CASE T!PadFailure
  <2>1. /\ made' = made /\ login' = T!NoLogin /\ throttled' = throttled /\ failures' = failures
        /\ step' = step /\ ready' = ready
    BY <1>9, PadMoves
  <2>2. T!Index' = T!Index
    BY <2>1 DEF T!Index
  <2> QED
    BY <2>1, <2>2, NoLoginIsNone DEF CountersLow
<1> QED
  BY <1>1, <1>2, <1>3, <1>4, <1>5, <1>6, <1>7, <1>8, <1>9, TimingCases

LEMMA TookStep ==
    ASSUME TimingInv, [T!Next]_timing
    PROVE  TookTheTarget'
<1> USE DEF TimingInv, TookTheTarget
<1>1. CASE T!PadFailure
  <2>1. target' = target
    BY <1>1, PadMoves
  <2> QED
    BY <1>1, <2>1, PadMoves
<1>2. CASE observed' = observed /\ target' = target
  BY <1>2
<1>3. CASE T!SeedLogin \/ T!Begin \/ T!Sampled \/ T!Clear \/ T!Report \/ Failed \/ UNCHANGED timing
  BY <1>2, <1>3 DEF T!SeedLogin, T!Begin, T!Sampled, T!Clear, T!Report, Failed, T!Fail, timing
<1>4. ASSUME NEW k \in T!Kinds, T!Attempt(k)
      PROVE  TookTheTarget'
  BY <1>2, <1>4 DEF T!Attempt
<1>5. CASE T!LookUp \/ T!Verify \/ T!RecordFailure
  <2>1. observed' = observed /\ target' = target
    BY <1>5, ServerMoves
  <2> QED
    BY <1>2, <2>1
<1> QED
  BY <1>1, <1>3, <1>4, <1>5, TimingCases

LEMMA TimingInit ==
    ASSUME T!Init
    PROVE  TimingInv
<1> USE TimingConstants
<1>1. order = [k \in T!Kinds |-> T!Attempts] /\ made = [k \in T!Kinds |-> 0]
      /\ group = [k \in T!Kinds |-> 0]
  BY DEF T!Init
<1>2. \A n \in T!Names : failures[n] \in {0, Threshold} /\ (n >= Accounts => failures[n] = 0)
  <2>1. \A n \in T!Names : n >= Accounts => n \notin T!Known
    BY NamesAre
  <2> QED
    BY <2>1 DEF T!Init
<1>3. failures \in [T!Names -> 0 .. Threshold]
  BY DEF T!Init
<1>4. target \in [Replicas -> Nat]
  <2>1. ASSUME NEW w \in Probes
        PROVE  T!Baseline(w) \in Nat
    BY DEF T!Baseline
  <2> QED
    BY <2>1 DEF T!Init
<1>5. step \in {"seed", "sample"} /\ ready = 0 /\ login = T!NoLogin /\ observed = {}
  BY DEF T!Init
<1>6. ~ throttled /\ throttled \in BOOLEAN
  BY DEF T!Init
<1>7. T!TypeOK
  BY <1>1, <1>3, <1>4, <1>5, <1>6 DEF T!TypeOK
<1>8. T!Index = 0
  BY <1>1 DEF T!Index, T!Kinds
<1>9. AttemptsCounted /\ GroupsCounted /\ LoginWhileSampling
  BY <1>1, <1>5 DEF AttemptsCounted, GroupsCounted, LoginWhileSampling, T!Keep
<1>10. CountersLow
  BY <1>2, <1>5, <1>8, NoLoginIsNone DEF CountersLow
<1> QED
  BY <1>5, <1>6, <1>7, <1>9, <1>10 DEF TimingInv, TookTheTarget, NotThrottled

LEMMA TimingInvariance == RunSpec => []TimingInv
<1>1. Run => TimingInv
  BY TimingInit DEF Run
<1>2. TimingInv /\ [RunNext]_all => TimingInv'
  BY TimingTypeStep, CountsStep, CountersStep, TookStep, StepsApart DEF TimingInv
<1> QED
  BY <1>1, <1>2, SafetyPart, PTL

-----------------------------------------------------------------------------
(* The results.                                                            *)

\* The state of each of the three ways keeps its type: nobody's clock, group or counter
\* leaves its range, whatever the others did (main.go:140-283, timing.go:36-144).
THEOREM WaysWellTyped == RunSpec => []WellTyped
<1>1. Run => IInv
  BY InvInit DEF Run
<1>2. IInv /\ [RunNext]_all => IInv'
  BY InvStep, StepsApart
<1>3. RunSpec => []IInv
  BY <1>1, <1>2, SafetyPart, PTL
<1>4. IInv /\ ClosedInv /\ TimingInv => WellTyped
  BY DEF IInv, ClosedInv, TimingInv, WellTyped
<1> QED
  BY <1>3, <1>4, ClosedInvariance, TimingInvariance, PTL

\* Every request the closed loop sends is among the samples its users publish, for any
\* number of users and however each ended (main.go:716-733).
THEOREM EverySampleKept == RunSpec => []EverySendKept
<1>1. ClosedInv => EverySendKept
  <2> SUFFICES ASSUME ClosedInv, C!InPhase, \A u \in C!U : user[u].pc = "done", NEW u \in C!U
               PROVE  C!Total(perUser[u]) = sent[u]
    BY DEF EverySendKept, C!EverySendKept
  <2>1. C!Total(kept[u]) + 0 = sent[u] /\ perUser[u] = kept[u]
    BY DEF ClosedInv, SamplesKept
  <2>2. C!Total(kept[u]) \in Nat
    BY TotalCounts DEF ClosedInv, C!TypeOK, C!Kinds
  <2> QED
    BY <2>1, <2>2
<1> QED
  BY <1>1, ClosedInvariance, PTL

\* Without an interrupt no request of the closed loop is cut short, the phase's deadline
\* included (main.go:669-672).
THEOREM DeadlineCuts == RunSpec => []DeadlineCutsNothing
<1>1. ClosedInv => DeadlineCutsNothing
  BY DEF ClosedInv
<1> QED
  BY <1>1, ClosedInvariance, PTL

\* The compute phase, which starts at the addresses the limiter phase has used up, is
\* never throttled, whatever the limits, when the pause and the window satisfy
\* PauseForgets (main.go:241).
THEOREM PauseIsEnough ==
    ASSUME PauseForgets
    PROVE  RunSpec => []ComputeUnthrottled
<1>1. LimiterInv => ComputeUnthrottled
  BY DEF LimiterInv
<1> QED
  BY <1>1, LimiterInvariance, PTL

\* Two failed logins of one replica that drew the same jitter take the same time when their
\* work fits the target, whichever of the two failures each is (auth.go:34-47).
THEOREM FailuresAlike == RunSpec => []PathsTakeTheSameTime
<1>1. TimingInv => PathsTakeTheSameTime
  BY DEF TimingInv, TookTheTarget, PathsTakeTheSameTime, T!PathsTakeTheSameTime
<1> QED
  BY <1>1, TimingInvariance, PTL

\* The timing check never meets a lock, those it found included, leaves no counter above
\* one failure of its own, and ends with the accounts' counters clear
\* (timing.go:107-109).
THEOREM ChecksMeetNoLock == RunSpec => []NeverStoppedByALock
<1>1. TimingInv => NeverStoppedByALock
  BY DEF TimingInv, CountersLow, NotThrottled, NeverStoppedByALock, T!NeverStoppedByALock
<1> QED
  BY <1>1, TimingInvariance, PTL
=============================================================================
