---------------------------- MODULE OpenLoopProofs ----------------------------
(***************************************************************************)
(* Theorems about OpenLoop: for any number of workers, any queue and any   *)
(* schedule, no slot is lost or counted twice, the monitor's counter is    *)
(* the backlog, and a full run is measured in full but for its setup.      *)
(***************************************************************************)
EXTENDS OpenLoop, FiniteSetTheorems, TLAPS

\* The slots that queue, workers and samples hold between them.
Accounted(n) ==
    \/ \E i \in 1 .. Len(queue) : queue[i] = n
    \/ \E w \in Sending : job[w].slot = n
    \/ \E s \in samples : s.slot = n

AllAccounted == \A n \in Nat : Accounted(n) <=> n < issued

\* No slot is at two places.
SlotsApart ==
    /\ \A i, j \in 1 .. Len(queue) : queue[i] = queue[j] => i = j
    /\ \A v, w \in Sending : job[v].slot = job[w].slot => v = w
    /\ \A i \in 1 .. Len(queue), w \in Sending : queue[i] # job[w].slot
    /\ \A s \in samples : /\ \A i \in 1 .. Len(queue) : queue[i] # s.slot
                          /\ \A w \in Sending : job[w].slot # s.slot

SlotsCounted == /\ IsFiniteSet(samples)
                /\ Backlog + Cardinality(samples) = issued

\* Workers leave when there is nothing to do any more, and the phase after them.
EndInOrder ==
    /\ \A w \in Workers : job[w] = Exited => disp \in {"drain", "returned"} /\ queue = <<>>
    /\ disp = "returned" => \A w \in Workers : job[w] = Exited

MonitorWaits == /\ watching \/ disp = "setup" => over < Strikes
                /\ disp = "setup" => ~ watching

ExpiredInTime ==
    /\ ctx = "expired" => clock >= Warmup + Duration
    /\ disp = "returned" => /\ ctx # "live"
                            /\ ctx = "expired" => start + wall >= Warmup + Duration

IInv == /\ TypeOK /\ AllAccounted /\ SlotsApart /\ SlotsCounted
        /\ EndInOrder /\ MonitorWaits /\ ExpiredInTime /\ InFlightIsBacklog

-----------------------------------------------------------------------------
(* Queues, and the sets of slots.                                          *)

LEMMA QueueFacts ==
    ASSUME NEW S, NEW q \in Seq(S)
    PROVE  /\ Len(q) \in Nat /\ \A i \in 1 .. Len(q) : q[i] \in S
           /\ q = <<>> <=> Len(q) = 0
OBVIOUS

LEMMA AppendFacts ==
    ASSUME NEW S, NEW q \in Seq(S), NEW e \in S
    PROVE  /\ Append(q, e) \in Seq(S) /\ Len(Append(q, e)) = Len(q) + 1
           /\ \A i \in 1 .. Len(q) : Append(q, e)[i] = q[i]
           /\ Append(q, e)[Len(q) + 1] = e
OBVIOUS

LEMMA TailFacts ==
    ASSUME NEW S, NEW q \in Seq(S), q # <<>>
    PROVE  /\ Tail(q) \in Seq(S) /\ Len(Tail(q)) = Len(q) - 1
           /\ \A i \in 1 .. Len(q) - 1 : Tail(q)[i] = q[i + 1]
           /\ Head(q) = q[1] /\ Head(q) \in S /\ Len(q) > 0
OBVIOUS

LEMMA SendingFinite == IsFiniteSet(Sending)
BY FS_Subset, OpenLoopAssumption DEF Sending

LEMMA BacklogIsNat ==
    ASSUME TypeOK
    PROVE  Len(queue) \in Nat /\ Cardinality(Sending) \in Nat /\ Backlog \in Nat
BY SendingFinite, FS_CardinalityType DEF TypeOK, Backlog

\* A step that leaves the slots where they are.
LEMMA SlotsStay ==
    ASSUME AllAccounted, SlotsApart, SlotsCounted,
           queue' = queue, samples' = samples, issued' = issued,
           Sending' = Sending, \A w \in Sending : job'[w] = job[w]
    PROVE  AllAccounted' /\ SlotsApart' /\ SlotsCounted' /\ Backlog' = Backlog
<1>1. AllAccounted'
  BY DEF AllAccounted, Accounted
<1>2. SlotsApart'
  BY DEF SlotsApart
<1>3. Backlog' = Backlog
  BY DEF Backlog
<1>4. SlotsCounted'
  BY <1>3 DEF SlotsCounted
<1> QED
  BY <1>1, <1>2, <1>3, <1>4

LEMMA JobStays ==
    ASSUME job' = job
    PROVE  Sending' = Sending /\ \A w \in Sending : job'[w] = job[w]
BY DEF Sending

-----------------------------------------------------------------------------
(* Types.                                                                  *)

LEMMA TypeInit ==
    ASSUME Init
    PROVE  TypeOK
<1>1. 0 \in 0 .. MaxTime /\ 0 \in 0 .. MaxTime + 1 /\ 0 \in 0 .. Strikes
  BY OpenLoopAssumption
<1>2. queue \in Seq(Slots) /\ Len(queue) <= Cap
  BY OpenLoopAssumption DEF Init
<1>3. job \in [Workers -> Send \cup {Idle, Exited}]
  BY DEF Init
<1>4. tick \in BOOLEAN /\ beat \in BOOLEAN /\ watching \in BOOLEAN
      /\ abort \in BOOLEAN /\ aborted \in BOOLEAN
  BY DEF Init
<1>5. samples \subseteq Sample
  BY DEF Init
<1> QED
  BY <1>1, <1>2, <1>3, <1>4, <1>5 DEF Init, TypeOK

LEMMA TypeStep ==
    ASSUME TypeOK, MonitorWaits, [Next]_vars
    PROVE  TypeOK'
<1> USE OpenLoopAssumption
<1>0. CASE Allocate
  <2>1. clock' \in 0 .. MaxTime /\ start' \in 0 .. clock'
    BY <1>0 DEF TypeOK, Allocate
  <2> QED
    BY <1>0, <2>1 DEF TypeOK, Allocate, schedule, monitor, outcome
<1>18. CASE Begin
  BY <1>18 DEF TypeOK, Begin, outcome
<1>1. CASE Tick
  <2>1. clock' \in 0 .. MaxTime /\ start' \in 0 .. clock'
    BY <1>1 DEF TypeOK, Tick
  <2>2. tick' \in BOOLEAN /\ beat' \in BOOLEAN
    BY <1>1 DEF TypeOK, Tick
  <2> QED
    BY <1>1, <2>1, <2>2 DEF TypeOK, Tick, schedule, monitor, outcome
<1>2. CASE Expire
  BY <1>2 DEF TypeOK, Expire, timers, schedule, monitor, outcome
<1>3. CASE Interrupt
  BY <1>3 DEF TypeOK, Interrupt, timers, schedule, monitor, outcome
<1>4. CASE SelectDone
  BY <1>4 DEF TypeOK, SelectDone, timers, monitor, outcome
<1>5. CASE SelectAbort
  BY <1>5 DEF TypeOK, SelectAbort, timers
<1>6. CASE SelectTick
  BY <1>6 DEF TypeOK, SelectTick, monitor, outcome
<1>7. CASE BatchOver
  BY <1>7 DEF TypeOK, BatchOver, timers, monitor, outcome
<1>8. CASE Enqueue
  <2>1. issued \in Slots /\ issued + 1 \in 0 .. MaxTime + 1
    BY <1>8 DEF Enqueue, TypeOK, Due, Slots
  <2>2. queue' \in Seq(Slots) /\ Len(queue') <= Cap
    BY <1>8, <2>1, AppendFacts DEF Enqueue, TypeOK
  <2> QED
    BY <1>8, <2>1, <2>2 DEF TypeOK, Enqueue, timers, monitor, outcome
<1>9. CASE Count
  BY <1>9 DEF TypeOK, Count, timers, monitor, outcome
<1>10. CASE Drop
  <2>1. Dropped(issued) \in Sample /\ issued + 1 \in 0 .. MaxTime + 1
    BY <1>10 DEF Drop, Dropped, Sample, TypeOK, Due, Slots
  <2> QED
    BY <1>10, <2>1 DEF TypeOK, Drop, timers, monitor, outcome
<1>11. CASE Return
  <2>1. wall' \in 0 .. MaxTime
    BY <1>11 DEF TypeOK, Return
  <2> QED
    BY <1>11, <2>1 DEF TypeOK, Return, timers, monitor
<1>12. ASSUME NEW w \in Workers, Take(w)
       PROVE  TypeOK'
  <2>1. Head(queue) \in Slots /\ Tail(queue) \in Seq(Slots) /\ Len(Tail(queue)) <= Cap
    BY <1>12, TailFacts, QueueFacts DEF Take, TypeOK
  <2>2. [slot |-> Head(queue), at |-> clock] \in Send
    BY <2>1 DEF Send, TypeOK
  <2> QED
    BY <1>12, <2>1, <2>2 DEF TypeOK, Take, timers, schedule, monitor, outcome
<1>13. ASSUME NEW w \in Workers, Finish(w)
       PROVE  TypeOK'
  <2>1. [slot |-> job[w].slot, at |-> job[w].at, sent |-> TRUE] \in Sample
    BY <1>13 DEF Finish, Send, Sample
  <2>2. job' \in [Workers -> Send \cup {Idle, Exited}]
    BY <1>13 DEF Finish, TypeOK
  <2>3. samples' \subseteq Sample
    BY <1>13, <2>1 DEF Finish, TypeOK
  <2>4. inFlight' \in Int
    BY <1>13 DEF Finish, TypeOK
  <2> QED
    BY <1>13, <2>2, <2>3, <2>4 DEF TypeOK, Finish, timers, schedule, monitor, outcome
<1>14. ASSUME NEW w \in Workers, WorkerExit(w)
       PROVE  TypeOK'
  BY <1>14 DEF TypeOK, WorkerExit, timers, schedule, monitor, outcome
<1>15. CASE Look
  <2>1. over' \in 0 .. Strikes
    BY <1>15 DEF TypeOK, MonitorWaits, Look
  <2>2. (over' >= Strikes) \in BOOLEAN /\ (over' < Strikes) \in BOOLEAN
    BY <2>1
  <2>3. abort' \in BOOLEAN /\ watching' \in BOOLEAN /\ beat' \in BOOLEAN
    BY <1>15, <2>2 DEF Look
  <2> QED
    BY <1>15, <2>1, <2>3 DEF TypeOK, Look, schedule, outcome
<1>16. CASE LookAway
  BY <1>16 DEF TypeOK, LookAway, timers, schedule, outcome
<1>17. CASE UNCHANGED vars
  BY <1>17 DEF TypeOK, vars
<1> QED
  BY <1>0, <1>1, <1>2, <1>3, <1>4, <1>5, <1>6, <1>7, <1>8, <1>9, <1>10, <1>11, <1>12,
     <1>13, <1>14, <1>15, <1>16, <1>17, <1>18 DEF Next, Dispatch, Work, Watch

-----------------------------------------------------------------------------
(* Where the slots go.                                                     *)

LEMMA TakeMoves ==
    ASSUME TypeOK, AllAccounted, SlotsApart, SlotsCounted, NEW w \in Workers, Take(w)
    PROVE  AllAccounted' /\ SlotsApart' /\ SlotsCounted' /\ Backlog' = Backlog
<1>1. /\ Len(queue) \in Nat \ {0} /\ Len(queue') = Len(queue) - 1
      /\ \A i \in 1 .. Len(queue') : queue'[i] = queue[i + 1]
      /\ Head(queue) = queue[1] /\ queue[1] \in Slots
  BY TailFacts, QueueFacts DEF Take, TypeOK
<1>2. samples' = samples /\ issued' = issued
  BY DEF Take, schedule
<1>3. w \notin Sending
  BY OpenLoopAssumption DEF Take, Sending
<1>4. /\ Sending' = Sending \cup {w}
      /\ \A v \in Sending : job'[v] = job[v]
      /\ job'[w].slot = queue[1]
  <2>1. job' = [job EXCEPT ![w] = [slot |-> queue[1], at |-> clock]]
    BY <1>1 DEF Take
  <2>2. [slot |-> queue[1], at |-> clock] \in Send
    BY <1>1 DEF TypeOK, Send
  <2>3. /\ job'[w] = [slot |-> queue[1], at |-> clock]
        /\ \A v \in Workers : v # w => job'[v] = job[v]
    BY <2>1 DEF TypeOK
  <2> QED
    BY <2>2, <2>3, <1>3 DEF Sending
<1>5. AllAccounted'
  <2>1. ASSUME NEW n \in Nat, Accounted(n)'
        PROVE  Accounted(n)
    <3>1. CASE \E i \in 1 .. Len(queue') : queue'[i] = n
      <4>1. PICK i \in 1 .. Len(queue') : queue'[i] = n
        BY <3>1
      <4>2. i + 1 \in 1 .. Len(queue) /\ queue[i + 1] = n
        BY <4>1, <1>1
      <4> QED
        BY <4>2 DEF Accounted
    <3>2. CASE \E v \in Sending' : job'[v].slot = n
      <4>1. 1 \in 1 .. Len(queue)
        BY <1>1
      <4> QED
        BY <3>2, <4>1, <1>4 DEF Accounted
    <3>3. CASE \E s \in samples' : s.slot = n
      BY <3>3, <1>2 DEF Accounted
    <3> QED
      BY <2>1, <3>1, <3>2, <3>3 DEF Accounted
  <2>2. ASSUME NEW n \in Nat, NEW i \in 1 .. Len(queue), queue[i] = n
        PROVE  Accounted(n)'
    <3>1. CASE i = 1
      BY <1>4, <2>2, <3>1 DEF Accounted
    <3>2. CASE i # 1
      <4>1. i - 1 \in 1 .. Len(queue') /\ queue'[i - 1] = n
        BY <1>1, <2>2, <3>2
      <4> QED
        BY <4>1 DEF Accounted
    <3> QED
      BY <3>1, <3>2
  <2>3. \A n \in Nat : Accounted(n) => Accounted(n)'
    BY <2>2, <1>2, <1>4 DEF Accounted
  <2> QED
    BY <2>1, <2>3, <1>2 DEF AllAccounted
<1>6. SlotsApart'
  <2>1. \A i, j \in 1 .. Len(queue') : queue'[i] = queue'[j] => i = j
    BY <1>1 DEF SlotsApart
  <2>2. \A u, v \in Sending' : job'[u].slot = job'[v].slot => u = v
    BY <1>1, <1>4 DEF SlotsApart
  <2>3. \A i \in 1 .. Len(queue'), v \in Sending' : queue'[i] # job'[v].slot
    BY <1>1, <1>4 DEF SlotsApart
  <2>4. \A s \in samples' : /\ \A i \in 1 .. Len(queue') : queue'[i] # s.slot
                           /\ \A v \in Sending' : job'[v].slot # s.slot
    BY <1>1, <1>2, <1>4 DEF SlotsApart
  <2> QED
    BY <2>1, <2>2, <2>3, <2>4 DEF SlotsApart
<1>7. Cardinality(Sending') = Cardinality(Sending) + 1 /\ Cardinality(Sending) \in Nat
  BY <1>3, <1>4, SendingFinite, FS_AddElement, FS_CardinalityType
<1>8. Backlog' = Backlog
  BY <1>1, <1>7 DEF Backlog
<1> QED
  BY <1>2, <1>5, <1>6, <1>8 DEF SlotsCounted

LEMMA FinishMoves ==
    ASSUME TypeOK, AllAccounted, SlotsApart, SlotsCounted, NEW w \in Workers, Finish(w)
    PROVE  AllAccounted' /\ SlotsApart' /\ SlotsCounted' /\ Backlog' = Backlog - 1
<1> DEFINE d == [slot |-> job[w].slot, at |-> job[w].at, sent |-> TRUE]
<1>1. queue' = queue /\ issued' = issued /\ samples' = samples \cup {d}
  BY DEF Finish, schedule
<1>2. w \in Sending /\ Sending \subseteq Workers
  BY DEF Finish, Sending
<1>3. /\ Sending' = Sending \ {w}
      /\ \A v \in Sending' : job'[v] = job[v]
  <2>1. job'[w] = Idle /\ \A v \in Workers : v # w => job'[v] = job[v]
    BY DEF Finish, TypeOK
  <2> QED
    BY <2>1, OpenLoopAssumption DEF Sending
<1>4. d.slot = job[w].slot /\ d \notin samples
  BY <1>2 DEF SlotsApart
<1> HIDE DEF d
<1>5. AllAccounted'
  <2>1. \A n \in Nat : Accounted(n)' <=> Accounted(n)
    BY <1>1, <1>2, <1>3, <1>4 DEF Accounted
  <2> QED
    BY <2>1, <1>1 DEF AllAccounted
<1>6. SlotsApart'
  <2>1. \A i, j \in 1 .. Len(queue') : queue'[i] = queue'[j] => i = j
    BY <1>1 DEF SlotsApart
  <2>2. \A u, v \in Sending' : job'[u].slot = job'[v].slot => u = v
    BY <1>3 DEF SlotsApart
  <2>3. \A i \in 1 .. Len(queue'), v \in Sending' : queue'[i] # job'[v].slot
    BY <1>1, <1>3 DEF SlotsApart
  <2>4. \A s \in samples' : /\ \A i \in 1 .. Len(queue') : queue'[i] # s.slot
                           /\ \A v \in Sending' : job'[v].slot # s.slot
    BY <1>1, <1>2, <1>3, <1>4 DEF SlotsApart
  <2> QED
    BY <2>1, <2>2, <2>3, <2>4 DEF SlotsApart
<1>7. Cardinality(Sending') = Cardinality(Sending) - 1 /\ Cardinality(Sending) \in Nat
  BY <1>2, <1>3, SendingFinite, FS_RemoveElement, FS_CardinalityType
<1>8. IsFiniteSet(samples') /\ Cardinality(samples') = Cardinality(samples) + 1
  BY <1>1, <1>4, FS_AddElement DEF SlotsCounted
<1>9. Backlog' = Backlog - 1
  BY <1>1, <1>7, BacklogIsNat DEF Backlog
<1> QED
  BY <1>1, <1>5, <1>6, <1>8, <1>9, BacklogIsNat, FS_CardinalityType DEF SlotsCounted

LEMMA EnqueueMoves ==
    ASSUME TypeOK, AllAccounted, SlotsApart, SlotsCounted, Enqueue
    PROVE  AllAccounted' /\ SlotsApart' /\ SlotsCounted' /\ Backlog' = Backlog + 1
<1>1. issued \in Nat /\ issued \in Slots
  BY OpenLoopAssumption DEF Enqueue, TypeOK, Due, Slots
<1>2. /\ Len(queue) \in Nat /\ Len(queue') = Len(queue) + 1
      /\ \A i \in 1 .. Len(queue) : queue'[i] = queue[i]
      /\ queue'[Len(queue) + 1] = issued
  BY <1>1, AppendFacts, QueueFacts DEF Enqueue, TypeOK
<1>3. issued' = issued + 1 /\ samples' = samples /\ job' = job
  BY DEF Enqueue
<1>4. Sending' = Sending
  BY <1>3 DEF Sending
<1>5. ~ Accounted(issued)
  BY <1>1 DEF AllAccounted
<1>6. AllAccounted'
  <2>1. ASSUME NEW n \in Nat
        PROVE  Accounted(n)' <=> (Accounted(n) \/ n = issued)
    <3>1. (\E i \in 1 .. Len(queue') : queue'[i] = n)
             <=> (\E i \in 1 .. Len(queue) : queue[i] = n) \/ n = issued
      BY <1>2
    <3> QED
      BY <3>1, <1>3, <1>4 DEF Accounted
  <2> QED
    BY <2>1, <1>1, <1>3 DEF AllAccounted
<1>7. SlotsApart'
  <2>1. \A i \in 1 .. Len(queue) : queue[i] # issued
    BY <1>5 DEF Accounted
  <2>2. \A w \in Sending : job[w].slot # issued
    BY <1>5 DEF Accounted
  <2>3. \A s \in samples : s.slot # issued
    BY <1>5 DEF Accounted
  <2>4. \A i \in 1 .. Len(queue') :
           (i \in 1 .. Len(queue) /\ queue'[i] = queue[i])
           \/ (i = Len(queue) + 1 /\ queue'[i] = issued)
    BY <1>2
  <2>5. \A i, j \in 1 .. Len(queue') : queue'[i] = queue'[j] => i = j
    BY <2>1, <2>4 DEF SlotsApart
  <2>6. \A u, v \in Sending' : job'[u].slot = job'[v].slot => u = v
    BY <1>3, <1>4 DEF SlotsApart
  <2>7. \A i \in 1 .. Len(queue'), v \in Sending' : queue'[i] # job'[v].slot
    BY <2>2, <2>4, <1>3, <1>4 DEF SlotsApart
  <2>8. \A s \in samples' : /\ \A i \in 1 .. Len(queue') : queue'[i] # s.slot
                           /\ \A v \in Sending' : job'[v].slot # s.slot
    BY <2>3, <2>4, <1>3, <1>4 DEF SlotsApart
  <2> QED
    BY <2>5, <2>6, <2>7, <2>8 DEF SlotsApart
<1>8. Backlog' = Backlog + 1
  BY <1>2, <1>4, BacklogIsNat DEF Backlog
<1> QED
  BY <1>1, <1>3, <1>6, <1>7, <1>8, BacklogIsNat, FS_CardinalityType DEF SlotsCounted

LEMMA DropMoves ==
    ASSUME TypeOK, AllAccounted, SlotsApart, SlotsCounted, Drop
    PROVE  AllAccounted' /\ SlotsApart' /\ SlotsCounted' /\ Backlog' = Backlog
<1> DEFINE d == Dropped(issued)
<1>1. issued \in Nat
  BY DEF Drop, TypeOK
<1>2. /\ issued' = issued + 1 /\ samples' = samples \cup {d}
      /\ queue' = queue /\ job' = job
  BY DEF Drop
<1>3. Sending' = Sending
  BY <1>2 DEF Sending
<1>4. d.slot = issued
  BY DEF Dropped
<1> HIDE DEF d
<1>5. ~ Accounted(issued)
  BY <1>1 DEF AllAccounted
<1>6. AllAccounted'
  <2>1. \A n \in Nat : Accounted(n)' <=> (Accounted(n) \/ n = issued)
    BY <1>2, <1>3, <1>4 DEF Accounted
  <2> QED
    BY <2>1, <1>1, <1>2 DEF AllAccounted
<1>7. SlotsApart'
  BY <1>2, <1>3, <1>4, <1>5 DEF SlotsApart, Accounted
<1>8. IsFiniteSet(samples') /\ Cardinality(samples') = Cardinality(samples) + 1
  BY <1>2, <1>4, <1>5, FS_AddElement DEF SlotsCounted, Accounted
<1>9. Backlog' = Backlog
  BY <1>2, <1>3 DEF Backlog
<1> QED
  BY <1>1, <1>2, <1>6, <1>7, <1>8, <1>9, BacklogIsNat, FS_CardinalityType DEF SlotsCounted

LEMMA SlotsStep ==
    ASSUME IInv, [Next]_vars
    PROVE  AllAccounted' /\ SlotsApart' /\ SlotsCounted' /\ InFlightIsBacklog'
<1> USE DEF IInv
<1>1. CASE Enqueue
  BY <1>1, EnqueueMoves, BacklogIsNat DEF Enqueue, InFlightIsBacklog
<1>2. CASE Drop
  BY <1>2, DropMoves DEF Drop, InFlightIsBacklog
<1>3. ASSUME NEW w \in Workers, Take(w)
      PROVE  AllAccounted' /\ SlotsApart' /\ SlotsCounted' /\ InFlightIsBacklog'
  BY <1>3, TakeMoves DEF Take, schedule, InFlightIsBacklog
<1>4. ASSUME NEW w \in Workers, Finish(w)
      PROVE  AllAccounted' /\ SlotsApart' /\ SlotsCounted' /\ InFlightIsBacklog'
  <2>1. AllAccounted' /\ SlotsApart' /\ SlotsCounted' /\ Backlog' = Backlog - 1
    BY <1>4, FinishMoves
  <2>2. inFlight' = inFlight - 1 /\ disp' = disp
    BY <1>4 DEF Finish, schedule
  <2>3. InFlightIsBacklog'
    BY <2>1, <2>2, BacklogIsNat DEF InFlightIsBacklog
  <2> QED
    BY <2>1, <2>3
<1>5. ASSUME NEW w \in Workers, WorkerExit(w)
      PROVE  AllAccounted' /\ SlotsApart' /\ SlotsCounted' /\ InFlightIsBacklog'
  <2>1. job[w] = Idle /\ \A v \in Workers : v # w => job'[v] = job[v]
    BY <1>5 DEF WorkerExit, TypeOK
  <2>2. job'[w] = Exited
    BY <1>5 DEF WorkerExit, TypeOK
  <2>3. Sending' = Sending /\ \A v \in Sending : job'[v] = job[v]
    BY <2>1, <2>2, OpenLoopAssumption DEF Sending
  <2>4. queue' = queue /\ samples' = samples /\ issued' = issued
        /\ inFlight' = inFlight /\ disp' = disp
    BY <1>5 DEF WorkerExit, schedule
  <2> QED
    BY <2>3, <2>4, SlotsStay DEF InFlightIsBacklog
<1>6. CASE Count
  <2>1. queue' = queue /\ samples' = samples /\ issued' = issued /\ job' = job
    BY <1>6 DEF Count
  <2>2. AllAccounted' /\ SlotsApart' /\ SlotsCounted' /\ Backlog' = Backlog
    BY <2>1, JobStays, SlotsStay
  <2>3. InFlightIsBacklog'
    BY <1>6, <2>2, BacklogIsNat DEF Count, InFlightIsBacklog
  <2> QED
    BY <2>2, <2>3
<1>7. ASSUME queue' = queue, samples' = samples, issued' = issued, job' = job,
             inFlight' = inFlight, (disp' = "count") <=> (disp = "count")
      PROVE  AllAccounted' /\ SlotsApart' /\ SlotsCounted' /\ InFlightIsBacklog'
  BY <1>7, JobStays, SlotsStay DEF InFlightIsBacklog
<1>8. CASE Allocate \/ Tick \/ Expire \/ Interrupt \/ Look \/ LookAway \/ UNCHANGED vars
  BY <1>7, <1>8
     DEF Allocate, Tick, Expire, Interrupt, Look, LookAway, vars, timers, schedule, monitor,
         outcome
<1>9. CASE Begin \/ SelectDone \/ SelectAbort \/ SelectTick \/ BatchOver \/ Return
  BY <1>7, <1>9 DEF Begin, SelectDone, SelectAbort, SelectTick, BatchOver, Return
<1> QED
  BY <1>1, <1>2, <1>3, <1>4, <1>5, <1>6, <1>8, <1>9 DEF Next, Dispatch, Work, Watch

-----------------------------------------------------------------------------
(* How a phase ends.                                                       *)

LEMMA EndStep ==
    ASSUME IInv, [Next]_vars
    PROVE  EndInOrder'
<1> USE DEF IInv, EndInOrder
<1>1. CASE \/ Begin \/ Enqueue \/ Count \/ Drop
            \/ SelectTick \/ SelectDone \/ SelectAbort \/ BatchOver
  BY <1>1 DEF Begin, Enqueue, Count, Drop, SelectTick, SelectDone, SelectAbort, BatchOver
<1>2. CASE Return
  BY <1>2 DEF Return
<1>3. ASSUME NEW w \in Workers, Take(w)
      PROVE  EndInOrder'
  <2>1. disp' = disp /\ disp # "returned" /\ \A v \in Workers : job[v] # Exited
    BY <1>3, OpenLoopAssumption DEF Take, schedule
  <2>2. \A v \in Workers : job'[v] # Exited
    <3>1. [slot |-> Head(queue), at |-> clock] \in Send
      BY <1>3, TailFacts DEF Take, TypeOK, Send
    <3> QED
      BY <1>3, <2>1, <3>1, OpenLoopAssumption DEF Take, TypeOK
  <2> QED
    BY <2>1, <2>2
<1>4. ASSUME NEW w \in Workers, Finish(w)
      PROVE  EndInOrder'
  <2>1. job[w] # Exited /\ disp' = disp /\ queue' = queue
    BY <1>4, OpenLoopAssumption DEF Finish, schedule
  <2>2. \A v \in Workers : job'[v] = Exited => job[v] = Exited
    BY <1>4, OpenLoopAssumption DEF Finish, TypeOK
  <2> QED
    BY <2>1, <2>2
<1>5. ASSUME NEW w \in Workers, WorkerExit(w)
      PROVE  EndInOrder'
  BY <1>5 DEF WorkerExit, schedule, TypeOK
<1>6. CASE Allocate \/ Tick \/ Expire \/ Interrupt \/ Look \/ LookAway \/ UNCHANGED vars
  BY <1>6 DEF Allocate, Tick, Expire, Interrupt, Look, LookAway, vars, timers, schedule, monitor, outcome
<1> QED
  BY <1>1, <1>2, <1>3, <1>4, <1>5, <1>6 DEF Next, Dispatch, Work, Watch

LEMMA MonitorStep ==
    ASSUME IInv, [Next]_vars
    PROVE  MonitorWaits'
<1> USE DEF IInv, MonitorWaits
<1>1. CASE Look
  BY <1>1 DEF Look, schedule
<1>2. CASE LookAway
  BY <1>2 DEF LookAway, schedule
<1>3. CASE Allocate \/ Tick \/ Expire \/ Interrupt \/ UNCHANGED vars
  <2>1. over' = over /\ watching' = watching /\ disp' = disp
    BY <1>3 DEF Allocate, Tick, Expire, Interrupt, vars, schedule, monitor
  <2> QED
    BY <2>1
<1>4. CASE Dispatch
  BY <1>4 DEF Dispatch, Begin, SelectDone, SelectAbort, SelectTick, BatchOver, Enqueue, Count,
              Drop, Return, monitor
<1>5. ASSUME NEW w \in Workers, Work(w)
      PROVE  MonitorWaits'
  BY <1>5 DEF Work, Take, Finish, WorkerExit, schedule, monitor
<1> QED
  BY <1>1, <1>2, <1>3, <1>4, <1>5 DEF Next, Watch

LEMMA ExpiredStep ==
    ASSUME IInv, [Next]_vars
    PROVE  ExpiredInTime'
<1> USE OpenLoopAssumption DEF IInv, ExpiredInTime, TypeOK
<1>0. CASE Allocate \/ Begin
  BY <1>0 DEF Allocate, Begin, schedule, outcome
<1>1. CASE Tick
  BY <1>1 DEF Tick, schedule, outcome
<1>2. CASE Expire
  BY <1>2 DEF Expire, timers, schedule, outcome
<1>3. CASE Interrupt
  BY <1>3 DEF Interrupt, timers, schedule, outcome
<1>4. CASE Return
  BY <1>4 DEF Return, timers
<1>5. CASE SelectDone \/ SelectAbort \/ SelectTick \/ BatchOver \/ Enqueue \/ Count \/ Drop
  BY <1>5 DEF SelectDone, SelectAbort, SelectTick, BatchOver, Enqueue, Count, Drop,
              timers, outcome
<1>6. ASSUME NEW w \in Workers, Work(w)
      PROVE  ExpiredInTime'
  BY <1>6 DEF Work, Take, Finish, WorkerExit, timers, schedule, outcome
<1>7. CASE Watch \/ UNCHANGED vars
  BY <1>7 DEF Watch, Look, LookAway, vars, timers, schedule, outcome
<1> QED
  BY <1>0, <1>1, <1>2, <1>3, <1>4, <1>5, <1>6, <1>7 DEF Next, Dispatch

-----------------------------------------------------------------------------
(* The invariant.                                                          *)

LEMMA InvInit ==
    ASSUME Init
    PROVE  IInv
<1>1. TypeOK
  BY TypeInit
<1>2. queue = <<>> /\ Len(queue) = 0 /\ samples = {} /\ issued = 0
  BY DEF Init
<1>3. Sending = {}
  BY OpenLoopAssumption DEF Init, Sending
<1>4. AllAccounted /\ SlotsApart
  BY <1>2, <1>3 DEF AllAccounted, Accounted, SlotsApart
<1>5. Backlog = 0 /\ Cardinality(samples) = 0 /\ IsFiniteSet(samples)
  BY <1>2, <1>3, FS_EmptySet DEF Backlog
<1>6. SlotsCounted /\ InFlightIsBacklog
  BY <1>2, <1>5 DEF SlotsCounted, InFlightIsBacklog, Init
<1>7. EndInOrder /\ MonitorWaits /\ ExpiredInTime
  BY OpenLoopAssumption DEF Init, EndInOrder, MonitorWaits, ExpiredInTime
<1> QED
  BY <1>1, <1>4, <1>6, <1>7 DEF IInv

LEMMA InvStep ==
    ASSUME IInv, [Next]_vars
    PROVE  IInv'
<1>1. TypeOK'
  BY TypeStep DEF IInv
<1> QED
  BY <1>1, SlotsStep, EndStep, MonitorStep, ExpiredStep DEF IInv

LEMMA Invariance == Spec => []IInv
BY InvInit, InvStep, PTL DEF Spec

\* Every slot is at one place or a sample, and the counts agree.
LEMMA InvEverySlotOnce ==
    ASSUME IInv
    PROVE  EverySlotOnce
<1> DEFINE queued   == {queue[i] : i \in 1 .. Len(queue)}
           held     == {job[w].slot : w \in Sending}
           recorded == {s.slot : s \in samples}
<1>1. issued \in Nat /\ Len(queue) \in Nat
  BY QueueFacts DEF IInv, TypeOK
<1>2. queued \cup held \cup recorded \subseteq Nat
  <2>1. queued \subseteq Nat
    <3>1. \A i \in 1 .. Len(queue) : queue[i] \in Slots
      BY QueueFacts DEF IInv, TypeOK
    <3> QED
      BY <3>1, OpenLoopAssumption DEF Slots
  <2>2. held \subseteq Nat
    BY DEF Sending, Send, Slots
  <2>3. recorded \subseteq Nat
    BY DEF IInv, TypeOK, Sample, Slots
  <2> QED
    BY <2>1, <2>2, <2>3
<1>3. \A n \in Nat : n \in queued \cup held \cup recorded <=> n \in 0 .. issued - 1
  BY <1>1 DEF IInv, AllAccounted, Accounted
<1>4. queued \cup held \cup recorded = 0 .. issued - 1
  <2> HIDE DEF queued, held, recorded
  <2> QED
    BY <1>1, <1>2, <1>3
<1>5. disp = "returned" => Cardinality(samples) = issued
  <2>1. SUFFICES ASSUME disp = "returned"
                 PROVE  Backlog = 0
    BY FS_CardinalityType DEF IInv, SlotsCounted
  <2>2. \A w \in Workers : job[w] = Exited
    BY <2>1 DEF IInv, EndInOrder
  <2>3. queue = <<>> /\ Sending = {}
    BY <2>2, OpenLoopAssumption DEF IInv, EndInOrder, Sending
  <2> QED
    BY <2>3, FS_EmptySet DEF Backlog
<1> QED
  BY <1>4, <1>5 DEF EverySlotOnce, IInv, SlotsCounted

-----------------------------------------------------------------------------
(* The results.                                                            *)

\* Every variable keeps its type: the queue never exceeds -max-inflight, and a sample
\* has a slot of the schedule (main.go:520-659).
THEOREM TypeCorrect == Spec => []TypeOK
<1>1. IInv => TypeOK
  BY DEF IInv
<1> QED
  BY <1>1, Invariance, PTL

\* No slot is lost or counted twice, for any number of workers and any -max-inflight,
\* whether the phase expires, is aborted or is interrupted (main.go:605-645).
THEOREM SlotsConserved == Spec => []EverySlotOnce
BY InvEverySlotOnce, Invariance, PTL

\* The counter the monitor reads is the backlog but for one slot (main.go:619-620).
THEOREM CounterTrue == Spec => []InFlightIsBacklog
<1>1. IInv => InFlightIsBacklog
  BY DEF IInv
<1> QED
  BY <1>1, Invariance, PTL

\* A phase that ran its time is measured over -duration, but for what passed between
\* arming its context and reading start, however long that was (main.go:484, 522,
\* 636-645).
THEOREM MeasuredButForSetup == Spec => []FullRunMissesOnlySetup
<1>1. IInv => FullRunMissesOnlySetup
  <2> SUFFICES ASSUME IInv, disp = "returned", ctx = "expired"
               PROVE  Measured \in Duration - start .. Duration
    BY DEF FullRunMissesOnlySetup
  <2>1. /\ start \in Nat /\ wall \in Nat /\ Warmup \in Nat /\ Duration \in Nat
        /\ start + wall >= Warmup + Duration
    BY OpenLoopAssumption DEF IInv, TypeOK, ExpiredInTime
  <2> QED
    BY <2>1 DEF Measured, Least
<1> QED
  BY <1>1, Invariance, PTL

\* Only a backlog near the cap gives a strike or the abort (main.go:560-583): what
\* the monitor reads never exceeds the backlog.
THEOREM AbortJustified == Spec => AbortsOnlyWhenBehind
<1> DEFINE Justified ==
       /\ ~ abort /\ abort' => NearCap(Backlog)
       /\ watching /\ watching' /\ beat /\ ~ beat' /\ ~ NearCap(Backlog) => over' = 0
<1>1. ASSUME IInv, [Next]_vars
      PROVE  [Justified]_vars
  <2>1. NearCap(inFlight) => NearCap(Backlog)
    BY <1>1, BacklogIsNat, OpenLoopAssumption DEF IInv, InFlightIsBacklog, NearCap
  <2>2. CASE Look
    <3>1. ~ NearCap(Backlog) => over' = 0
      BY <2>1, <2>2 DEF Look
    <3>2. abort' => over' >= Strikes
      BY <2>2 DEF Look
    <3>3. abort' => NearCap(Backlog)
      BY <3>1, <3>2, OpenLoopAssumption
    <3> QED
      BY <3>1, <3>3
  <2>0. CASE Begin
    BY <2>0 DEF Begin
  <2>3. CASE Allocate \/ Tick
    BY <2>3 DEF Allocate, Tick, monitor
  <2>4. CASE LookAway
    BY <2>4 DEF LookAway
  <2>5. CASE Expire \/ Interrupt \/ UNCHANGED vars
    BY <2>5 DEF Expire, Interrupt, vars, timers, monitor
  <2>6. CASE SelectAbort
    BY <2>6 DEF SelectAbort, timers
  <2>7. CASE SelectTick
    BY <2>7 DEF SelectTick, monitor
  <2>8. CASE SelectDone \/ BatchOver \/ Enqueue \/ Count \/ Drop \/ Return
    BY <2>8 DEF SelectDone, BatchOver, Enqueue, Count, Drop, Return, timers, monitor
  <2>9. CASE \E w \in Workers : Work(w)
    BY <2>9 DEF Work, Take, Finish, WorkerExit, timers, monitor
  <2> QED
    BY <1>1, <2>0, <2>2, <2>3, <2>4, <2>5, <2>6, <2>7, <2>8, <2>9
       DEF Next, Dispatch, Watch
<1> QED
  BY <1>1, Invariance, PTL DEF Spec, AbortsOnlyWhenBehind
=============================================================================
