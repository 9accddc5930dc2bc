------------------------------ MODULE OpenLoop ------------------------------
(***************************************************************************)
(* One open-loop phase of the load generator (cmd/loadtest/main.go,        *)
(* runOpenLoop): a dispatcher wakes on a ticker and offers every slot that *)
(* is due to a bounded queue, or records it as dropped; workers take slots *)
(* and send them; a monitor counts how often the backlog is near the cap   *)
(* and asks for an abort; at the end the queue is closed, the workers      *)
(* drain it, and the samples sent inside the measured window are counted.  *)
(* The clock runs from the moment the phase's context is armed; the        *)
(* schedule and the window run from `start`, which is read once the queue  *)
(* has been allocated.                                                     *)
(***************************************************************************)
EXTENDS Integers, Sequences, FiniteSets

CONSTANTS
    Workers,
    Cap,       \* -max-inflight, the capacity of the queue
    Warmup, Duration,
    Setup,     \* the longest it takes to allocate the queue
    Strikes,   \* looks in a row at a backlog near the cap before the abort
    MaxTime,   \* the clock stops here
    Idle, Exited

Slots  == 0 .. MaxTime
Send   == [slot : Slots, at : 0 .. MaxTime]
Sample == [slot : Slots, at : 0 .. MaxTime, sent : BOOLEAN]

ASSUME OpenLoopAssumption ==
    /\ Workers # {} /\ IsFiniteSet(Workers)
    /\ Cap \in Nat \ {0}
    /\ Warmup \in Nat /\ Duration \in Nat \ {0}
    /\ Setup \in Nat /\ Strikes \in Nat \ {0}
    /\ MaxTime \in Nat /\ MaxTime >= Warmup + Duration
    /\ Idle # Exited /\ Idle \notin Send /\ Exited \notin Send

VARIABLES
    clock,     \* since the context was armed
    start,     \* its value when `start` was read
    ctx,       \* the phase's context
    tick,      \* does the dispatcher's ticker hold a tick?
    beat,      \* does the monitor's?
    disp,      \* where the dispatcher is
    seen,      \* the clock when it last woke up
    issued,    \* slots taken from the schedule
    queue,
    job,       \* worker -> the request it is sending
    samples,
    inFlight,
    over,      \* the monitor's strikes
    watching,  \* is the monitor running?
    abort,     \* does the abort channel hold its message?
    aborted,
    wall

vars == <<clock, start, ctx, tick, beat, disp, seen, issued, queue, job, samples, inFlight,
          over, watching, abort, aborted, wall>>

timers   == <<clock, start, tick, beat>>
schedule == <<disp, seen, issued>>
monitor  == <<over, watching, abort>>
outcome  == <<aborted, wall>>

Init == /\ clock = 0 /\ start = 0 /\ ctx = "live"
        /\ tick = FALSE /\ beat = FALSE
        /\ disp = "setup" /\ seen = 0 /\ issued = 0
        /\ queue = <<>> /\ inFlight = 0
        /\ job = [w \in Workers |-> Idle]
        /\ samples = {}
        /\ over = 0 /\ watching = FALSE /\ abort = FALSE
        /\ aborted = FALSE /\ wall = 0

\* Slot n is due n periods after the start; the clock's unit is the period.
Due(n) == start + n

-----------------------------------------------------------------------------
\* The context is armed and the queue is being made: no ticker runs yet.
Allocate ==
    /\ disp = "setup" /\ clock < Setup /\ clock < MaxTime
    /\ clock' = clock + 1
    /\ UNCHANGED <<start, tick, beat, ctx, schedule, queue, job, samples, inFlight, monitor,
                   outcome>>

\* start := time.Now(), and what follows it: the workers, the monitor, the tickers.
Begin ==
    /\ disp = "setup"
    /\ start' = clock /\ disp' = "select" /\ watching' = TRUE
    /\ UNCHANGED <<clock, tick, beat, ctx, seen, issued, queue, job, samples, inFlight, over,
                   abort, outcome>>

\* A ticker holds one tick at most, and drops those its reader is too slow for.
Tick == /\ disp # "setup" /\ clock < MaxTime
        /\ clock' = clock + 1
        /\ tick' = TRUE
        /\ beat' \in {beat, TRUE}
        /\ UNCHANGED <<start, ctx, schedule, queue, job, samples, inFlight, monitor, outcome>>

\* Faulty variant: the timeout covers the measured window and forgets the warmup.
ExpireWithoutWarmup ==
    /\ ctx = "live" /\ clock >= Duration
    /\ ctx' = "expired"
    /\ UNCHANGED <<timers, schedule, queue, job, samples, inFlight, monitor, outcome>>

\* context.WithTimeout(parent, warmup+duration)
Expire ==
    /\ ctx = "live" /\ clock >= Warmup + Duration
    /\ ctx' = "expired"
    /\ UNCHANGED <<timers, schedule, queue, job, samples, inFlight, monitor, outcome>>

\* The operator stops the program.
Interrupt ==
    /\ ctx = "live" /\ disp # "returned"
    /\ ctx' = "cancelled"
    /\ UNCHANGED <<timers, schedule, queue, job, samples, inFlight, monitor, outcome>>

-----------------------------------------------------------------------------
(* The dispatcher.                                                         *)

\* From "drain" on the queue is closed.
SelectDone ==
    /\ disp = "select" /\ ctx # "live"
    /\ disp' = "drain"
    /\ UNCHANGED <<timers, ctx, seen, issued, queue, job, samples, inFlight, monitor, outcome>>

SelectAbort ==
    /\ disp = "select" /\ abort
    /\ disp' = "drain" /\ abort' = FALSE /\ aborted' = TRUE
    /\ UNCHANGED <<timers, ctx, seen, issued, queue, job, samples, inFlight, over, watching, wall>>

SelectTick ==
    /\ disp = "select" /\ tick
    /\ disp' = "batch" /\ tick' = FALSE /\ seen' = clock
    /\ UNCHANGED <<clock, start, beat, ctx, issued, queue, job, samples, inFlight, monitor, outcome>>

BatchOver ==
    /\ disp = "batch" /\ Due(issued) > seen
    /\ disp' = "select"
    /\ UNCHANGED <<timers, ctx, seen, issued, queue, job, samples, inFlight, monitor, outcome>>

\* Faulty variant: an unbounded queue.
EnqueueAlways ==
    /\ disp = "batch" /\ Due(issued) <= seen
    /\ queue' = Append(queue, issued)
    /\ issued' = issued + 1
    /\ disp' = "count"
    /\ UNCHANGED <<timers, ctx, seen, job, samples, inFlight, monitor, outcome>>

\* A due slot finds room in the queue; it is counted in flight only afterwards.
Enqueue ==
    /\ disp = "batch" /\ Due(issued) <= seen
    /\ Len(queue) < Cap
    /\ queue' = Append(queue, issued)
    /\ issued' = issued + 1
    /\ disp' = "count"
    /\ UNCHANGED <<timers, ctx, seen, job, samples, inFlight, monitor, outcome>>

Count ==
    /\ disp = "count"
    /\ inFlight' = inFlight + 1
    /\ disp' = "batch"
    /\ UNCHANGED <<timers, ctx, seen, issued, queue, job, samples, monitor, outcome>>

Dropped(n) == [slot |-> n, at |-> seen, sent |-> FALSE]

\* A due slot finds the queue full: a sample that was never sent.
Drop ==
    /\ disp = "batch" /\ Due(issued) <= seen
    /\ Len(queue) = Cap
    /\ samples' = samples \cup {Dropped(issued)}
    /\ issued' = issued + 1
    /\ UNCHANGED <<timers, ctx, disp, seen, queue, job, inFlight, monitor, outcome>>

\* wg.Wait returns, and runOpenLoop with it, cancelling its context.
Return ==
    /\ disp = "drain" /\ \A w \in Workers : job[w] = Exited
    /\ disp' = "returned"
    /\ wall' = clock - start
    /\ ctx' = IF ctx = "live" THEN "cancelled" ELSE ctx
    /\ UNCHANGED <<timers, seen, issued, queue, job, samples, inFlight, monitor, aborted>>

-----------------------------------------------------------------------------
(* The workers.                                                            *)

Take(w) ==
    /\ job[w] = Idle /\ queue # <<>>
    /\ job' = [job EXCEPT ![w] = [slot |-> Head(queue), at |-> clock]]
    /\ queue' = Tail(queue)
    /\ UNCHANGED <<timers, ctx, schedule, samples, inFlight, monitor, outcome>>

\* The request is answered, times out or fails: a sample in any case.
Finish(w) ==
    /\ job[w] \in Send
    /\ samples' = samples \cup {[slot |-> job[w].slot, at |-> job[w].at, sent |-> TRUE]}
    /\ inFlight' = inFlight - 1
    /\ job' = [job EXCEPT ![w] = Idle]
    /\ UNCHANGED <<timers, ctx, schedule, queue, monitor, outcome>>

\* Faulty variant: a worker stops with the phase, whatever is still queued.
WorkerExitWithPhase(w) ==
    /\ job[w] = Idle /\ ctx # "live"
    /\ job' = [job EXCEPT ![w] = Exited]
    /\ UNCHANGED <<timers, ctx, schedule, queue, samples, inFlight, monitor, outcome>>

\* Faulty variant: the queue is closed after the wait.
WorkerExitAfterWait(w) ==
    /\ job[w] = Idle /\ queue = <<>> /\ disp = "returned"
    /\ job' = [job EXCEPT ![w] = Exited]
    /\ UNCHANGED <<timers, ctx, schedule, queue, samples, inFlight, monitor, outcome>>

\* The queue is closed and empty.
WorkerExit(w) ==
    /\ job[w] = Idle /\ queue = <<>> /\ disp = "drain"
    /\ job' = [job EXCEPT ![w] = Exited]
    /\ UNCHANGED <<timers, ctx, schedule, queue, samples, inFlight, monitor, outcome>>

-----------------------------------------------------------------------------
(* The monitor.                                                            *)

NearCap(n) == 10 * n > 9 * Cap

\* Faulty variant: strikes add up over the run.
LookNeverResets ==
    /\ watching /\ beat
    /\ beat' = FALSE
    /\ over' = IF NearCap(inFlight) THEN over + 1 ELSE over
    /\ abort' = (over' >= Strikes)
    /\ watching' = (over' < Strikes)
    /\ UNCHANGED <<clock, start, tick, ctx, schedule, queue, job, samples, inFlight, outcome>>

\* The monitor looks at the backlog; its last strike asks for the abort.
Look ==
    /\ watching /\ beat
    /\ beat' = FALSE
    /\ over' = IF NearCap(inFlight) THEN over + 1 ELSE 0
    /\ abort' = (over' >= Strikes)
    /\ watching' = (over' < Strikes)
    /\ UNCHANGED <<clock, start, tick, ctx, schedule, queue, job, samples, inFlight, outcome>>

LookAway ==
    /\ watching /\ ctx # "live"
    /\ watching' = FALSE
    /\ UNCHANGED <<timers, ctx, schedule, queue, job, samples, inFlight, over, abort, outcome>>

-----------------------------------------------------------------------------
Dispatch == \/ Begin \/ SelectDone \/ SelectAbort \/ SelectTick \/ BatchOver
            \/ Enqueue \/ Count \/ Drop \/ Return
Work(w)  == Take(w) \/ Finish(w) \/ WorkerExit(w)
Watch    == Look \/ LookAway

Next == \/ Allocate \/ Tick \/ Expire \/ Interrupt
        \/ Dispatch \/ Watch
        \/ \E w \in Workers : Work(w)

Spec == Init /\ [][Next]_vars

-----------------------------------------------------------------------------
TypeOK ==
    /\ clock \in 0 .. MaxTime /\ start \in 0 .. clock /\ wall \in 0 .. MaxTime /\ seen \in 0 .. MaxTime
    /\ ctx \in {"live", "expired", "cancelled"}
    /\ tick \in BOOLEAN /\ beat \in BOOLEAN
    /\ disp \in {"setup", "select", "batch", "count", "drain", "returned"}
    /\ issued \in 0 .. MaxTime + 1
    /\ queue \in Seq(Slots) /\ Len(queue) <= Cap
    /\ job \in [Workers -> Send \cup {Idle, Exited}]
    /\ samples \subseteq Sample
    /\ inFlight \in Int
    /\ over \in 0 .. Strikes /\ watching \in BOOLEAN /\ abort \in BOOLEAN
    /\ aborted \in BOOLEAN

Sending == {w \in Workers : job[w] \in Send}
Backlog == Len(queue) + Cardinality(Sending)

\* No slot of the schedule is lost or counted twice, whichever of queue, worker or
\* drop it goes through and however the phase ends; when runOpenLoop returns every
\* one is a sample (main.go:605-645).
EverySlotOnce ==
    LET queued   == {queue[i] : i \in 1 .. Len(queue)}
        held     == {job[w].slot : w \in Sending}
        recorded == {s.slot : s \in samples}
    IN /\ queued \cup held \cup recorded = 0 .. issued - 1
       /\ Backlog + Cardinality(samples) = issued
       /\ disp = "returned" => Cardinality(samples) = issued

\* The counter the monitor reads is the backlog, but for the slot the dispatcher has
\* queued and not yet counted (main.go:619-620): a worker may even finish it first.
InFlightIsBacklog ==
    inFlight = Backlog - (IF disp = "count" THEN 1 ELSE 0)

\* The monitor aborts only a run whose backlog is near the cap when it looks
\* (main.go:571), and at each of its looks before: a generator that kept up, or
\* caught up, is left alone.
AbortsOnlyWhenBehind ==
    [][/\ ~ abort /\ abort' => NearCap(Backlog)
       /\ watching /\ watching' /\ beat /\ ~ beat' /\ ~ NearCap(Backlog) => over' = 0]_vars

\* markWindow's window: what is left of -duration when the run was cut short.
Least(a, b) == IF a < b THEN a ELSE b
Measured    == IF wall < Warmup THEN 0 ELSE Least(Duration, wall - Warmup)
InWindow(s) == s.at >= start + Warmup /\ s.at < start + Warmup + Measured
Counted     == {s \in samples : InWindow(s)}

\* "Asking for 30s of data gets 30s of data" (docs/LOADTEST.md:69), but for what passed
\* between arming the context and reading start (main.go:484, 522): a phase that was
\* neither aborted nor interrupted is measured over the rest of -duration at least.
FullRunMissesOnlySetup ==
    disp = "returned" /\ ctx = "expired" => Measured \in Duration - start .. Duration

\* The verdict's "achieved" reaches 99% of the rate (stats.go:314).
Delivered(n) == 100 * n >= 99 * Measured

\* "counting it as anything else would hide the fact that the offered load was not
\* actually offered" (main.go:446): the report of a phase that ran its time finds the
\* rate delivered only if it was sent.
VerdictCountsWhatWasSent ==
    disp = "returned" /\ ctx = "expired" /\ Delivered(Cardinality(Counted))
       => Delivered(Cardinality({s \in Counted : s.sent}))
=============================================================================
