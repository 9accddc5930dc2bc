------------------------------- MODULE LoadTest -------------------------------
(***************************************************************************)
(* The load generator as a program (cmd/loadtest/main.go): run and drive   *)
(* take one of three ways and never come back to another: the open loop    *)
(* when there is a rate, the timing check, or the closed loop.             *)
(***************************************************************************)
EXTENDS OpenLoop

CONSTANTS
    Users, Addresses, Accounts, Ramp, Cooldown, Naps, Timeout, Window, Limit,
    ClosedWarmup, ClosedDuration, ClosedTime,
    Replicas, Threshold, Samples, Discarded, Probes, Fallback, Lookups, Verifies, Records

VARIABLES
    way,       \* which of the three this run is
    now, wanted, stage, until, interrupted, expired, seeded, user, address, kept, perUser,
    sent, nextIP, hits,
    step, ready, order, made, target, failures, login, group, observed, throttled

closed == <<now, wanted, stage, until, interrupted, expired, seeded, user, address, kept,
            perUser, sent, nextIP, hits>>
timing == <<step, ready, order, made, target, failures, login, group, observed, throttled>>
all    == <<way, vars, closed, timing>>

C == INSTANCE ClosedLoop
       WITH Warmup <- ClosedWarmup, Duration <- ClosedDuration, MaxTime <- ClosedTime
T == INSTANCE TimingCheck

ASSUME LoadTestAssumption == C!ClosedLoopAssumption /\ T!TimingCheckAssumption

\* -target and -rate decide.  What is not run stays where it is, in one initial state.
Run == /\ way \in {"open", "closed", "timing"}
       /\ Init /\ C!Init /\ T!Init
       /\ way # "closed" => wanted = {"compute"}
       /\ way # "timing" => /\ step = "seed" /\ \A a \in 0 .. Accounts - 1 : failures[a] = 0
                            /\ \A r \in Replicas, b \in {T!Baseline(w) : w \in Probes} : target[r] >= b

Open(A)   == way = "open" /\ A /\ UNCHANGED <<way, closed, timing>>
Closed(A) == way = "closed" /\ A /\ UNCHANGED <<way, vars, timing>>
Timing(A) == way = "timing" /\ A /\ UNCHANGED <<way, vars, closed>>

RunNext == Open(Next) \/ Closed(C!Next) \/ Timing(T!Next)

\* Each way runs under its own fairness.
RunSpec ==
    /\ Run /\ [][RunNext]_all
    /\ WF_all(Open(Tick)) /\ WF_all(Open(Expire))
    /\ WF_all(Open(Dispatch)) /\ SF_all(Open(SelectDone)) /\ WF_all(Open(Watch))
    /\ \A w \in Workers : WF_all(Open(Work(w)))
    /\ WF_all(Closed(C!Tick)) /\ WF_all(Closed(C!Expire)) /\ WF_all(Closed(C!Main))
    /\ \A u \in 0 .. Users - 1 : WF_all(Closed(C!Live(u)))
    /\ WF_all(Timing(T!Check)) /\ WF_all(Timing(T!Server))

-----------------------------------------------------------------------------
\* The three ways' states keep their types.
WellTyped == TypeOK /\ C!TypeOK /\ T!TypeOK

\* What ClosedLoop and TimingCheck say of themselves holds of the program; the comments
\* are there: no sample is lost (main.go:716-733),
EverySendKept == C!EverySendKept

\* no request is cut by the deadline (main.go:669-672),
DeadlineCutsNothing == C!DeadlineCutsNothing

\* the compute phase is not throttled by what the limiter phase did (main.go:241),
ComputeUnthrottled == C!ComputeUnthrottled

\* the two ways a login fails take the same time (auth.go:34-47),
PathsTakeTheSameTime == T!PathsTakeTheSameTime

\* the timing check keeps clear of the lockout (timing.go:107-109),
NeverStoppedByALock == T!NeverStoppedByALock

\* Whichever way it takes, the program ends: runOpenLoop and its monitor, the two phases
\* and the pause between them, the timing check; whatever the server does, and
\* interrupted or not.
EveryRunEnds ==
    <>\/ way = "open" /\ disp = "returned" /\ ~ watching
      \/ way = "closed" /\ stage = "over"
      \/ way = "timing" /\ step \in {"reported", "failed"}
=============================================================================
