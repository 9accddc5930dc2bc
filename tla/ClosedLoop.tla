------------------------------ MODULE ClosedLoop ------------------------------
(***************************************************************************)
(* The load generator against logins, closed loop (cmd/loadtest/main.go,   *)
(* run and runPhase; seed.go).  A fixed number of users each sends, waits  *)
(* for the answer and thinks, until the phase's deadline or an interrupt.  *)
(* The limiter phase shares a few addresses among them, the compute phase  *)
(* gives every request its own, and a pause between the two is there for   *)
(* the gateway's rate limiter (external: a sliding window) to forget.      *)
(***************************************************************************)
EXTENDS Integers

CONSTANTS
    Users,               \* -users
    Addresses,           \* -ips
    Accounts,            \* seeded before the phases
    Ramp, Warmup, Duration, Cooldown,
    Naps,                \* -think and its jitter; 0 is no pause at all
    Timeout,
    Window, Limit,       \* the gateway's limiter: 10 a minute
    MaxTime

ClosedLoopAssumption ==
    /\ Users \in Nat \ {0} /\ Addresses \in Nat \ {0} /\ Accounts \in Nat
    /\ Ramp \in Nat /\ Warmup \in Nat /\ Duration \in Nat \ {0} /\ Cooldown \in Nat
    /\ Naps \subseteq Nat /\ Naps # {}
    /\ Timeout \in Nat \ {0} /\ Window \in Nat \ {0} /\ Limit \in Nat \ {0}
    /\ MaxTime \in Nat

VARIABLES
    now,
    wanted,       \* -phase: which of the two phases to run
    stage,
    until,        \* when the stage is over: the phase's deadline, or the pause's end
    interrupted,  \* the parent context
    expired,      \* the phase's own
    seeded,       \* requests of seed answered as they should be
    user,         \* user -> where it is, and the time that matters there
    address,      \* user -> the address of its request
    kept,         \* user -> its samples, by kind
    perUser,      \* user -> the samples it published when it ended
    sent,         \* history: user -> the requests it has sent in this phase
    nextIP,       \* of the phase's ipSource
    hits          \* addresses the limiter has a key of -> what it counted in this window
                  \* and in the one before

vars == <<now, wanted, stage, until, interrupted, expired, seeded, user, address, kept,
          perUser, sent, nextIP, hits>>

plan    == <<wanted, stage, until, seeded>>
ctxs    == <<interrupted, expired>>
records == <<kept, perUser, sent>>

U       == 0 .. Users - 1
Kinds   == {"answered", "throttled", "timeout", "cancelled"}
Nothing == [k \in Kinds |-> 0]
Fresh   == [before |-> 0, now |-> 0]
InPhase == stage \in {"limiter", "compute"}

Init == /\ now = 0
        /\ wanted \in {{"limiter"}, {"compute"}, {"limiter", "compute"}}
        /\ stage = "seed" /\ until = 0 /\ seeded = 0
        /\ interrupted = FALSE /\ expired = FALSE
        /\ user = [u \in U |-> [pc |-> "done", t |-> 0]]
        /\ address = [u \in U |-> 0]
        /\ kept = [u \in U |-> Nothing] /\ perUser = [u \in U |-> Nothing]
        /\ sent = [u \in U |-> 0] /\ nextIP = 0
        /\ hits = [a \in {} |-> Fresh]

-----------------------------------------------------------------------------
(* Time, and the operator's interrupt.                                     *)

\* A window is over: what it counted is the one before, and keys older than that expire.
Turned == LET counted == {a \in DOMAIN hits : hits[a].now > 0}
          IN [a \in counted |-> [before |-> hits[a].now, now |-> 0]]

PhaseOver == expired \/ interrupted

\* The clock moves when nobody has anything to do: timers, http.Client's among them, are
\* not late by a unit of it, nor is a goroutine that can run.
Waits(u) == \/ user[u].pc = "done"
            \/ user[u].pc \in {"ramp", "thinking"} /\ now < user[u].t /\ ~ PhaseOver
            \/ user[u].pc = "sending" /\ now < user[u].t /\ ~ interrupted

Tick == /\ now < MaxTime
        /\ InPhase => /\ \A u \in U : Waits(u)
                      /\ \E u \in U : user[u].pc # "done"
                      /\ now < until \/ expired
        /\ stage = "pause" => now < until /\ ~ interrupted
        /\ stage = "seed" => now < Window - 1
        /\ now' = now + 1
        /\ hits' = IF now' % Window = 0 THEN Turned ELSE hits
        /\ UNCHANGED <<plan, ctxs, user, address, records, nextIP>>

Interrupt == /\ stage # "over" /\ ~ interrupted
             /\ interrupted' = TRUE
             /\ UNCHANGED <<now, plan, expired, user, address, records, nextIP, hits>>

\* The timeout of phaseCtx.
Expire == /\ InPhase /\ now >= until /\ ~ expired
          /\ expired' = TRUE
          /\ UNCHANGED <<now, plan, interrupted, user, address, records, nextIP, hits>>

-----------------------------------------------------------------------------
(* run: seeding, the phases and the pause between them.                    *)

\* What runPhase starts from; its result is reported, and none of it is left, when it ends.
Forget == /\ address' = [u \in U |-> 0] /\ nextIP' = 0
          /\ sent' = [u \in U |-> 0]
          /\ kept' = [u \in U |-> Nothing] /\ perUser' = [u \in U |-> Nothing]
          /\ expired' = FALSE
          /\ UNCHANGED <<now, wanted, interrupted, seeded, hits>>

\* The users of a phase, staggered over the ramp.
Enter(phase) ==
    /\ stage' = phase /\ until' = now + Ramp + Warmup + Duration
    /\ user' = [u \in U |-> [pc |-> "ramp", t |-> now + (Ramp * u) \div Users]]
    /\ Forget

Leave(to, t) == stage' = to /\ until' = t /\ UNCHANGED user /\ Forget

Stop == Leave("over", 0)

\* Each account is registered, and then logged in to; a lockout left over, a register
\* that is refused or an interrupt ends the run.
SeedAccount ==
    /\ stage = "seed" /\ ~ interrupted /\ seeded < 2 * Accounts
    /\ seeded' = seeded + 1
    /\ UNCHANGED <<now, wanted, stage, until, ctxs, user, address, records, nextIP, hits>>

SeedFails == stage = "seed" /\ seeded < 2 * Accounts /\ Stop

Seeded ==
    /\ stage = "seed" /\ seeded = 2 * Accounts
    /\ \/ "limiter" \in wanted /\ Enter("limiter")
       \/ "limiter" \notin wanted /\ ~ interrupted /\ Enter("compute")
       \/ "limiter" \notin wanted /\ interrupted /\ Stop

\* Faulty variant: one window is over, so the limiter has forgotten.
PauseOfAWindow == Leave("pause", now + Window)

Pause == Leave("pause", now + Cooldown)

\* wg.Wait returns, and runPhase with the users' samples merged.
PhaseReturns ==
    /\ InPhase /\ \A u \in U : user[u].pc = "done"
    /\ IF stage = "limiter" /\ "compute" \in wanted /\ ~ interrupted THEN Pause ELSE Stop

PauseOver == /\ stage = "pause"
             /\ \/ ~ interrupted /\ now >= until /\ Enter("compute")
                \/ interrupted /\ Stop

-----------------------------------------------------------------------------
(* One user.                                                               *)

Goto(u, pc, t) == user' = [user EXCEPT ![u] = [pc |-> pc, t |-> t]]

WakeUp(u) ==
    /\ user[u].pc \in {"ramp", "thinking"} /\ now >= user[u].t
    /\ Goto(u, "ready", 0)
    /\ UNCHANGED <<now, plan, ctxs, address, records, nextIP, hits>>

Publish(u) ==
    /\ Goto(u, "done", 0)
    /\ perUser' = [perUser EXCEPT ![u] = kept[u]]
    /\ UNCHANGED <<now, plan, ctxs, address, kept, sent, nextIP, hits>>

\* The phase ends while a user waits for its turn in the ramp: it has nothing to publish.
RampCut(u) ==
    /\ user[u].pc = "ramp" /\ PhaseOver
    /\ Goto(u, "done", 0)
    /\ UNCHANGED <<now, plan, ctxs, address, records, nextIP, hits>>

\* Faulty variant: a user woken from its think time returns, as in the ramp.
ThinkCutReturns(u) ==
    /\ user[u].pc = "thinking" /\ PhaseOver
    /\ Goto(u, "done", 0)
    /\ UNCHANGED <<now, plan, ctxs, address, records, nextIP, hits>>

ThinkCut(u) == user[u].pc = "thinking" /\ PhaseOver /\ Publish(u)

LeaveLoop(u) == user[u].pc = "ready" /\ PhaseOver /\ Publish(u)

\* bucketIPs goes round -ips addresses, uniqueIPs never repeats; both start at the first.
IPFor(n) == IF stage = "limiter" THEN n % Addresses ELSE n

Issue(u) ==
    /\ user[u].pc = "ready" /\ ~ PhaseOver
    /\ Goto(u, "sending", now + Timeout)
    /\ address' = [address EXCEPT ![u] = IPFor(nextIP)]
    /\ nextIP' = nextIP + 1
    /\ sent' = [sent EXCEPT ![u] = @ + 1]
    /\ UNCHANGED <<now, plan, ctxs, kept, perUser, hits>>

\* The request is a sample, and the user thinks.
Record(u, kind) ==
    /\ kept' = [kept EXCEPT ![u][kind] = @ + 1]
    /\ \E nap \in Naps : Goto(u, "thinking", now + nap)
    /\ UNCHANGED <<now, plan, ctxs, address, perUser, sent, nextIP>>

-----------------------------------------------------------------------------
(* The gateway: the limiter's count for an address is what it admitted in  *)
(* this window and, as far as a window back from now still covers it, in   *)
(* the one before, rounded.                                                *)

Counted(a) == IF a \in DOMAIN hits THEN hits[a] ELSE Fresh

CountIt(u) ==
    hits' = [a \in DOMAIN hits \cup {address[u]} |->
               IF a = address[u] THEN [Counted(a) EXCEPT !.now = @ + 1] ELSE hits[a]]

Used(a) ==
    LET spent == Counted(a).before * (Window - (now % Window)) + Counted(a).now * Window
    IN (2 * spent + Window) \div (2 * Window)

Answered(u) == /\ user[u].pc = "sending" /\ Used(address[u]) < Limit
               /\ CountIt(u)
               /\ Record(u, "answered")

Throttled(u) == /\ user[u].pc = "sending" /\ Used(address[u]) >= Limit
                /\ Record(u, "throttled")
                /\ UNCHANGED hits

\* A request that ends without its answer may have been counted.
Unanswered(u, kind) ==
    /\ Record(u, kind)
    /\ \/ UNCHANGED hits
       \/ Used(address[u]) < Limit /\ CountIt(u)

TimesOut(u) == user[u].pc = "sending" /\ now >= user[u].t /\ Unanswered(u, "timeout")

\* Faulty variant: requests are issued against phaseCtx.
CancelledWithPhase(u) == user[u].pc = "sending" /\ PhaseOver /\ Unanswered(u, "cancelled")

\* Requests are issued against the parent context.
Cancelled(u) == user[u].pc = "sending" /\ interrupted /\ Unanswered(u, "cancelled")

-----------------------------------------------------------------------------
Main == SeedAccount \/ SeedFails \/ Seeded \/ PhaseReturns \/ PauseOver

Live(u) == \/ WakeUp(u) \/ RampCut(u) \/ ThinkCut(u) \/ LeaveLoop(u) \/ Issue(u)
           \/ Answered(u) \/ Throttled(u) \/ TimesOut(u) \/ Cancelled(u)

Next == Tick \/ Interrupt \/ Expire \/ Main \/ \E u \in U : Live(u)

Spec == Init /\ [][Next]_vars

-----------------------------------------------------------------------------
TypeOK ==
    /\ now \in 0 .. MaxTime /\ until \in Nat
    /\ wanted \subseteq {"limiter", "compute"}
    /\ stage \in {"seed", "limiter", "pause", "compute", "over"}
    /\ interrupted \in BOOLEAN /\ expired \in BOOLEAN
    /\ seeded \in 0 .. 2 * Accounts
    /\ user \in [U -> [pc : {"ramp", "ready", "sending", "thinking", "done"}, t : Nat]]
    /\ address \in [U -> Nat]
    /\ kept \in [U -> [Kinds -> Nat]] /\ perUser \in [U -> [Kinds -> Nat]]
    /\ sent \in [U -> Nat] /\ nextIP \in Nat
    /\ DOMAIN hits \subseteq Nat
    /\ hits \in [DOMAIN hits -> [before : Nat, now : Nat]]

Total(samples) == samples["answered"] + samples["throttled"] + samples["timeout"]
                  + samples["cancelled"]

\* Every request sent is among the samples runPhase returns, however its user ended: at
\* the loop's condition or woken from its think time, by the deadline or by an
\* interrupt (main.go:716-733).
EverySendKept ==
    InPhase /\ (\A u \in U : user[u].pc = "done") =>
        \A u \in U : Total(perUser[u]) = sent[u]

\* "The last one in flight when the deadline passes is allowed to finish instead of
\* being cancelled and miscounted as a timeout" (main.go:669-672).
DeadlineCutsNothing == ~ interrupted => \A u \in U : kept[u]["cancelled"] = 0

\* "Unique IP per request, limiter bypassed" (main.go:241): the compute phase starts at
\* the addresses the limiter phase has used up, and the pause is long enough for none
\* of it to be throttled.
ComputeUnthrottled == stage = "compute" => \A u \in U : kept[u]["throttled"] = 0
=============================================================================
