----------------------------- MODULE TimingCheck -----------------------------
(***************************************************************************)
(* How long a failed login takes (auth.Login and padFailure, with the      *)
(* target each replica calibrated when it started), and the load           *)
(* generator's check of it (cmd/loadtest/timing.go): logins with an        *)
(* unknown email and with a wrong password, one at a time and shuffled,    *)
(* timed in two groups.  Time is counted from a login's start; lockout     *)
(* counters outlast the check.                                             *)
(***************************************************************************)
EXTENDS Integers, FiniteSets

CONSTANTS
    Accounts,          \* the seeded accounts are 0 .. Accounts - 1
    Replicas,
    Threshold,         \* failures that lock an account (lockout.go)
    Samples, Discarded,\* kept, and before them thrown away, in each group
    Probes,            \* what the slowest verification of a calibration may take
    Fallback,          \* fallbackVerifyCost
    Lookups, Verifies, \* what the SELECT and the verification may take
    Records            \* what RecordFailure may take

TimingCheckAssumption ==
    /\ Accounts \in Nat \ {0} /\ Threshold \in Nat /\ Threshold > 2
    /\ Samples \in Nat \ {0} /\ Discarded \in Nat
    /\ Probes \subseteq Nat /\ Fallback \in Nat \ {0}
    /\ Lookups \subseteq Nat /\ Verifies \subseteq Nat /\ Records \subseteq Nat

VARIABLES
    step,      \* of runTimingTarget
    ready,     \* accounts seeded, or cleared at the end
    order,     \* kind -> attempts still to come; which comes next is the shuffle's
    made,      \* kind -> attempts made
    target,    \* replica -> baselineVerifyCost
    failures,  \* name -> its lockout counter
    login,     \* the login in flight
    group,     \* kind -> samples kept
    observed,  \* what the samples showed
    throttled  \* did the check get a 429?

vars == <<step, ready, order, made, target, failures, login, group, observed, throttled>>

Kinds    == {"absent", "wrong"}
Attempts == Samples + Discarded
Known    == 0 .. Accounts - 1
Names    == 0 .. Accounts + 2 * Attempts - 1
NoLogin  == [pc |-> "none"]
Login    == [pc : {"lookup", "verify", "record", "pad"}, kind : Kinds, name : Names,
             replica : Replicas, took : Nat]

\* CalibrateVerifyCost: a quarter more than the slowest of its probes.
Baseline(worst) == IF (worst * 5) \div 4 > 0 THEN (worst * 5) \div 4 ELSE Fallback

\* FailureJitter: anything below a quarter of the target.
Jitters(r) == IF target[r] \div 4 > 0 THEN 0 .. target[r] \div 4 - 1 ELSE {0}

Init == /\ step \in {"seed", "sample"}            \* -skip-seed
         /\ ready = 0
         /\ order = [k \in Kinds |-> Attempts] /\ made = [k \in Kinds |-> 0]
         /\ target \in [Replicas -> {Baseline(w) : w \in Probes}]
         /\ failures \in [Names -> {0}] \cup {[n \in Names |-> IF n \in Known THEN Threshold ELSE 0]}
         /\ login = NoLogin
         /\ group = [k \in Kinds |-> 0] /\ observed = {} /\ throttled = FALSE

-----------------------------------------------------------------------------
(* The check.                                                              *)

Fail == /\ step' = "failed" /\ login' = NoLogin
        /\ UNCHANGED <<ready, order, made, target, failures, group, observed>>

\* A login with the account's password, which its lock refuses; success clears the counter.
SeedLogin ==
    /\ step = "seed" /\ ready < Accounts /\ failures[ready] < Threshold
    /\ failures' = [failures EXCEPT ![ready] = 0]
    /\ ready' = ready + 1
    /\ UNCHANGED <<step, order, made, target, login, group, observed, throttled>>

SeedLocked ==
    /\ step = "seed" /\ ready < Accounts /\ failures[ready] >= Threshold
    /\ Fail /\ UNCHANGED throttled

Begin ==
    /\ step = "seed" /\ ready = Accounts
    /\ step' = "sample" /\ ready' = 0
    /\ UNCHANGED <<order, made, target, failures, login, group, observed, throttled>>

\* Where in the shuffled order the check is.
Index == made["absent"] + made["wrong"]

\* Faulty variant: one address that does not exist is as good as any.
SameName(k) == IF k = "absent" THEN Accounts ELSE Index % Accounts

\* absentEmailFor makes a new address for each attempt.
Name(k) == IF k = "absent" THEN Accounts + Index ELSE Index % Accounts

\* The counter of an account is deleted before each attempt on it.
Cleared(k) == IF k = "wrong" THEN [failures EXCEPT ![Name(k)] = 0] ELSE failures

\* The check's next attempt passes Login's validation and its lock, on some replica.
Attempt(k) ==
    /\ step = "sample" /\ login = NoLogin /\ order[k] > 0
    /\ order' = [order EXCEPT ![k] = @ - 1]
    /\ made' = [made EXCEPT ![k] = @ + 1]
    /\ failures' = Cleared(k)
    /\ Cleared(k)[Name(k)] < Threshold
    /\ \E r \in Replicas :
         login' = [pc |-> "lookup", kind |-> k, name |-> Name(k), replica |-> r, took |-> 0]
    /\ UNCHANGED <<step, ready, target, group, observed, throttled>>

\* A lock answers 429, and that ends the check.
Refused(k) ==
    /\ step = "sample" /\ login = NoLogin /\ order[k] > 0
    /\ Cleared(k)[Name(k)] >= Threshold
    /\ throttled' = TRUE
    /\ Fail

\* The first Discarded attempts of each group are not kept.
Keep(k) == made[k] > Discarded

\* An answer: a sample of its group, if it is kept.
Sample(fits, jitter, took) ==
    LET k == login.kind
    IN /\ group' = IF Keep(k) THEN [group EXCEPT ![k] = @ + 1] ELSE group
       /\ observed' = observed \cup
            {[kind |-> k, replica |-> login.replica, fits |-> fits, jitter |-> jitter, took |-> took]}
       /\ login' = NoLogin
       /\ UNCHANGED <<step, ready, order, made, target, failures, throttled>>

\* An interrupt, a client timeout (padFailure's ctx.Done among its effects), or Redis or
\* Postgres out of reach.
Abort == step \in {"seed", "sample", "clear"} /\ Fail /\ UNCHANGED throttled

Sampled ==
    /\ step = "sample" /\ login = NoLogin /\ \A k \in Kinds : order[k] = 0
    /\ step' = "clear" /\ ready' = 0
    /\ UNCHANGED <<order, made, target, failures, login, group, observed, throttled>>

Clear ==
    /\ step = "clear" /\ ready < Accounts
    /\ failures' = [failures EXCEPT ![ready] = 0]
    /\ ready' = ready + 1
    /\ UNCHANGED <<step, order, made, target, login, group, observed, throttled>>

Report ==
    /\ step = "clear" /\ ready = Accounts
    /\ step' = "reported"
    /\ UNCHANGED <<ready, order, made, target, failures, login, group, observed, throttled>>

-----------------------------------------------------------------------------
(* Login's two failures.                                                   *)

Proceed(to, cost) ==
    /\ login' = [login EXCEPT !.pc = to, !.took = @ + cost]
    /\ UNCHANGED <<step, ready, order, made, target, group, observed, throttled>>

\* The user is looked up; only a user there is has a password to verify.
LookUp == /\ login.pc = "lookup"
          /\ \E cost \in Lookups : Proceed(IF login.kind = "wrong" THEN "verify" ELSE "record", cost)
          /\ UNCHANGED failures

Verify == /\ login.pc = "verify"
          /\ \E cost \in Verifies : Proceed("record", cost)
          /\ UNCHANGED failures

RecordFailure ==
    /\ login.pc = "record"
    /\ failures' = [failures EXCEPT ![login.name] = @ + 1]
    /\ \E cost \in Records : Proceed("pad", cost)

\* Faulty variant: what the login has taken is not part of the target.
WholeTarget(jitter) == target[login.replica] + jitter

\* What padFailure still has to wait.
Remaining(jitter) == target[login.replica] + jitter - login.took

\* The timer fires, and the answer is the same 401 on either path.
PadFailure ==
    /\ login.pc = "pad"
    /\ \E jitter \in Jitters(login.replica) :
         Sample(login.took <= target[login.replica] + jitter, jitter,
                IF Remaining(jitter) > 0 THEN login.took + Remaining(jitter) ELSE login.took)

-----------------------------------------------------------------------------
Check  == SeedLogin \/ SeedLocked \/ Begin \/ Sampled \/ Clear \/ Report
          \/ \E k \in Kinds : Attempt(k) \/ Refused(k)
Server == LookUp \/ Verify \/ RecordFailure \/ PadFailure

Next == Check \/ Server \/ Abort

Spec == Init /\ [][Next]_vars

-----------------------------------------------------------------------------
TypeOK ==
    /\ step \in {"seed", "sample", "clear", "reported", "failed"}
    /\ ready \in 0 .. Accounts
    /\ order \in [Kinds -> 0 .. Attempts] /\ made \in [Kinds -> 0 .. Attempts]
    /\ target \in [Replicas -> Nat]
    /\ failures \in [Names -> 0 .. Threshold]
    /\ login = NoLogin \/ login \in Login
    /\ group \in [Kinds -> 0 .. Samples]
    /\ \A o \in observed : o.kind \in Kinds /\ o.replica \in Replicas /\ o.took \in Nat
    /\ throttled \in BOOLEAN

\* Two failed logins on one replica that drew the same jitter are answered after the same
\* time, whichever path they took, when their work fits the target (auth.go:34-47 and
\* 228-251; "both should be padded to the same calibrated window", timing.go:63).
PathsTakeTheSameTime ==
    \A a, b \in observed :
        a.replica = b.replica /\ a.jitter = b.jitter /\ a.fits /\ b.fits => a.took = b.took

\* "Without this the run turns into 429s" (timing.go:107-109): once it samples, the check
\* is never stopped by a lock, one it found included; no counter gathers a second failure
\* of its making, so that none is near a lock even when it is aborted; and a check that
\* ends leaves the accounts as if it had not been.
NeverStoppedByALock ==
    /\ ~ throttled
    /\ \A n \in Names : failures[n] \in {0, 1, Threshold}
    /\ step = "reported" => \A n \in Known : failures[n] = 0
=============================================================================
