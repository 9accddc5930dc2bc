---------------------------- MODULE MCLockoutModes ----------------------------
(* Lockout in two modes, one per behaviour: nothing fails, and anything may. *)
(* The second has one account, the first another one beside it.            *)
EXTENDS MCLockout

VARIABLE faulty

Failing == INSTANCE Lockout WITH
              Faults <- TRUE, GuessCap <- 4,
              Emails <- OneEmails, Registered <- OneRegistered, KeyOf <- OneKeyOf

Clean(A) == ~ faulty /\ A /\ UNCHANGED faulty

ModesInit == faulty \in BOOLEAN /\ Init

ModesNext == Clean(Next) \/ (faulty /\ Failing!Next /\ UNCHANGED faulty)

\* Handlers that go on and time that passes are asked for where nothing fails.
ModesSpec ==
    /\ ModesInit
    /\ [][ModesNext]_<<vars, faulty>>
    /\ WF_<<vars, faulty>>(Clean(Tick))
    /\ \A r \in Reqs : WF_<<vars, faulty>>(Clean(Serve(r)))

\* CounterHasWindow holds while nothing fails (lockout.go:36-40).
WindowWithoutFaults == ~ faulty => CounterHasWindow

\* So does the budget of guesses (lockout.go:50 against auth.go:244-248).
BudgetWithoutFaults == ~ faulty => GuessesBounded

\* So do locks that end (lockout.go:37).
LocksEndWithoutFaults == faulty \/ LocksEnd
=============================================================================
