--------------------------- MODULE AtomicRegister ----------------------------
(***************************************************************************)
(* What POST /register promises: whatever registrations run at once, each  *)
(* behaves as if it happened at one instant between its arrival and its    *)
(* answer.  At that instant the email is free and gets its one account, or *)
(* is taken and the answer is a conflict; a registration that fails says   *)
(* nothing of either.                                                      *)
(***************************************************************************)
CONSTANTS Emails, Calls, NoEmail

VARIABLES taken,   \* emails that have an account
          call     \* registration -> the email it asks for, and its outcome

vars == <<taken, call>>

Free == [email |-> NoEmail, outcome |-> "none"]

Init == /\ taken = {}
        /\ call = [c \in Calls |-> Free]

Becomes(c, outcome) == call' = [call EXCEPT ![c] = [@ EXCEPT !.outcome = outcome]]
Undecided(c)        == call[c].email # NoEmail /\ call[c].outcome = "none"

Invoke(c, e) == /\ call[c] = Free
                /\ call' = [call EXCEPT ![c] = [email |-> e, outcome |-> "none"]]
                /\ UNCHANGED taken

Create(c) == /\ Undecided(c)
             /\ call[c].email \notin taken
             /\ taken' = taken \cup {call[c].email}
             /\ Becomes(c, "created")

Conflict(c) == /\ Undecided(c)
               /\ call[c].email \in taken
               /\ Becomes(c, "conflict")
               /\ UNCHANGED taken

\* A failure may come after the account was created.
Fail(c) == /\ Undecided(c)
           /\ taken' \in {taken, taken \cup {call[c].email}}
           /\ Becomes(c, "failed")

Return(c) == /\ call[c] # Free
             /\ call' = [call EXCEPT ![c] = Free]
             /\ UNCHANGED taken

Next == \E c \in Calls :
           \/ \E e \in Emails : Invoke(c, e)
           \/ Create(c) \/ Conflict(c) \/ Fail(c) \/ Return(c)

Spec == Init /\ [][Next]_vars
=============================================================================
