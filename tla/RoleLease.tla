------------------------------ MODULE RoleLease ------------------------------
(***************************************************************************)
(* What a gated route promises, without tokens: whoever is admitted with a *)
(* role held it at some instant of the last Bound ticks.  A role is leased *)
(* and a role taken away runs out; it is not revoked.                      *)
(***************************************************************************)
EXTENDS Integers

CONSTANTS Users, Roles, Gone, Bound, MaxTime

VARIABLES
    clock,
    role,      \* user -> its role, or Gone
    lapsed,    \* the roles users had, with the instant they last lost them
    answer     \* of the last call to a gated route since time or a role changed

vars == <<clock, role, lapsed, answer>>

None     == [status |-> 0]
Refusals == [status : {401, 403}]
Admission(u, r) == [status |-> 200, user |-> u, gate |-> r]

\* Did user u hold role r at instant t, or at some instant since?
HeldSince(u, r, t) ==
    \/ role[u] = r
    \/ \E l \in lapsed : l.user = u /\ l.role = r /\ l.at >= t

Init == /\ clock = 0
        /\ role \in [Users -> Roles \cup {Gone}]
        /\ lapsed = {}
        /\ answer = None

Tick == /\ clock < MaxTime
        /\ clock' = clock + 1
        /\ answer' = None
        /\ UNCHANGED <<role, lapsed>>

\* The roles lost once u loses the one it has.
Lapse(u) ==
    IF role[u] = Gone THEN lapsed
    ELSE {l \in lapsed : l.user # u \/ l.role # role[u]}
         \cup {[user |-> u, role |-> role[u], at |-> clock]}

ChangeRole(u) ==
    /\ \E r \in (Roles \cup {Gone}) \ {role[u]} : role' = [role EXCEPT ![u] = r]
    /\ lapsed' = Lapse(u)
    /\ answer' = None
    /\ UNCHANGED clock

Admit(u, r) ==
    /\ HeldSince(u, r, clock - Bound)
    /\ answer' = Admission(u, r)
    /\ UNCHANGED <<clock, role, lapsed>>

Refuse ==
    /\ answer' \in Refusals
    /\ UNCHANGED <<clock, role, lapsed>>

Next == \/ Tick \/ Refuse
        \/ \E u \in Users : ChangeRole(u) \/ \E r \in Roles : Admit(u, r)

Spec == Init /\ [][Next]_vars
=============================================================================
