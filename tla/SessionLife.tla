----------------------------- MODULE SessionLife -----------------------------
(***************************************************************************)
(* What the refresh cookie promises a user: a session is one thing.  A     *)
(* login begins it; it opens when its first token is recorded; a rotation  *)
(* claims it and opens it again under the next token; it closes for good   *)
(* when it is revoked, lapses or is lost.  It is never open twice, never   *)
(* open while a rotation holds it, and never comes back.                   *)
(***************************************************************************)
CONSTANT Ids             \* names a session can have

VARIABLES phase,         \* session -> where it is in its life
          ended          \* sessions a logout has revoked

vars == <<phase, ended>>

Phases == {"none", "pending", "open", "claimed", "closed"}

Init == /\ phase = [s \in Ids |-> "none"]
        /\ ended = {}

Move(s, from, to) == /\ phase[s] \in from
                     /\ phase' = [phase EXCEPT ![s] = to]

\* The login that starts s has been accepted.
Begin(s) == Move(s, {"none"}, "pending") /\ UNCHANGED ended

\* The current token of s is on record: s can be refreshed or revoked.
Open(s) == Move(s, {"pending", "claimed"}, "open") /\ UNCHANGED ended

\* One rotation takes s.
Claim(s) == Move(s, {"open"}, "claimed") /\ UNCHANGED ended

\* A logout revokes s.
Revoke(s) == Move(s, {"open"}, "closed") /\ ended' = ended \cup {s}

\* Time or a failure puts an end to some sessions.
Lose(S) == /\ S # {}
           /\ \A s \in S : phase[s] \in {"pending", "open", "claimed"}
           /\ phase' = [s \in Ids |-> IF s \in S THEN "closed" ELSE phase[s]]
           /\ UNCHANGED ended

Next == \/ \E s \in Ids : Begin(s) \/ Open(s) \/ Claim(s) \/ Revoke(s)
        \/ \E S \in SUBSET Ids : Lose(S)

Spec == Init /\ [][Next]_vars

\* A login or a rotation that has begun does not stay half done.
Settle(s) == Open(s) \/ (phase[s] # "open" /\ Lose({s}))

FairSpec == Spec /\ \A s \in Ids : WF_vars(Settle(s))
=============================================================================
