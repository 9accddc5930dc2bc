----------------------------- MODULE MCAccounts -----------------------------
(* A small instance of Accounts for TLC.                                   *)
EXTENDS Accounts, TLC

\* Emails, ids and registrations are interchangeable.
Symmetry == Permutations(Emails) \cup Permutations(Ids) \cup Permutations(Reqs)
=============================================================================
