----------------------------- MODULE MCSessions -----------------------------
(* Small instances of Sessions for TLC.                                    *)
EXTENDS Sessions, TLC

\* Users, tokens and requests are interchangeable (safety runs only).
Symmetry == Permutations(Users) \cup Permutations(Tokens) \cup Permutations(Reqs)
=============================================================================
