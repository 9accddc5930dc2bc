----------------------------- MODULE MCLockout ------------------------------
(* Small instances of Lockout: one account in two spellings, and another.  *)
EXTENDS Lockout, TLC

CONSTANTS alice, ALICE, bob, ka, kb

MCEmails == {alice, ALICE, bob}
MCRegistered == {alice, bob}
MCKeyOf  == (alice :> ka) @@ (ALICE :> ka) @@ (bob :> kb)

OneEmails == {alice, ALICE}
OneRegistered == {alice}
OneKeyOf == (alice :> ka) @@ (ALICE :> ka)

Symmetry == Permutations(Reqs)
=============================================================================
