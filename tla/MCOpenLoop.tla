----------------------------- MODULE MCOpenLoop -----------------------------
(* Small instances of OpenLoop for TLC.                                    *)
EXTENDS OpenLoop
=============================================================================
