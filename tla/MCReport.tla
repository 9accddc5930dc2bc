------------------------------- MODULE MCReport -------------------------------
(* A small instance of Report: the phases of a login run and of a health run. *)
EXTENDS Report

MCPlans == {<<"limiter", "compute">>, <<"limiter">>, <<"compute">>, <<"health">>}
=============================================================================
