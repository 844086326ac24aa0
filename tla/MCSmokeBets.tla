----------------------------- MODULE MCSmokeBets -----------------------------
(* Instances of SmokeBets for TLC; the configurations give the constants. *)
EXTENDS SmokeBets
=============================================================================
