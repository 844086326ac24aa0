------------------------------ MODULE MCMergeGate ------------------------------
(* Instances of MergeGate for TLC; the configurations give the constants. *)
EXTENDS MergeGate
================================================================================
