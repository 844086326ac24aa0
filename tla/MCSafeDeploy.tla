------------------------------ MODULE MCSafeDeploy ------------------------------
(* Instances of SafeDeploy for TLC; the configurations give the constants. *)
EXTENDS SafeDeploy
=============================================================================
