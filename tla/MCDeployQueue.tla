----------------------------- MODULE MCDeployQueue -----------------------------
(* Instances of DeployQueue for TLC; the configurations give the constants. *)
EXTENDS DeployQueue
=============================================================================
