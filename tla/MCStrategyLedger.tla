--------------------------- MODULE MCStrategyLedger ---------------------------
(* Instances of StrategyLedger for TLC; the configurations give the         *)
(* constants. *)
EXTENDS StrategyLedger
CONSTANTS c1, c2
=============================================================================
