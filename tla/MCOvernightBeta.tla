---------------------------- MODULE MCOvernightBeta ----------------------------
(* Instances of OvernightBeta for TLC; the configurations give the other       *)
(* constants.                                                                  *)
EXTENDS OvernightBeta

(* A basket of two names, and one of one. *)
MCLegs == {<<1, "hi">>, <<1, "lo">>, <<2, "hi">>}
================================================================================
