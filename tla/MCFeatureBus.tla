---------------------------- MODULE MCFeatureBus ----------------------------
(* Instances of FeatureBus for TLC.  Release 1 computes the reader's feature *)
(* anew, release 2 leaves it out; the contract follows with the image of 1.  *)
EXTENDS FeatureBus
CONSTANTS r1, s1, s2

MCOffers ==
  [v \in Releases |-> [r \in Readers |-> CASE v = 0 -> "v1" [] v = 1 -> "v2" [] OTHER -> Absent]]
MCPin == [v \in Releases |-> [r \in Readers |-> IF v = 0 THEN "v1" ELSE "v2"]]
=============================================================================
