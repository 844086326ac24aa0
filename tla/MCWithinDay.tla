----------------------------- MODULE MCWithinDay -----------------------------
(* Instances of WithinDay for TLC.  g1 has two commits around one of g2. *)
EXTENDS WithinDay, TLC
CONSTANTS g1, g2

OwnerTwo == (1 :> g1) @@ (2 :> g2) @@ (3 :> g1)
OwnerEach == (1 :> g1) @@ (2 :> g2)

(* Version 0 differs between live and backfill.  Commit 1 mends the         *)
(* streaming path, 2 the batch path, 3 spoils both.                         *)
LiveValues == <<"b", "a", "b">>
BatchValues == <<"b", "a", "a">>
MCLiveOf == [v \in Versions |-> IF v = 0 THEN "a" ELSE LiveValues[v]]
MCBatchOf == [v \in Versions |-> IF v = 0 THEN "b" ELSE BatchValues[v]]

(* Or all is well and commit 1 is a refactoring, 2 a change of values. *)
RefactoredOf == [v \in Versions |-> IF v = 2 THEN "b" ELSE "a"]

SameFeatures == [v \in Versions |-> "x"]
ThirdAddsOne == [v \in Versions |-> IF v = 3 THEN "xy" ELSE "x"]
==============================================================================
