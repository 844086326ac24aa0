--------------------------------- MODULE Origin ---------------------------------
(***************************************************************************)
(* origin/main, which the merge gate writes and the deploy watcher reads.   *)
(* A merge goes by the surface that decides its tier and its container:     *)
(* "fc" is TIER-2, "dash" TIER-1 with the dashboard's container, "docs"     *)
(* without, "none" changes no path.  A sha is the number of merges it       *)
(* contains.  See ops/ci_scope.py.                                          *)
(***************************************************************************)
EXTENDS Integers, Sequences

CONSTANT Surfaces  \* of "dash", "docs", "fc" and "none"

ASSUME OriginConstants == Surfaces \subseteq {"dash", "docs", "fc", "none"}

VARIABLE main  \* the surface of each merge on origin/main

\* What the range between two shas brings.
Merged(a, b, surface) == \E m \in (a + 1)..b : main[m] = surface
================================================================================
