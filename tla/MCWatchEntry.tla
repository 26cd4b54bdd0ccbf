----------------------------- MODULE MCWatchEntry -----------------------------
(***************************************************************************)
(* Instances of WatchEntry for TLC: two pages of one object, for channels  *)
(* that overflow and pages that overtake each other; one page of two       *)
(* objects, for liveness.                                                  *)
(***************************************************************************)
EXTENDS WatchEntry, TLC

CONSTANTS c1, c2, k1, k2

OnePage  == {c1}
TwoPages == {c1, c2}
OneKey   == {k1}
TwoKeys  == {k1, k2}

PageSymmetry == Permutations(TwoPages)
=============================================================================
