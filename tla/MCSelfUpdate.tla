----------------------------- MODULE MCSelfUpdate -----------------------------
(***************************************************************************)
(* An instance of SelfUpdate for TLC: two updaters and two releases that   *)
(* differ in their first number one way, in their second the other way.    *)
(***************************************************************************)
EXTENDS SelfUpdate, TLC

CONSTANTS u1, u2

TwoUpdaters == {u1, u2}
TwoReleases == {<<0, 9, 0>>, <<1, 0, 0>>}

UpdaterSymmetry == Permutations(TwoUpdaters)
=============================================================================
