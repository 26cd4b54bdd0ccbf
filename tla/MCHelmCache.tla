------------------------------ MODULE MCHelmCache ------------------------------
(***************************************************************************)
(* Instances of HelmCache for TLC: one release, which one driver stores,   *)
(* with a second driver that lists nothing, fails and is refused by        *)
(* itself, or without it.                                                  *)
(***************************************************************************)
EXTENDS HelmCache

CONSTANTS c1, r1, secrets, configmaps

OneClient  == {c1}
OneRelease == {r1}
OneDriver  == {secrets}
TwoDrivers == {secrets, configmaps}
InSecrets  == [k \in OneRelease |-> secrets]

\* What the safety properties depend on. That the watch of a driver was refused is
\* for the pages: no guard reads it, as only a refused list leaves the driver out.
SkipView == <<runVars, storageVars, refreshVars, {d \in Driver : storageErr[d] = "list"}>>
=============================================================================
