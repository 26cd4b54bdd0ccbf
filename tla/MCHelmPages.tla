------------------------------ MODULE MCHelmPages ------------------------------
(***************************************************************************)
(* An instance of HelmPages for TLC: one storage driver, one release and   *)
(* one page.                                                               *)
(***************************************************************************)
EXTENDS HelmPages

CONSTANTS c1, r1, secrets

OnePage    == {c1}
OneRelease == {r1}
OneDriver  == {secrets}
InSecrets  == [k \in OneRelease |-> secrets]

\* What the items of the pages depend on. Whether a message without an object
\* is SYNCED or an error matters to isLoading and loadError only, which no
\* guard reads: states that agree on the rest have the same behaviours as far
\* as PageShowsCache can tell.
ItemsView ==
    <<cacheVars, out, owed, stored, sub, view, astray,
      [c \in Client |-> [i \in DOMAIN queue[c] |-> queue[c][i].obj]],
      [c \in Client |-> <<snap[c].items, snap[c].from, snap[c].last # NoMsg>>]>>
=============================================================================
