--------------------------- MODULE MCEntryLifecycle ---------------------------
(***************************************************************************)
(* Instance of EntryLifecycle for TLC: two subscribers, so that one may    *)
(* leave while the other arrives; three timers, so that two callbacks that *)
(* could not be stopped overlap a timer that is armed; two stop channels,  *)
(* the entry's and the one of the run that follows.                        *)
(***************************************************************************)
EXTENDS EntryLifecycle

CONSTANTS c1, c2, s1, s2, t1, t2, t3

MCClient   == {c1, c2}
MCStopChan == {s1, s2}
MCTimer    == {t1, t2, t3}
=============================================================================
