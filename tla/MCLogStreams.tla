----------------------------- MODULE MCLogStreams -----------------------------
(***************************************************************************)
(* Instance of LogStreams for TLC: two pods, so that one is followed while *)
(* the other comes and goes, and two streams, so that the stream of a pod  *)
(* and its stopped predecessor overlap.                                    *)
(***************************************************************************)
EXTENDS LogStreams

CONSTANTS p1, p2, s1, s2

TwoPods    == {p1, p2}
TwoStreams == {s1, s2}
=============================================================================
