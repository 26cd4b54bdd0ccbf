------------------------------- MODULE MCToasts -------------------------------
(***************************************************************************)
(* An instance of Toasts for TLC: three messages for two toasts, so that   *)
(* one is pushed out; two goroutines that log; a channel more than the     *)
(* connections that overlap.                                               *)
(***************************************************************************)
EXTENDS Toasts
=============================================================================
