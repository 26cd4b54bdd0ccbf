------------------------------ MODULE MCLogTail ------------------------------
(***************************************************************************)
(* An instance of LogTail for TLC: a pod with an init container and a      *)
(* container that is followed.                                             *)
(***************************************************************************)
EXTENDS LogTail, TLC

MCMaxLines == "init" :> 1 @@ "app" :> 3
MCContainers == <<"init", "app">>
=============================================================================
