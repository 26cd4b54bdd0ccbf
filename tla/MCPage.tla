-------------------------------- MODULE MCPage --------------------------------
(***************************************************************************)
(* An instance of Page for TLC: one context, two pods and a deployment.    *)
(* The text of the label filter is compared with what it should find, over *)
(* small texts and labels.                                                 *)
(***************************************************************************)
EXTENDS Page, FilterReference, TLC

Container(ready, restarts, state, reason) ==
  [ready |-> ready, restarts |-> restarts, state |-> state, reason |-> reason]

Blank == [key |-> "", name |-> <<>>, labels |-> [x \in {} |-> <<>>], statuses |-> <<>>,
          others |-> <<>>, phase |-> "", containers |-> 0, replicas |-> 0,
          readyReplicas |-> 0, status |-> ""]

Crashing == [Blank EXCEPT !.key = "p1", !.name = <<"a", "p", "i">>,
               !.labels = <<"app">> :> <<"api">>, !.phase = "Running", !.containers = 2,
               !.statuses = <<Container(TRUE, 0, "running", ""),
                              Container(FALSE, 3, "waiting", "CrashLoopBackOff")>>]
Finished == [Blank EXCEPT !.key = "p2", !.name = <<"j", "o", "b">>,
               !.phase = "Succeeded", !.containers = 1,
               !.statuses = <<Container(FALSE, 0, "terminated", "")>>]
Scaling == [Blank EXCEPT !.key = "d1", !.name = <<"a", "p", "i">>,
              !.labels = <<"app">> :> <<>>, !.replicas = 2, !.readyReplicas = 1]

Pods == [ctx |-> "dev", resource |-> "pods"]
Deployments == [ctx |-> "dev", resource |-> "deployments"]
MCObject == Pods :> {Crashing, Finished} @@ Deployments :> {Scaling}

MCFilters == {EmptyFilters,
              [EmptyFilters EXCEPT !.restartsOnly = TRUE],
              [EmptyFilters EXCEPT !.status = "CrashLoopBackOff"],
              [EmptyFilters EXCEPT !.labels = <<"app", "colon", "blank", "api">>]}

MCPaths == {<<>>, <<"view", "dev", "pods">>, <<"view", "dev", "jobs2">>, <<"about">>}
=============================================================================
