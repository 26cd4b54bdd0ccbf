------------------------------ MODULE MCDetails ------------------------------
(***************************************************************************)
(* An instance of Details for TLC: two pods of one name, the second one    *)
(* created after the first, and events that name them by uid or by name;   *)
(* the same as two Helm releases. The pure functions of YamlEditor are     *)
(* compared with reference definitions over small documents.               *)
(***************************************************************************)
EXTENDS Details, EditorReference, TLC

Of(kind, uid, name) == [kind |-> kind, uid |-> uid, name |-> name, namespace |-> "prod"]

MCSubject == "old" :> Of("Pod", "old", "api") @@ "new" :> Of("Pod", "new", "api")
MCMaxVersion == "pods" :> 1 @@ "helmreleases" :> 3
MCEvent == {[id |-> 1, involved |-> Of("Pod", "old", "api")],
            [id |-> 2, involved |-> Of("", "", "api")]}
=============================================================================
