------------------------------ MODULE ReplicaView ------------------------------
(***************************************************************************)
(* What a resource page of kube-watch promises its user: it shows, for     *)
(* every object, a version that the cluster has or had, and never goes     *)
(* back to an earlier one. It says nothing of lists, watches, caches,      *)
(* queues or reconnections; WatchEntry implements it.                      *)
(*                                                                         *)
(* Versions count what happened to an object: it exists when the number is *)
(* odd. Version 0 of every object is the empty page.                       *)
(***************************************************************************)
EXTENDS Naturals

CONSTANTS Client, Key, MaxVer

VARIABLES store,  \* what the cluster holds
          pages,  \* the pages that are open
          view    \* what each page shows

replicaVars == <<store, pages, view>>

Empty == [k \in Key |-> 0]

ReplicaInit ==
    /\ store \in [Key -> 0..MaxVer]
    /\ pages = {}
    /\ view = [c \in Client |-> Empty]

\* Somebody creates, modifies or deletes an object.
Change(k) ==
    /\ \E n \in 0..MaxVer : n > store[k] /\ store' = [store EXCEPT ![k] = n]
    /\ UNCHANGED <<pages, view>>

Open(c) ==
    /\ pages' = pages \cup {c}
    /\ UNCHANGED <<store, view>>

\* The page moves forward, each object by any distance.
Refresh(c) ==
    /\ c \in pages
    /\ \E now \in [Key -> 0..MaxVer] :
          /\ \A k \in Key : view[c][k] <= now[k] /\ now[k] <= store[k]
          /\ view' = [view EXCEPT ![c] = now]
    /\ UNCHANGED <<store, pages>>

Close(c) ==
    /\ pages' = pages \ {c}
    /\ view' = [view EXCEPT ![c] = Empty]
    /\ UNCHANGED store

ReplicaNext ==
    \/ \E k \in Key : Change(k)
    \/ \E c \in Client : Open(c) \/ Refresh(c) \/ Close(c)

ReplicaSpec == ReplicaInit /\ [][ReplicaNext]_replicaVars
=============================================================================
