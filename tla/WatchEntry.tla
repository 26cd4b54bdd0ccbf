------------------------------ MODULE WatchEntry ------------------------------
(***************************************************************************)
(* One shared list-and-watch of kube-watch (watchmgr.go): a run goroutine  *)
(* lists and watches a resource, keeps a cache of it, and broadcasts what  *)
(* changes to the bounded channel of every subscriber, whose browser page  *)
(* (useResourceStream.ts) applies it. EntryRun models when there is a run; *)
(* this module adds what it does, the request that finds or creates the    *)
(* entry, the API server and the pages.                                    *)
(*                                                                         *)
(* The version of an object stands for its content: the k-th create,       *)
(* modify or delete of the object makes it k-th (a modification counts     *)
(* twice), so that an object exists when its version is odd. A deleted     *)
(* object's version is bookkeeping of the model, which lets a property     *)
(* tell an old deletion from a new one.                                    *)
(*                                                                         *)
(* Operators whose name begins with Bug are mutated forms of the operator  *)
(* that follows them: each shows that some property detects the fault.     *)
(***************************************************************************)
EXTENDS EntryRun, Naturals, Sequences

CONSTANTS Key,         \* cache keys: uid, else name/namespace
          MaxVer,      \* bound on what happens to one object
          MaxPending,  \* bound on the events under way in one watch
          Cap          \* capacity of a subscriber's channel (256 or more)

ASSUME CapAssumption == Cap \in Nat /\ Cap >= 2
ASSUME MaxVerAssumption == MaxVer \in Nat

VARIABLES store,    \* the API server's objects
          events,   \* changes after the last list that the watch has ahead
          stored,   \* the entry is in WatchManager.entries
          sub,      \* sub[c]: how far the request of c's page is
          pc,       \* where the live run is
          listed,   \* the list that run is broadcasting
          todo,     \* its items, then its deletions, not yet broadcast
          cache,    \* e.cache
          out,      \* the message between broadcast's cache update and its sends
          queue,    \* queue[c]: c's channel
          view,     \* view[c]: the items of c's page
          shown,    \* shown[c]: isLoading and loadError of c's page
          primed    \* subscriptions that were sent a SNAPSHOT

dataVars == <<store, events, stored, sub, pc, listed, todo, cache, out, queue,
              view, shown, primed>>
vars == <<runVars, dataVars>>

-----------------------------------------------------------------------------
Ver == 0..MaxVer
Exists(n) == n % 2 = 1
Same(m, n) == m = n \/ (~Exists(m) /\ ~Exists(n))
Nothing == [k \in Key |-> 0]

\* obj holds what the receiver has to take over. ADDED, MODIFIED and DELETED
\* are one type: the version tells a deletion, and cache, channels and page
\* treat the other two alike. STATUS is a watch's ERROR event passed on.
Snapshot     == [type |-> "SNAPSHOT", obj |-> cache]
Delta(k, n)  == [type |-> "DELTA", obj |-> [x \in {k} |-> n]]
Plain(t)     == [type |-> t, obj |-> [x \in {} |-> 0]]
Synced       == Plain("SYNCED")
Error        == Plain("ERROR")
Status       == Plain("STATUS")
NoMsg        == Plain("NONE")

Msg == [type : {"SNAPSHOT"}, obj : [Key -> Ver]]
       \cup {Delta(k, n) : k \in Key, n \in Ver}
       \cup {Synced, Error, Status}

\* What f becomes when the message is applied to it.
Apply(f, m) == [k \in Key |-> IF k \in DOMAIN m.obj THEN m.obj[k] ELSE f[k]]

Sub == {"closed", "retry", "miss", "creator", "joiner", "open"}
PC  == {"list", "items", "deletions", "synced", "open", "watching", "pause"}

WatchTypeOK ==
    /\ RunTypeOK
    /\ store \in [Key -> Ver]
    /\ events \in Seq({Delta(k, n) : k \in Key, n \in Ver})
    /\ stored \in BOOLEAN
    /\ sub \in [Client -> Sub]
    /\ pc \in PC
    /\ listed \in [Key -> Ver]
    /\ todo \subseteq Key
    /\ cache \in [Key -> Ver]
    /\ out \in Msg \cup {NoMsg}
    /\ queue \in [Client -> Seq(Msg)]
    /\ view \in [Client -> [Key -> Ver]]
    /\ shown \in [Client -> {"loading", "ready", "error"}]
    /\ primed \subseteq clients

WatchInit ==
    /\ RunInit
    /\ store \in [Key -> Ver]
    /\ events = <<>>
    /\ stored = FALSE
    /\ sub = [c \in Client |-> "closed"]
    /\ pc = "list"
    /\ listed = Nothing
    /\ todo = {}
    /\ cache = Nothing
    /\ out = NoMsg
    /\ queue = [c \in Client |-> <<>>]
    /\ view = [c \in Client |-> Nothing]
    /\ shown = [c \in Client |-> "loading"]
    /\ primed = {}

-----------------------------------------------------------------------------
(* The API server. A watch opened at the version of a list delivers every  *)
(* change after that list, in order.                                       *)

Following == phase = "live" /\ pc \in {"items", "deletions", "synced", "open", "watching"}

Change(k) ==
    \E n \in Ver :
        /\ n = store[k] + 1 \/ (Exists(store[k]) /\ n = store[k] + 2)
        /\ store' = [store EXCEPT ![k] = n]
        /\ IF Following
           THEN Len(events) < MaxPending /\ events' = Append(events, Delta(k, n))
           ELSE UNCHANGED events
        /\ UNCHANGED <<runVars, stored, sub, pc, listed, todo, cache, out, queue,
                       view, shown, primed>>

-----------------------------------------------------------------------------
(* A request of a page: getOrCreateEntry and subscribe.                    *)

Lookup(c) ==
    /\ sub[c] \in {"closed", "retry"}
    /\ sub' = [sub EXCEPT ![c] = IF stored THEN "joiner" ELSE "miss"]
    /\ UNCHANGED <<runVars, store, events, stored, pc, listed, todo, cache, out,
                   queue, view, shown, primed>>

StoreIfAbsent(c) ==
    /\ sub[c] = "miss"
    /\ stored' = TRUE
    /\ sub' = [sub EXCEPT ![c] = IF stored THEN "joiner" ELSE "creator"]
    /\ UNCHANGED <<runVars, store, events, pc, listed, todo, cache, out, queue,
                   view, shown, primed>>

\* newEntry cannot build a client for the context: the request is answered
\* with an error and the browser tries again (streamSSEError).
NewEntryFails(c) ==
    /\ sub[c] = "miss"
    /\ sub' = [sub EXCEPT ![c] = "retry"]
    /\ shown' = [shown EXCEPT ![c] = "error"]
    /\ UNCHANGED <<runVars, store, events, stored, pc, listed, todo, cache, out,
                   queue, view, primed>>

\* What addClient queues for a subscriber that did not create the entry.
BugGreeting == <<Snapshot, IF refused THEN Error ELSE NoMsg>>
Greeting == <<Snapshot, IF refused THEN Error ELSE Synced>>

Subscribe(c) ==
    /\ sub[c] \in {"creator", "joiner"}
    /\ Join(c)
    /\ sub' = [sub EXCEPT ![c] = "open"]
    /\ IF sub[c] = "joiner"
       THEN queue' = [queue EXCEPT ![c] = Greeting] /\ primed' = primed \cup {c}
       ELSE UNCHANGED <<queue, primed>>
    /\ UNCHANGED <<store, events, stored, pc, listed, todo, cache, out, view, shown>>

\* The connection ends and EventSource will try again: the page keeps its
\* items and reports the interruption.
Disconnect(c) ==
    /\ Leave(c)
    /\ sub' = [sub EXCEPT ![c] = "retry"]
    /\ queue' = [queue EXCEPT ![c] = <<>>]
    /\ primed' = primed \ {c}
    /\ shown' = [shown EXCEPT ![c] = "error"]
    /\ UNCHANGED <<store, events, stored, pc, listed, todo, cache, out, view>>

\* The user turns to another resource: the page forgets its items.
ClosePage(c) ==
    /\ Leave(c)
    /\ sub' = [sub EXCEPT ![c] = "closed"]
    /\ queue' = [queue EXCEPT ![c] = <<>>]
    /\ primed' = primed \ {c}
    /\ shown' = [shown EXCEPT ![c] = "loading"]
    /\ view' = [view EXCEPT ![c] = Nothing]
    /\ UNCHANGED <<store, events, stored, pc, listed, todo, cache, out>>

\* What a message makes of isLoading and loadError. A passed on STATUS has no
\* "error" field, and the page ignores it.
ShownAfter(m, before) ==
    CASE m.type \in {"SNAPSHOT", "DELTA", "SYNCED"} -> "ready"
      [] m.type = "ERROR" -> "error"
      [] OTHER -> before

\* streamSSE takes a message out of the channel and the page applies it.
Deliver(c) ==
    /\ c \in clients
    /\ queue[c] # <<>>
    /\ queue' = [queue EXCEPT ![c] = Tail(@)]
    /\ view' = [view EXCEPT ![c] = Apply(@, Head(queue[c]))]
    /\ shown' = [shown EXCEPT ![c] = ShownAfter(Head(queue[c]), @)]
    /\ UNCHANGED <<runVars, store, events, stored, sub, pc, listed, todo, cache,
                   out, primed>>

-----------------------------------------------------------------------------
(* broadcast: the cache is updated in one critical section, by the action  *)
(* that sets out, and the message is sent to all subscribers in another.   *)

BugPushDrops(q, m) == IF Len(q) < Cap THEN Append(q, m) ELSE q
BugPushForgets(q, m) == IF Len(q) < Cap THEN Append(q, m) ELSE <<Snapshot>>
BugPushOvertakes(q, m) ==
    IF Len(q) < Cap THEN Append(q, m) ELSE <<Snapshot>> \o Tail(q)
Push(q, m) ==
    IF Len(q) < Cap THEN Append(q, m)
    ELSE IF m.type = "DELTA" THEN <<Snapshot>>
    ELSE <<Snapshot, m>>

Send ==
    /\ out # NoMsg
    /\ queue' = [c \in Client |-> IF c \in clients THEN Push(queue[c], out) ELSE queue[c]]
    /\ primed' = primed \cup {c \in clients : Len(queue[c]) >= Cap}
    /\ out' = NoMsg
    /\ UNCHANGED <<runVars, store, events, stored, sub, pc, listed, todo, cache,
                   view, shown>>

\* The run executes its next statement: no broadcast is under way.
RunAt(p) == phase = "live" /\ pc = p /\ out = NoMsg

\* Locals of a run are forgotten when it returns, events when no watch will
\* deliver them.
Forgotten == listed' = Nothing /\ todo' = {} /\ events' = <<>>

-----------------------------------------------------------------------------
(* run: the list.                                                          *)

ListOk ==
    /\ RunAt("list")
    /\ Listed
    /\ listed' = store
    /\ todo' = {k \in Key : Exists(store[k])}
    /\ events' = <<>>
    /\ pc' = "items"
    /\ UNCHANGED <<store, stored, sub, cache, out, queue, view, shown, primed>>

\* Any other error, one made by the closed stop channel included.
ListFails ==
    /\ RunAt("list")
    /\ out' = Error
    /\ pc' = "pause"
    /\ UNCHANGED <<runVars, store, events, stored, sub, listed, todo, cache,
                   queue, view, shown, primed>>

BroadcastItem(k) ==
    /\ RunAt("items")
    /\ k \in todo
    /\ todo' = todo \ {k}
    /\ cache' = [cache EXCEPT ![k] = listed[k]]
    /\ out' = Delta(k, listed[k])
    /\ UNCHANGED <<runVars, store, events, stored, sub, pc, listed, queue, view,
                   shown, primed>>

\* What deleteMissingCached removes.
BugMissing == {}
Missing == {k \in Key : Exists(cache[k]) /\ ~Exists(listed[k])}

\* It removes all of it from the cache before the first DELETED is sent.
DeleteMissingCached ==
    /\ RunAt("items")
    /\ todo = {}
    /\ todo' = Missing
    /\ cache' = [k \in Key |-> IF k \in Missing THEN listed[k] ELSE cache[k]]
    /\ pc' = "deletions"
    /\ UNCHANGED <<runVars, store, events, stored, sub, listed, out, queue, view,
                   shown, primed>>

BroadcastDeletion(k) ==
    /\ RunAt("deletions")
    /\ k \in todo
    /\ todo' = todo \ {k}
    /\ cache' = [cache EXCEPT ![k] = listed[k]]
    /\ out' = Delta(k, listed[k])
    /\ UNCHANGED <<runVars, store, events, stored, sub, pc, listed, queue, view,
                   shown, primed>>

BugPushSnapshot(q) == Append(q, Snapshot)
PushSnapshot(q) == IF Len(q) < Cap THEN Append(q, Snapshot) ELSE <<Snapshot>>

BroadcastSnapshot ==
    /\ RunAt("deletions")
    /\ todo = {}
    /\ queue' = [c \in Client |-> IF c \in clients THEN PushSnapshot(queue[c]) ELSE queue[c]]
    /\ primed' = clients
    /\ listed' = Nothing
    /\ pc' = "synced"
    /\ UNCHANGED <<runVars, store, events, stored, sub, todo, cache, out, view, shown>>

BroadcastSynced ==
    /\ RunAt("synced")
    /\ out' = Synced
    /\ pc' = "open"
    /\ UNCHANGED <<runVars, store, events, stored, sub, listed, todo, cache, queue,
                   view, shown, primed>>

-----------------------------------------------------------------------------
(* run: the watch.                                                         *)

WatchOpens ==
    /\ RunAt("open")
    /\ pc' = "watching"
    /\ UNCHANGED <<runVars, store, events, stored, sub, listed, todo, cache, out,
                   queue, view, shown, primed>>

\* The watch cannot be opened, or it ends with 410 Expired: the run says so
\* and lists again.
WatchFails ==
    /\ RunAt("open") \/ RunAt("watching")
    /\ out' = Error
    /\ pc' = "pause"
    /\ Forgotten
    /\ UNCHANGED <<runVars, store, stored, sub, cache, queue, view, shown, primed>>

Receive ==
    /\ RunAt("watching")
    /\ events # <<>>
    /\ events' = Tail(events)
    /\ cache' = Apply(cache, Head(events))
    /\ out' = Head(events)
    /\ UNCHANGED <<runVars, store, stored, sub, pc, listed, todo, queue, view,
                   shown, primed>>

\* An ERROR event that is no expiry is passed on and the watch goes on.
WatchReports ==
    /\ RunAt("watching")
    /\ out' = Status
    /\ UNCHANGED <<runVars, store, events, stored, sub, pc, listed, todo, cache,
                   queue, view, shown, primed>>

\* The resync timer (10 min), or the watch's channel was closed.
WatchEnds ==
    /\ RunAt("watching")
    /\ pc' = "pause"
    /\ Forgotten
    /\ UNCHANGED <<runVars, store, stored, sub, cache, out, queue, view, shown, primed>>

PauseOver ==
    /\ RunAt("pause")
    /\ pc' = "list"
    /\ UNCHANGED <<runVars, store, events, stored, sub, listed, todo, cache, out,
                   queue, view, shown, primed>>

-----------------------------------------------------------------------------
(* run: how it returns.                                                    *)

\* The list or the watch is forbidden: setTerminalError, and its broadcast.
ForbiddenReturn ==
    /\ RunAt("list") \/ RunAt("open")
    /\ Forbidden
    /\ out' = Error
    /\ pc' = "list"
    /\ Forgotten
    /\ UNCHANGED <<store, stored, sub, cache, queue, view, shown, primed>>

\* The places where the loop looks at its stop channel.
BugStopPoints == {"watching"}
StopPoints == {"watching", "pause"}

StopReturn ==
    /\ \E p \in StopPoints : RunAt(p)
    /\ Stopped
    /\ pc' = "list"
    /\ Forgotten
    /\ UNCHANGED <<store, stored, sub, cache, out, queue, view, shown, primed>>

RunStarts == Start /\ UNCHANGED dataVars
RunEnds   == out = NoMsg /\ Ended /\ UNCHANGED dataVars
RunIsStopped == Stop /\ UNCHANGED dataVars

-----------------------------------------------------------------------------
RunStep ==
    \/ ListOk \/ ListFails
    \/ \E k \in Key : BroadcastItem(k) \/ BroadcastDeletion(k)
    \/ DeleteMissingCached \/ BroadcastSnapshot \/ BroadcastSynced
    \/ WatchOpens \/ WatchFails \/ Receive \/ WatchReports \/ WatchEnds \/ PauseOver
    \/ ForbiddenReturn \/ StopReturn

WatchNext ==
    \/ \E k \in Key : Change(k)
    \/ \E c \in Client : \/ Lookup(c) \/ StoreIfAbsent(c) \/ NewEntryFails(c)
                         \/ Subscribe(c)
                         \/ Disconnect(c) \/ ClosePage(c) \/ Deliver(c)
    \/ Send \/ RunStep
    \/ RunStarts \/ RunEnds \/ RunIsStopped

WatchSpec == WatchInit /\ [][WatchNext]_vars

\* The promise of EntryRun; the run goes on with its work and a broadcast with
\* its sends; a page's connection drains its channel; a request that began is
\* carried through. The API server may fail and expire as often as it likes
\* but not always when it is asked for a list. The resync timer and the stop
\* channel stay ready in a select, which picks among the ready at random, so
\* they are not overlooked forever (SF).
WatchFairness ==
    /\ WF_vars(RunIsStopped) /\ WF_vars(RunStarts) /\ WF_vars(RunEnds)
    /\ WF_vars(Send) /\ WF_vars(RunStep)
    /\ SF_vars(ListOk) /\ SF_vars(WatchEnds) /\ SF_vars(StopReturn)
    /\ \A c \in Client : /\ WF_vars(Deliver(c))
                         /\ WF_vars(StoreIfAbsent(c)) /\ WF_vars(Subscribe(c))

FairWatchSpec == WatchSpec /\ WatchFairness

-----------------------------------------------------------------------------
\* What f says of k once the messages of the sequence are applied to it.
LastValue(seq, f, k) ==
    LET about == {i \in 1..Len(seq) : k \in DOMAIN seq[i].obj}
    IN  IF about = {} THEN f[k]
        ELSE LET i == CHOOSE i \in about : \A j \in about : j <= i
             IN  seq[i].obj[k]

\* Updated in the cache and still to be sent to the subscribers.
InFlight(k) == k \in DOMAIN out.obj \/ (pc = "deletions" /\ k \in todo)

\* A page that was sent a snapshot will, with what is in its channel, show the
\* cache: whatever subscribes, reads slowly and overflows in between the two
\* critical sections of broadcast, no change and above all no deletion is lost.
NothingLost ==
    \A c \in primed, k \in Key :
        InFlight(k) \/ LastValue(queue[c], view[c], k) = cache[k]

\* From deleteMissingCached to the end of the watch, the cache and the events
\* the watch has ahead make up the cluster's state: no object falls between
\* the list and the watch that starts at the list's version.
HandoffComplete ==
    phase = "live" /\ pc \in {"deletions", "synced", "open", "watching"}
        => \A k \in Key : Same(LastValue(events, cache, k), store[k])

\* e.mu is held during a send that does not look for room (ch <- snapshot), so
\* the channel must have it: such a send would block all of the entry.
SendsNeverBlock == \A c \in Client : Len(queue[c]) <= Cap

\* A run that ends with subscribers was refused access, and every page it ever
\* sent anything to ends up with the error: no snapshot or late message that
\* clears loadError comes after it. A page that was told nothing and still loads
\* is left out: the overtaken creator that joins after the refusal.
RefusalIsLast ==
    phase = "none" =>
        \A c \in clients :
            IF queue[c] = <<>> THEN shown[c] \in {"loading", "error"}
            ELSE queue[c][Len(queue[c])].type = "ERROR"

\* No page shows a version the cluster never had, and none goes back to an
\* earlier one: a live event never overtakes a snapshot that would undo it.
Page == INSTANCE ReplicaView WITH pages <- {c \in Client : sub[c] # "closed"}
OnlyForward == Page!ReplicaSpec

\* A page that stays connected to an entry that is not refused ends up with
\* what the cluster holds, through failed lists, expired watches, overflows
\* and a watch that delivers nothing.
Converges ==
    \A c \in Client :
        <>[](c \in clients /\ ~refused)
            => <>[](\A k \in Key : Same(view[c][k], store[k]))

\* The run of an entry without subscribers ends, wherever it is in its loop.
StopsWhenIdle == clients = {} ~> (phase = "none" \/ clients # {})
=============================================================================
