------------------------------- MODULE HelmPages -------------------------------
(***************************************************************************)
(* The Helm releases view seen from its pages: HelmCache, with what its    *)
(* steps send, the subscribers' channels, the goroutine that sends a new   *)
(* subscriber the cached releases, and the page (useResourceStream.ts).    *)
(* Sends to a full channel are dropped.                                    *)
(***************************************************************************)
EXTENDS HelmCache, Sequences

CONSTANT Cap        \* capacity of a subscriber's channel (256 or more)

ASSUME CapAssumption == Cap \in Nat \ {0}

VARIABLES out,      \* a broadcast of the run, its cache update done
          owed,     \* drivers whose error is recorded and not yet sent
          terminal, \* e.terminalError # nil
          stored,   \* the entry is in HelmManager.entries
          sub,      \* sub[c]: how far the request of c's page is
          queue,    \* queue[c]: c's channel
          snap,     \* snap[c]: what sendInitialSnapshot has still to send
          view,     \* view[c]: the items of c's page
          shown,    \* shown[c]: isLoading and loadError of c's page
          astray    \* astray[c]: releases c was not told of in order (history)

sendVars == <<out, owed, terminal>>
pageVars == <<stored, sub, queue, snap, view, shown, astray>>
vars     == <<cacheVars, sendVars, pageVars>>

-----------------------------------------------------------------------------
Delta(k, n) == [type |-> "DELTA", obj |-> [x \in {k} |-> n]]
Plain(t)    == [type |-> t, obj |-> [x \in {} |-> 0]]
Synced      == Plain("SYNCED")
Error       == Plain("ERROR")
NoMsg       == Plain("NONE")
Msg         == {Delta(k, n) : k \in Release, n \in Ver} \cup {Synced, Error}

NoSnap == [items |-> {}, from |-> Nothing, last |-> NoMsg]

PagesTypeOK ==
    /\ CacheTypeOK
    /\ out \in Msg \cup {NoMsg}
    /\ owed \subseteq Driver
    /\ terminal \in BOOLEAN
    /\ stored \in BOOLEAN
    /\ sub \in [Client -> {"closed", "retry", "miss", "creator", "joiner", "open"}]
    /\ queue \in [Client -> Seq(Msg)] /\ \A c \in Client : Len(queue[c]) <= Cap
    /\ snap \in [Client -> [items : SUBSET Release, from : [Release -> Ver],
                            last : {Synced, Error, NoMsg}]]
    /\ view \in [Client -> [Release -> Ver]]
    /\ shown \in [Client -> {"loading", "ready", "error"}]
    /\ astray \in [Client -> SUBSET Release]

PagesInit ==
    /\ CacheInit
    /\ out = NoMsg
    /\ owed = {}
    /\ terminal = FALSE
    /\ stored = FALSE
    /\ sub = [c \in Client |-> "closed"]
    /\ queue = [c \in Client |-> <<>>]
    /\ snap = [c \in Client |-> NoSnap]
    /\ view = [c \in Client |-> Nothing]
    /\ shown = [c \in Client |-> "loading"]
    /\ astray = [c \in Client |-> {}]

-----------------------------------------------------------------------------
(* sendToClients: the subscribers are copied under e.mu, and a message that *)
(* finds no room in a channel is dropped.                                  *)

HasRoom(c) == Len(queue[c]) < Cap
Sent(m) == [c \in Client |-> IF c \in clients /\ HasRoom(c)
                             THEN Append(queue[c], m) ELSE queue[c]]
DroppedBy(m) == [c \in Client |-> IF c \in clients /\ ~HasRoom(c)
                                  THEN astray[c] \cup DOMAIN m.obj ELSE astray[c]]

Send ==
    /\ out # NoMsg
    /\ queue' = Sent(out)
    /\ astray' = DroppedBy(out)
    /\ out' = NoMsg
    /\ UNCHANGED <<cacheVars, owed, terminal, stored, sub, snap, view, shown>>

\* The steps of the run and of its goroutines, and what they broadcast.
Quietly(step) == step /\ UNCHANGED <<sendVars, pageVars>>
RunDoes(step, m, err) ==
    /\ step
    /\ out = NoMsg /\ out' = m
    /\ terminal' = err
    /\ UNCHANGED <<owed, pageVars>>
RunQuietly(step) == RunDoes(step, NoMsg, terminal)

Emits(k) == RunDoes(EmitObject(k),
                    IF cache[k] = got[k] THEN NoMsg ELSE Delta(k, got[k]), terminal)

SendsStorageErrors ==
    RunDoes(RefreshEnds,
            IF \E d \in Driver : storageErr[d] # "none" THEN Error ELSE NoMsg, terminal)

\* broadcastStorageError records the error, and sends it in a second step.
RecordsError(d) ==
    /\ StorageForbidden(d) \/ LateForbidden(d)
    /\ owed' = owed \cup {d}
    /\ UNCHANGED <<out, terminal, pageVars>>

SendStorageError(d) ==
    /\ d \in owed
    /\ owed' = owed \ {d}
    /\ queue' = Sent(Error)
    /\ UNCHANGED <<cacheVars, out, terminal, stored, sub, snap, view, shown, astray>>

RunStep ==
    \/ RunQuietly(Debounce) \/ RunQuietly(RefreshBegins) \/ RunQuietly(DeleteMissing)
    \/ \E d \in Driver : RunQuietly(ListDriver(d)) \/ RunQuietly(PassDriver(d))
    \/ RunDoes(RefreshFails, Error, TRUE)
    \/ RunDoes(ReleasesListed, NoMsg, FALSE)
    \/ \E k \in Release :
          Emits(k) \/ RunDoes(BroadcastDeletion(k), Delta(k, got[k]), terminal)
    \/ RunDoes(BroadcastSynced, Synced, terminal)
    \/ SendsStorageErrors
    \/ RunQuietly(StopReturn)

StorageStepOf(d) ==
    \/ Quietly(StorageListed(d)) \/ Quietly(StorageWatched(d))
    \/ Quietly(StorageEvent(d)) \/ Quietly(StorageWatchEnds(d))
    \/ Quietly(StorageStops(d)) \/ Quietly(LateListed(d)) \/ Quietly(LateStops(d))
    \/ Quietly(LateWatched(d)) \/ Quietly(LateWatchEnds(d))
    \/ RecordsError(d) \/ SendStorageError(d)

-----------------------------------------------------------------------------
(* A request of a page, and the page.                                      *)

Lookup(c) ==
    /\ sub[c] \in {"closed", "retry"}
    /\ sub' = [sub EXCEPT ![c] = IF stored THEN "joiner" ELSE "miss"]
    /\ UNCHANGED <<cacheVars, sendVars, stored, queue, snap, view, shown, astray>>

StoreIfAbsent(c) ==
    /\ sub[c] = "miss"
    /\ stored' = TRUE
    /\ sub' = [sub EXCEPT ![c] = IF stored THEN "joiner" ELSE "creator"]
    /\ UNCHANGED <<cacheVars, sendVars, queue, snap, view, shown, astray>>

\* A request for the history of a release creates the entry and no run.
History ==
    /\ ~stored
    /\ stored' = TRUE
    /\ UNCHANGED <<cacheVars, sendVars, sub, queue, snap, view, shown, astray>>

\* addClient copies the cache and the error under e.mu.
BugFirstItems ==
    [items |-> {k \in Release : /\ Exists(cache[k])
                             /\ \A d \in Driver : storageErr[d] = "none"},
     from  |-> [k \in Release |-> IF Exists(cache[k]) THEN cache[k] ELSE 0],
     last  |-> IF terminal \/ \E d \in Driver : storageErr[d] # "none"
               THEN Error ELSE Synced]
FirstItems ==
    [items |-> {k \in Release : Exists(cache[k])},
     from  |-> [k \in Release |-> IF Exists(cache[k]) THEN cache[k] ELSE 0],
     last  |-> IF terminal \/ \E d \in Driver : storageErr[d] # "none"
               THEN Error ELSE Synced]

\* The creator of the entry is given no releases; it strays if there are some.
Subscribe(c) ==
    /\ sub[c] \in {"creator", "joiner"}
    /\ Join(c)
    /\ sub' = [sub EXCEPT ![c] = "open"]
    /\ snap' = [snap EXCEPT ![c] = IF sub[c] = "joiner" THEN FirstItems ELSE NoSnap]
    /\ astray' = [astray EXCEPT ![c] =
                     IF sub[c] = "joiner" THEN @ ELSE {k \in Release : Exists(cache[k])}]
    /\ UNCHANGED <<storageVars, refreshVars, storageErr, sendVars, stored, queue, view,
                   shown>>

\* sendInitialSnapshot waits for room and sends in the order of a Go map. What
\* it sends may be out of date by then.
SendSnapshotItem(c) ==
    /\ HasRoom(c)
    /\ \E k \in snap[c].items :
          /\ queue' = [queue EXCEPT ![c] = Append(@, Delta(k, snap[c].from[k]))]
          /\ snap' = [snap EXCEPT ![c].items = @ \ {k}, ![c].from[k] = 0]
          /\ astray' = [astray EXCEPT ![c] =
                           IF snap[c].from[k] = cache[k] THEN @ ELSE @ \cup {k}]
    /\ UNCHANGED <<cacheVars, sendVars, stored, sub, view, shown>>

SendSnapshotEnd(c) ==
    /\ HasRoom(c)
    /\ snap[c].items = {} /\ snap[c].last # NoMsg
    /\ queue' = [queue EXCEPT ![c] = Append(@, snap[c].last)]
    /\ snap' = [snap EXCEPT ![c] = NoSnap]
    /\ UNCHANGED <<cacheVars, sendVars, stored, sub, view, shown, astray>>

Deliver(c) ==
    /\ c \in clients
    /\ queue[c] # <<>>
    /\ LET m == Head(queue[c])
       IN  /\ view' = [view EXCEPT ![c] = [k \in Release |-> IF k \in DOMAIN m.obj
                                                             THEN m.obj[k] ELSE @[k]]]
           /\ shown' = [shown EXCEPT ![c] = IF m = Error THEN "error" ELSE "ready"]
    /\ queue' = [queue EXCEPT ![c] = Tail(@)]
    /\ UNCHANGED <<cacheVars, sendVars, stored, sub, snap, astray>>

\* unsubscribe, for a connection that EventSource will open again: the items
\* stay, and nobody will mention one that is deleted meanwhile ...
Disconnect(c) ==
    /\ Leave(c)
    /\ sub' = [sub EXCEPT ![c] = "retry"]
    /\ queue' = [queue EXCEPT ![c] = <<>>]
    /\ snap' = [snap EXCEPT ![c] = NoSnap]
    /\ shown' = [shown EXCEPT ![c] = "error"]
    /\ astray' = [astray EXCEPT ![c] = Release]
    /\ UNCHANGED <<storageVars, refreshVars, storageErr, sendVars, stored, view>>

\* ... and for a page that is closed and forgets its items.
ClosePage(c) ==
    /\ Leave(c)
    /\ sub' = [sub EXCEPT ![c] = "closed"]
    /\ queue' = [queue EXCEPT ![c] = <<>>]
    /\ snap' = [snap EXCEPT ![c] = NoSnap]
    /\ view' = [view EXCEPT ![c] = Nothing]
    /\ shown' = [shown EXCEPT ![c] = "loading"]
    /\ astray' = [astray EXCEPT ![c] = {}]
    /\ UNCHANGED <<storageVars, refreshVars, storageErr, sendVars, stored>>

-----------------------------------------------------------------------------
PageStep(c) ==
    \/ Lookup(c) \/ StoreIfAbsent(c) \/ Subscribe(c)
    \/ SendSnapshotItem(c) \/ SendSnapshotEnd(c) \/ Deliver(c)
    \/ Disconnect(c) \/ ClosePage(c)

PagesNext ==
    \/ \E k \in Release : Quietly(Change(k))
    \/ Send \/ RunStep \/ Quietly(RunStarts) \/ Quietly(RunEnds) \/ Quietly(RunIsStopped)
    \/ \E d \in Driver : StorageStepOf(d)
    \/ History
    \/ \E c \in Client : PageStep(c)

PagesSpec == PagesInit /\ [][PagesNext]_vars

-----------------------------------------------------------------------------
\* A page whose channel is idle shows what the cache holds, except for the
\* releases that strayed in one of the four ways of `astray`: a dropped
\* message, an initial item that is out of date when it is sent, an item kept
\* across a reconnection, and a creator that finds releases in the cache.
\* Joining between the cache update of a broadcast and its sends, or twice
\* being told of the same release, loses nothing.
PageShowsCache ==
    \A c \in Client : \A k \in Release :
        (/\ c \in clients /\ queue[c] = <<>> /\ snap[c] = NoSnap
         /\ k \notin astray[c] /\ k \notin DOMAIN out.obj)
            => Same(view[c][k], cache[k])
=============================================================================
