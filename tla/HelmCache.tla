------------------------------- MODULE HelmCache -------------------------------
(***************************************************************************)
(* The server's half of the Helm releases view (helmmgr.go): one goroutine *)
(* per storage driver lists and watches Helm's Secrets or ConfigMaps and   *)
(* asks for a refresh; the run goroutine debounces those requests, lists   *)
(* the releases of all drivers and brings the cache up to date.  EntryRun  *)
(* models when there is a run (a refusal does not end it here, so that     *)
(* `refused` stays FALSE); HelmPages adds the subscribers.                 *)
(*                                                                         *)
(* Versions are those of WatchEntry: a release exists when its number is   *)
(* odd.  Every release is stored by one driver.                            *)
(*                                                                         *)
(* Operators whose name begins with Bug are mutated forms of the operator  *)
(* that follows them: each shows that some property detects the fault.     *)
(***************************************************************************)
EXTENDS EntryRun, Naturals

CONSTANTS Release,  \* cache keys of the releases
          Driver,   \* the storage drivers
          Home,     \* Home[k]: the driver that stores release k
          MaxVer    \* bound on what happens to one release

ASSUME HomeAssumption == Home \in [Release -> Driver]
ASSUME MaxVerAssumption == MaxVer \in Nat

VARIABLES store,    \* the releases in the cluster
          ws,       \* ws[d]: where the run's watchStorage goroutine for d is
          late,     \* late[d]: the same goroutine of an earlier run, stopped
          dirty,    \* drivers whose open watch has an event ahead
          asked,    \* the refresh channel (capacity 1) is full
          armed,    \* the debounce timer runs
          pc,       \* where the run is
          left,     \* drivers it has still to list
          heard,    \* drivers that the last refresh did list
          got,      \* their releases
          todo,     \* releases, then deletions, still to be emitted
          cache,    \* e.cache, and e.objects
          storageErr \* e.storageTerminalErrors: "list" stands for skipList

storageVars == <<store, ws, late, dirty>>
refreshVars == <<asked, armed, pc, left, heard, got, todo, cache>>
cacheVars   == <<runVars, storageVars, refreshVars, storageErr>>

-----------------------------------------------------------------------------
Ver == 0..MaxVer
Exists(n) == n % 2 = 1
Same(m, n) == m = n \/ (~Exists(m) /\ ~Exists(n))
Nothing == [k \in Release |-> 0]

CacheTypeOK ==
    /\ RunTypeOK /\ ~refused
    /\ store \in [Release -> Ver]
    /\ ws \in [Driver -> {"none", "list", "watch", "watching", "gone"}]
    /\ late \in [Driver -> {"none", "list", "watch", "watching"}]
    /\ dirty \subseteq Driver
    /\ asked \in BOOLEAN /\ armed \in BOOLEAN
    /\ pc \in {"select", "listing", "items", "deletions", "errors"}
    /\ left \subseteq Driver /\ heard \subseteq Driver
    /\ got \in [Release -> Ver]
    /\ todo \subseteq Release
    /\ cache \in [Release -> Ver]
    /\ storageErr \in [Driver -> {"none", "list", "watch"}]

CacheInit ==
    /\ RunInit
    /\ store \in [Release -> Ver]
    /\ ws = [d \in Driver |-> "none"]
    /\ late = [d \in Driver |-> "none"]
    /\ dirty = {}
    /\ asked = FALSE /\ armed = FALSE
    /\ pc = "select"
    /\ left = {} /\ heard = {}
    /\ got = Nothing
    /\ todo = {}
    /\ cache = Nothing
    /\ storageErr = [d \in Driver |-> "none"]

-----------------------------------------------------------------------------
\* helm install, upgrade or uninstall: an event for a watch that follows the
\* driver's objects.
Change(k) ==
    \E n \in Ver :
        /\ n = store[k] + 1 \/ (Exists(store[k]) /\ n = store[k] + 2)
        /\ store' = [store EXCEPT ![k] = n]
        /\ dirty' = IF ws[Home[k]] \in {"watch", "watching"}
                    THEN dirty \cup {Home[k]} ELSE dirty
        /\ UNCHANGED <<runVars, ws, late, refreshVars, storageErr>>

-----------------------------------------------------------------------------
(* watchStorage, one goroutine per driver.                                 *)

\* requestRefresh once the storage is listed: what changed before the list is
\* covered by this request, what changes after it by an event.
BugAskedByList == asked
AskedByList == TRUE

StorageListed(d) ==
    /\ ws[d] = "list"
    /\ ws' = [ws EXCEPT ![d] = "watch"]
    /\ asked' = AskedByList
    /\ UNCHANGED <<runVars, store, late, dirty, armed, pc, left, heard, got, todo,
                   cache, storageErr>>

\* Forbidden ends the goroutine; a list that is forbidden also takes the
\* driver out of the refreshes.
StorageForbidden(d) ==
    /\ ws[d] \in {"list", "watch"}
    /\ storageErr' = [storageErr EXCEPT ![d] = ws[d]]
    /\ ws' = [ws EXCEPT ![d] = "gone"]
    /\ dirty' = dirty \ {d}
    /\ UNCHANGED <<runVars, store, late, refreshVars>>

StorageWatched(d) ==
    /\ ws[d] = "watch"
    /\ ws' = [ws EXCEPT ![d] = "watching"]
    /\ storageErr' = [storageErr EXCEPT ![d] = "none"]
    /\ UNCHANGED <<runVars, store, late, dirty, refreshVars>>

StorageEvent(d) ==
    /\ ws[d] = "watching" /\ d \in dirty
    /\ dirty' = dirty \ {d}
    /\ asked' = TRUE
    /\ UNCHANGED <<runVars, store, ws, late, armed, pc, left, heard, got, todo, cache, storageErr>>

\* The watch could not be opened, was closed or expired: list again.
StorageWatchEnds(d) ==
    /\ ws[d] \in {"watch", "watching"}
    /\ ws' = [ws EXCEPT ![d] = "list"]
    /\ dirty' = dirty \ {d}
    /\ UNCHANGED <<runVars, store, late, refreshVars, storageErr>>

StorageStops(d) ==
    /\ stopping /\ ws[d] \in {"list", "watch", "watching"}
    /\ ws' = [ws EXCEPT ![d] = "gone"]
    /\ dirty' = dirty \ {d}
    /\ UNCHANGED <<runVars, store, late, refreshVars, storageErr>>

\* The run may return before its storage goroutines do. Each of them has to notice
\* the closed stop channel by itself: while it sleeps before the next list, or in
\* consumeStorageEvents. An answer that was already there is still acted upon, and a
\* call that the stop channel interrupts ends in such a sleep, which may be over.
BugNoticesStop(d) == late[d] = "list"
NoticesStop(d) == late[d] \in {"list", "watching"}

LateStops(d) ==
    /\ NoticesStop(d)
    /\ late' = [late EXCEPT ![d] = "none"]
    /\ UNCHANGED <<runVars, storageErr, store, ws, dirty, refreshVars>>

LateListed(d) ==
    /\ late[d] = "list"
    /\ late' = [late EXCEPT ![d] = "watch"]
    /\ UNCHANGED <<runVars, storageErr, store, ws, dirty, refreshVars>>

LateForbidden(d) ==
    /\ late[d] \in {"list", "watch"}
    /\ storageErr' = [storageErr EXCEPT ![d] = late[d]]
    /\ late' = [late EXCEPT ![d] = "none"]
    /\ UNCHANGED <<runVars, store, ws, dirty, refreshVars>>

LateWatched(d) ==
    /\ late[d] = "watch"
    /\ storageErr' = [storageErr EXCEPT ![d] = "none"]
    /\ late' = [late EXCEPT ![d] = "watching"]
    /\ UNCHANGED <<runVars, store, ws, dirty, refreshVars>>

\* The watch could not be opened, or was closed.
LateWatchEnds(d) ==
    /\ late[d] \in {"watch", "watching"}
    /\ late' = [late EXCEPT ![d] = "list"]
    /\ UNCHANGED <<runVars, storageErr, store, ws, dirty, refreshVars>>

-----------------------------------------------------------------------------
(* run and refresh.                                                        *)

RunAt(p) == phase = "live" /\ pc = p

RunStarts ==
    /\ Start
    /\ ws' = [d \in Driver |-> "list"]
    /\ asked' = TRUE
    /\ UNCHANGED <<store, late, dirty, armed, pc, left, heard, got, todo, cache, storageErr>>

Debounce ==
    /\ RunAt("select") /\ asked
    /\ asked' = FALSE
    /\ armed' = TRUE
    /\ UNCHANGED <<runVars, storageVars, pc, left, heard, got, todo, cache,
                   storageErr>>

RefreshBegins ==
    /\ RunAt("select") /\ armed
    /\ armed' = FALSE
    /\ pc' = "listing"
    /\ left' = Driver
    /\ heard' = {}
    /\ UNCHANGED <<runVars, storageVars, asked, got, todo, cache, storageErr>>

\* listReleases: the releases of one driver ...
ListDriver(d) ==
    /\ RunAt("listing") /\ d \in left
    /\ storageErr[d] # "list"
    /\ left' = left \ {d}
    /\ heard' = heard \cup {d}
    /\ got' = [k \in Release |-> IF Home[k] = d THEN store[k] ELSE got[k]]
    /\ UNCHANGED <<runVars, storageVars, asked, armed, pc, todo, cache,
                   storageErr>>

\* ... none, because its storage list was forbidden or Helm's list fails.
PassDriver(d) ==
    /\ RunAt("listing") /\ d \in left
    /\ left' = left \ {d}
    /\ UNCHANGED <<runVars, storageVars, asked, armed, pc, heard, got, todo, cache, storageErr>>

\* No driver was listed: refresh returns the error, and nobody tries again
\* before the next request.
RefreshFails ==
    /\ RunAt("listing") /\ left = {} /\ heard = {}
    /\ pc' = "select"
    /\ UNCHANGED <<runVars, storageVars, asked, armed, left, heard, got, todo, cache,
                   storageErr>>

ReleasesListed ==
    /\ RunAt("listing") /\ left = {} /\ heard # {}
    /\ todo' = {k \in Release : Exists(got[k])}
    /\ pc' = "items"
    /\ UNCHANGED <<runVars, storageVars, asked, armed, left, heard, got, cache,
                   storageErr>>

\* emitObject, and the cache update of its broadcast.
EmitObject(k) ==
    /\ RunAt("items") /\ k \in todo
    /\ todo' = todo \ {k}
    /\ cache' = [cache EXCEPT ![k] = got[k]]
    /\ UNCHANGED <<runVars, storageVars, asked, armed, pc, left, heard, got,
                   storageErr>>

\* The list says what is gone only when every driver was listed.
BugAuthoritative == TRUE
Authoritative == heard = Driver

DeleteMissing ==
    /\ RunAt("items") /\ todo = {}
    /\ todo' = {k \in Release : Authoritative /\ Exists(cache[k]) /\ ~Exists(got[k])}
    /\ pc' = "deletions"
    /\ UNCHANGED <<runVars, storageVars, asked, armed, left, heard, got, cache, storageErr>>

BroadcastDeletion(k) ==
    /\ RunAt("deletions") /\ k \in todo
    /\ todo' = todo \ {k}
    /\ cache' = [cache EXCEPT ![k] = got[k]]
    /\ UNCHANGED <<runVars, storageVars, asked, armed, pc, left, heard, got,
                   storageErr>>

BroadcastSynced ==
    /\ RunAt("deletions") /\ todo = {}
    /\ pc' = "errors"
    /\ got' = Nothing
    /\ UNCHANGED <<runVars, storageVars, asked, armed, left, heard, todo, cache, storageErr>>

\* storageTerminalErrorEvent, after the SYNCED that clears the page's error.
RefreshEnds ==
    /\ RunAt("errors")
    /\ pc' = "select"
    /\ UNCHANGED <<runVars, storageVars, asked, armed, left, heard, got, todo, cache, storageErr>>

\* The run's select receives from the closed stop channel; its storage goroutines see
\* the same channel in their own time. The model bounds those: one for each driver.
Working(d) == ws[d] \in {"list", "watch", "watching"}

StopReturn ==
    /\ RunAt("select") /\ Stopped
    /\ \A d \in Driver : Working(d) => late[d] = "none"
    /\ late' = [d \in Driver |-> IF Working(d) THEN ws[d] ELSE late[d]]
    /\ ws' = [d \in Driver |-> "none"]
    /\ dirty' = {} /\ asked' = FALSE /\ armed' = FALSE /\ heard' = {}
    /\ UNCHANGED <<store, pc, left, got, todo, cache, storageErr>>

RunEnds == Ended /\ UNCHANGED <<storageVars, refreshVars, storageErr>>
RunIsStopped == Stop /\ UNCHANGED <<storageVars, refreshVars, storageErr>>

-----------------------------------------------------------------------------
Joins(c) == Join(c) /\ UNCHANGED <<storageVars, refreshVars, storageErr>>
Leaves(c) == Leave(c) /\ UNCHANGED <<storageVars, refreshVars, storageErr>>

LateAnswered(d) == late[d] = "watch" /\ (LateWatched(d) \/ LateWatchEnds(d) \/ LateForbidden(d))

StorageStep(d) ==
    \/ StorageListed(d) \/ StorageForbidden(d) \/ StorageWatched(d)
    \/ StorageEvent(d) \/ StorageWatchEnds(d) \/ StorageStops(d)
    \/ LateListed(d) \/ LateForbidden(d) \/ LateWatched(d) \/ LateWatchEnds(d) \/ LateStops(d)

RefreshStep ==
    \/ Debounce \/ RefreshBegins \/ RefreshFails \/ ReleasesListed
    \/ DeleteMissing \/ BroadcastSynced \/ RefreshEnds
    \/ \E d \in Driver : ListDriver(d) \/ PassDriver(d)
    \/ \E k \in Release : EmitObject(k) \/ BroadcastDeletion(k)

CacheNext ==
    \/ \E k \in Release : Change(k)
    \/ \E c \in Client : Joins(c) \/ Leaves(c)
    \/ RunStarts \/ RefreshStep \/ StopReturn \/ RunEnds \/ RunIsStopped
    \/ \E d \in Driver : StorageStep(d)

CacheSpec == CacheInit /\ [][CacheNext]_cacheVars

\* Goroutines go on, timers fire, and a call to the API server is answered
\* somehow. The stop channel stays ready in each select that looks at it (SF), though
\* events or the end of a sleep may be ready as well.
FairCacheSpec ==
    /\ CacheSpec
    /\ WF_cacheVars(RunIsStopped) /\ WF_cacheVars(RunStarts) /\ WF_cacheVars(RunEnds)
    /\ WF_cacheVars(RefreshStep) /\ SF_cacheVars(StopReturn)
    /\ \A d \in Driver : WF_cacheVars(LateAnswered(d)) /\ SF_cacheVars(LateStops(d))

-----------------------------------------------------------------------------
\* The cache is a view of the cluster's releases that never goes back and
\* never shows what was not there: a driver that is forbidden, skipped or
\* fails while the other one is listed does not make its releases disappear.
Shown == IF phase = "none" /\ cache = Nothing THEN {} ELSE {"cache"}
Page == INSTANCE ReplicaView
          WITH Client <- {"cache"}, Key <- Release, pages <- Shown,
               view <- [c \in {"cache"} |-> cache]
CacheIsReplica == Page!ReplicaSpec

\* Nothing that happens in the cluster is lost between the initial refresh,
\* the storage list and the storage watch, nor while a refresh is under way:
\* when no request is left and the last refresh listed every driver, the cache
\* is what the cluster holds. (A refresh that fails is not repeated.)
RefreshNotLost ==
    (/\ RunAt("select") /\ ~asked /\ ~armed /\ Authoritative
     /\ \A d \in Driver : ws[d] = "watching" /\ d \notin dirty)
        => \A k \in Release : Same(cache[k], store[k])

\* An entry without subscribers comes to rest with all its goroutines, those
\* that watch the storage of a run that has ended included.
GoroutinesEnd ==
    clients = {} ~> \/ clients # {}
                    \/ phase = "none" /\ \A d \in Driver : late[d] = "none"
=============================================================================
