------------------------------ MODULE HelmProofs ------------------------------
(***************************************************************************)
(* Proofs about HelmCache and HelmPages, for any pages, releases, drivers, *)
(* versions and capacity of the channels: the types, that no change is     *)
(* lost between the storage lists, the storage watches and the refreshes,  *)
(* that the cache is a view of the cluster that only goes forward          *)
(* (ReplicaView), and that an idle page shows what the cache holds, but    *)
(* for the releases that strayed.                                          *)
(*                                                                         *)
(* The cache comes first: HelmPages does nothing to it that HelmCache does *)
(* not have, so that its invariants are those of the pages as well.        *)
(***************************************************************************)
EXTENDS HelmPages, TLAPS

-----------------------------------------------------------------------------
(* The cache: types.                                                       *)

Storage == {"none", "list", "watch", "watching", "gone"}
Late == {"none", "list", "watch", "watching"}
Errors == {"none", "list", "watch"}

LEMMA CacheTypeInit == CacheInit => CacheTypeOK
<1> SUFFICES ASSUME CacheInit PROVE CacheTypeOK
  OBVIOUS
<1>1. Nothing \in [Release -> Ver]
  BY MaxVerAssumption DEF Nothing, Ver
<1>2. RunTypeOK /\ ~refused
  BY DEF CacheInit, RunInit, RunTypeOK, Phase
<1> QED
  BY <1>1, <1>2 DEF CacheInit, CacheTypeOK

\* The entry's lock and the subscribers.
LEMMA RunTypes ==
  ASSUME CacheTypeOK,
         \/ \E c \in Client : Joins(c) \/ Leaves(c)
         \/ RunStarts \/ RunEnds \/ RunIsStopped \/ StopReturn
  PROVE  CacheTypeOK'
<1>1. RunTypeOK' /\ ~refused'
  <2>1. RunTypeOK /\ ~refused
    BY DEF CacheTypeOK
  <2>2. CASE \E c \in Client : Joins(c) \/ Leaves(c)
    BY <2>1, <2>2 DEF Joins, Join, Leaves, Leave, RunTypeOK, Phase
  <2>3. CASE RunStarts
    BY <2>1, <2>3 DEF RunStarts, Start, RunTypeOK, Phase
  <2>4. CASE RunEnds
    BY <2>1, <2>4 DEF RunEnds, Ended, RunTypeOK, Phase
  <2>5. CASE RunIsStopped
    BY <2>1, <2>5 DEF RunIsStopped, Stop, RunTypeOK, Phase
  <2>6. CASE StopReturn
    BY <2>1, <2>6 DEF StopReturn, Stopped, RunTypeOK, Phase
  <2> QED
    BY <2>2, <2>3, <2>4, <2>5, <2>6
<1>2. CASE RunStarts
  <2>1. /\ ws' = [d \in Driver |-> "list"] /\ asked' = TRUE
        /\ UNCHANGED <<store, late, dirty, armed, pc, left, heard, got, todo, cache, storageErr>>
    BY <1>2 DEF RunStarts
  <2> QED
    BY <1>1, <2>1 DEF CacheTypeOK
<1>3. CASE StopReturn
  <2>1. /\ ws' = [d \in Driver |-> "none"] /\ dirty' = {} /\ asked' = FALSE /\ armed' = FALSE
        /\ heard' = {} /\ UNCHANGED <<store, pc, left, got, todo, cache, storageErr>>
    BY <1>3 DEF StopReturn
  <2>2. late' \in [Driver -> Late]
    <3>1. late \in [Driver -> Late]
      BY DEF CacheTypeOK, Late
    <3> QED
      BY <1>3, <3>1 DEF StopReturn, Working, Late
  <2> QED
    BY <1>1, <2>1, <2>2 DEF CacheTypeOK, Late
<1>4. CASE (\E c \in Client : Joins(c) \/ Leaves(c)) \/ RunEnds \/ RunIsStopped
  <2>1. UNCHANGED <<storageVars, refreshVars, storageErr>>
    BY <1>4 DEF Joins, Leaves, RunEnds, RunIsStopped
  <2> QED
    BY <1>1, <2>1 DEF CacheTypeOK, storageVars, refreshVars
<1> QED
  BY <1>2, <1>3, <1>4

\* The cluster and the storage goroutines.
LEMMA StorageTypes ==
  ASSUME CacheTypeOK, (\E k \in Release : Change(k)) \/ (\E d \in Driver : StorageStep(d))
  PROVE  CacheTypeOK'
<1>1. UNCHANGED <<runVars, armed, pc, left, heard, got, todo, cache>>
  <2>1. ASSUME NEW k \in Release, Change(k)
        PROVE  UNCHANGED <<runVars, armed, pc, left, heard, got, todo, cache>>
    BY <2>1 DEF Change, refreshVars
  <2>2. ASSUME NEW d \in Driver, StorageStep(d)
        PROVE  UNCHANGED <<runVars, armed, pc, left, heard, got, todo, cache>>
    <3>1. CASE StorageListed(d) \/ StorageEvent(d)
      BY <3>1 DEF StorageListed, StorageEvent
    <3>2. CASE StorageForbidden(d) \/ StorageWatched(d) \/ StorageWatchEnds(d) \/ StorageStops(d)
      BY <3>2 DEF StorageForbidden, StorageWatched, StorageWatchEnds, StorageStops, refreshVars
    <3>3. CASE \/ LateListed(d) \/ LateForbidden(d) \/ LateWatched(d)
               \/ LateWatchEnds(d) \/ LateStops(d)
      BY <3>3 DEF LateListed, LateForbidden, LateWatched, LateWatchEnds, LateStops, refreshVars
    <3> QED
      BY <2>2, <3>1, <3>2, <3>3 DEF StorageStep
  <2> QED
    BY <2>1, <2>2
<1>2. /\ store \in [Release -> Ver] /\ ws \in [Driver -> Storage] /\ late \in [Driver -> Late]
      /\ dirty \subseteq Driver /\ asked \in BOOLEAN /\ storageErr \in [Driver -> Errors]
  BY DEF CacheTypeOK, Storage, Late, Errors
<1>3. SUFFICES /\ store' \in [Release -> Ver] /\ ws' \in [Driver -> Storage]
               /\ late' \in [Driver -> Late] /\ dirty' \subseteq Driver /\ asked' \in BOOLEAN
               /\ storageErr' \in [Driver -> Errors]
  BY <1>1 DEF CacheTypeOK, RunTypeOK, runVars, Storage, Late, Errors
<1>4. ASSUME NEW k \in Release, Change(k)
      PROVE  /\ store' \in [Release -> Ver] /\ dirty' \subseteq Driver
             /\ UNCHANGED <<ws, late, asked, storageErr>>
  <2>1. UNCHANGED <<ws, late, asked, storageErr>>
    BY <1>4 DEF Change, refreshVars
  <2>2. PICK n \in Ver : store' = [store EXCEPT ![k] = n]
    BY <1>4 DEF Change
  <2>3. store' \in [Release -> Ver]
    BY <1>2, <2>2
  <2>4. Home[k] \in Driver
    BY HomeAssumption
  <2>5. dirty' = dirty \cup {Home[k]} \/ dirty' = dirty
    BY <1>4 DEF Change
  <2>6. dirty' \subseteq Driver
    BY <1>2, <2>4, <2>5
  <2> QED
    BY <2>1, <2>3, <2>6
<1>5. ASSUME NEW d \in Driver, StorageStep(d)
      PROVE  /\ store' = store /\ dirty' \subseteq Driver /\ asked' \in BOOLEAN
             /\ \E x \in Storage : ws' = [ws EXCEPT ![d] = x]
             /\ \E x \in Late : late' = [late EXCEPT ![d] = x]
             /\ \E x \in Errors : storageErr' = [storageErr EXCEPT ![d] = x]
  <2>1. ws = [ws EXCEPT ![d] = ws[d]] /\ ws[d] \in Storage
    BY <1>2
  <2>2. late = [late EXCEPT ![d] = late[d]] /\ late[d] \in Late
    BY <1>2
  <2>3. storageErr = [storageErr EXCEPT ![d] = storageErr[d]] /\ storageErr[d] \in Errors
    BY <1>2
  <2>4. store' = store /\ dirty' \subseteq Driver /\ asked' \in BOOLEAN
    BY <1>2, <1>5 DEF StorageStep, StorageListed, AskedByList, StorageForbidden,
       StorageWatched, StorageEvent, StorageWatchEnds, StorageStops, LateListed, LateWatchEnds,
       LateStops, LateForbidden, LateWatched, refreshVars
  <2>5. \E x \in Storage : ws' = [ws EXCEPT ![d] = x]
    BY <1>5, <2>1 DEF StorageStep, StorageListed, StorageForbidden,
       StorageWatched, StorageEvent, StorageWatchEnds, StorageStops, LateListed, LateWatchEnds,
       LateStops, LateForbidden, LateWatched, Storage
  <2>6. \E x \in Late : late' = [late EXCEPT ![d] = x]
    BY <1>5, <2>2 DEF StorageStep, StorageListed, StorageForbidden,
       StorageWatched, StorageEvent, StorageWatchEnds, StorageStops, LateListed, LateWatchEnds,
       LateStops, LateForbidden, LateWatched, NoticesStop, Late
  <2>7. \E x \in Errors : storageErr' = [storageErr EXCEPT ![d] = x]
    <3>1. CASE StorageForbidden(d)
      BY <3>1 DEF StorageForbidden, Errors
    <3>2. CASE LateForbidden(d)
      BY <3>2 DEF LateForbidden, Errors
    <3>3. CASE ~(StorageForbidden(d) \/ LateForbidden(d))
      BY <1>5, <2>3, <3>3 DEF StorageStep, StorageListed,
         StorageWatched, StorageEvent, StorageWatchEnds, StorageStops, LateListed, LateWatchEnds,
         LateStops, LateWatched, Errors
    <3> QED
      BY <3>1, <3>2, <3>3
  <2> QED
    BY <2>4, <2>5, <2>6, <2>7
<1>6. CASE \E k \in Release : Change(k)
  BY <1>2, <1>4, <1>6
<1>7. CASE \E d \in Driver : StorageStep(d)
  BY <1>2, <1>5, <1>7
<1> QED
  BY <1>6, <1>7

\* The refreshes.
LEMMA RefreshTypes == ASSUME CacheTypeOK, RefreshStep PROVE CacheTypeOK'
<1>1. UNCHANGED <<runVars, storageVars, storageErr>>
  BY DEF RefreshStep, Debounce, RefreshBegins, RefreshFails, ReleasesListed, DeleteMissing,
         BroadcastSynced, RefreshEnds, ListDriver, PassDriver, EmitObject, BroadcastDeletion
<1>2. /\ store \in [Release -> Ver] /\ got \in [Release -> Ver] /\ cache \in [Release -> Ver]
      /\ left \subseteq Driver /\ heard \subseteq Driver /\ todo \subseteq Release
      /\ asked \in BOOLEAN /\ armed \in BOOLEAN
      /\ pc \in {"select", "listing", "items", "deletions", "errors"}
  BY DEF CacheTypeOK
<1>3. SUFFICES /\ got' \in [Release -> Ver] /\ cache' \in [Release -> Ver]
               /\ left' \subseteq Driver /\ heard' \subseteq Driver /\ todo' \subseteq Release
               /\ asked' \in BOOLEAN /\ armed' \in BOOLEAN
               /\ pc' \in {"select", "listing", "items", "deletions", "errors"}
  BY <1>1 DEF CacheTypeOK, RunTypeOK, runVars, storageVars
<1>4. Nothing \in [Release -> Ver]
  BY MaxVerAssumption DEF Nothing, Ver
<1>5. CASE Debounce \/ RefreshBegins \/ RefreshFails \/ ReleasesListed \/ DeleteMissing
           \/ BroadcastSynced \/ RefreshEnds
  BY <1>2, <1>4, <1>5 DEF Debounce, RefreshBegins, RefreshFails, ReleasesListed,
                          DeleteMissing, BroadcastSynced, RefreshEnds
<1>6. CASE \E d \in Driver : ListDriver(d) \/ PassDriver(d)
  BY <1>2, <1>6 DEF ListDriver, PassDriver
<1>7. CASE \E k \in Release : EmitObject(k) \/ BroadcastDeletion(k)
  BY <1>2, <1>7 DEF EmitObject, BroadcastDeletion
<1> QED
  BY <1>5, <1>6, <1>7 DEF RefreshStep

LEMMA CacheTypeStep == CacheTypeOK /\ [CacheNext]_cacheVars => CacheTypeOK'
<1> SUFFICES ASSUME CacheTypeOK, [CacheNext]_cacheVars PROVE CacheTypeOK'
  OBVIOUS
<1>1. CASE UNCHANGED cacheVars
  BY <1>1 DEF cacheVars, runVars, storageVars, refreshVars, CacheTypeOK, RunTypeOK
<1>2. CASE CacheNext
  BY <1>2, RunTypes, StorageTypes, RefreshTypes DEF CacheNext
<1> QED
  BY <1>1, <1>2

\* The types of the entry, its goroutines and its cache; a refusal does not end the run
\* (helmmgr.go: helmEntry).
THEOREM CacheTypeSafety == CacheSpec => []CacheTypeOK
  BY CacheTypeInit, CacheTypeStep, PTL DEF CacheSpec

-----------------------------------------------------------------------------
(* RefreshNotLost.                                                         *)

\* No request for a refresh is open, and none is to come from driver d's storage.
Settled(d) == ws[d] \in {"watch", "watching"} /\ d \notin dirty /\ ~asked /\ ~armed

\* While the drivers are listed and their releases emitted: what a settled driver was
\* heard to have is what the cluster holds.
HeardIsCurrent ==
    pc \in {"listing", "items", "deletions"} =>
        \A k \in Release : Settled(Home[k]) /\ Home[k] \in heard => got[k] = store[k]

\* What was emitted is in the cache; after the deletions, what is not is gone from it.
EmittedIsCached ==
    pc = "items" => \A k \in Release : Exists(got[k]) => k \in todo \/ cache[k] = got[k]
RestIsDeleted ==
    pc = "deletions" /\ Authoritative =>
        \A k \in Release : k \in todo \/ Same(cache[k], got[k])

\* Between two refreshes.
CacheIsCurrent ==
    pc \in {"errors", "select"} /\ Authoritative =>
        \A k \in Release : Settled(Home[k]) => Same(cache[k], store[k])

RefreshInv == CacheTypeOK /\ HeardIsCurrent /\ EmittedIsCached /\ RestIsDeleted /\ CacheIsCurrent

\* A step that leaves the run's refresh alone, and after which no driver is settled that
\* was not settled with the same releases.
LEMMA RefreshUntouched ==
  ASSUME RefreshInv, UNCHANGED <<pc, heard, got, todo, cache>>,
         \A k \in Release : Settled(Home[k])' => Settled(Home[k]) /\ store'[k] = store[k]
  PROVE  HeardIsCurrent' /\ EmittedIsCached' /\ RestIsDeleted' /\ CacheIsCurrent'
  BY DEF RefreshInv, HeardIsCurrent, EmittedIsCached, RestIsDeleted, CacheIsCurrent,
         Authoritative

\* What happens in the cluster and in the storage goroutines either leaves a request or an
\* event, or nothing is settled by it.
LEMMA StorageRefresh ==
  ASSUME RefreshInv, (\E k \in Release : Change(k)) \/ (\E d \in Driver : StorageStep(d))
  PROVE  HeardIsCurrent' /\ EmittedIsCached' /\ RestIsDeleted' /\ CacheIsCurrent'
<1>1. UNCHANGED <<armed, pc, heard, got, todo, cache>>
  BY DEF Change, StorageStep, StorageListed, StorageForbidden, StorageWatched, StorageEvent,
         StorageWatchEnds, StorageStops, LateListed, LateWatchEnds, LateStops, LateForbidden,
         LateWatched, refreshVars
<1>2. /\ store \in [Release -> Ver] /\ ws \in [Driver -> Storage]
      /\ \A k \in Release : Home[k] \in Driver
  BY HomeAssumption DEF RefreshInv, CacheTypeOK, Storage
<1>3. ASSUME NEW j \in Release, Change(j), NEW k \in Release, Settled(Home[k])'
      PROVE  Settled(Home[k]) /\ store'[k] = store[k]
  <2>1. /\ \E n \in Ver : store' = [store EXCEPT ![j] = n]
        /\ dirty' = IF ws[Home[j]] \in {"watch", "watching"} THEN dirty \cup {Home[j]}
                    ELSE dirty
        /\ UNCHANGED <<ws, asked, armed>>
    BY <1>3 DEF Change, refreshVars
  <2>2. Settled(Home[k])
    BY <1>3, <2>1 DEF Settled
  <2>3. k # j
    BY <1>3, <2>1 DEF Settled
  <2> QED
    BY <1>2, <2>1, <2>2, <2>3
<1>4. ASSUME NEW d \in Driver, StorageStep(d), NEW k \in Release, Settled(Home[k])'
      PROVE  Settled(Home[k]) /\ store'[k] = store[k]
  <2>1. store' = store /\ ~asked' /\ ~armed'
    BY <1>4 DEF Settled, StorageStep, StorageListed, StorageForbidden, StorageWatched,
       StorageEvent, StorageWatchEnds, StorageStops, LateListed, LateWatchEnds, LateStops,
       LateForbidden, LateWatched
  <2>2. ~StorageListed(d) /\ ~StorageEvent(d)
    BY <2>1 DEF StorageListed, AskedByList, StorageEvent
  <2>3. UNCHANGED <<asked, armed>>
    BY <1>4, <2>2 DEF StorageStep, StorageForbidden, StorageWatched, StorageWatchEnds,
       StorageStops, LateListed, LateWatchEnds, LateStops, LateForbidden, LateWatched,
       refreshVars
  <2>4. CASE StorageForbidden(d) \/ StorageWatchEnds(d) \/ StorageStops(d)
    <3>1. /\ \E x \in {"gone", "list"} : ws' = [ws EXCEPT ![d] = x]
          /\ dirty' = dirty \ {d}
      BY <2>4 DEF StorageForbidden, StorageWatchEnds, StorageStops
    <3>2. Home[k] # d
      BY <1>2, <1>4, <3>1 DEF Settled
    <3> QED
      BY <1>2, <1>4, <2>1, <2>3, <3>1, <3>2 DEF Settled
  <2>5. CASE StorageWatched(d)
    <3>1. ws[d] = "watch" /\ ws' = [ws EXCEPT ![d] = "watching"] /\ dirty' = dirty
      BY <2>5 DEF StorageWatched
    <3> QED
      BY <1>2, <1>4, <2>1, <2>3, <3>1 DEF Settled
  <2>6. CASE \/ LateListed(d) \/ LateForbidden(d) \/ LateWatched(d)
             \/ LateWatchEnds(d) \/ LateStops(d)
    <3>1. UNCHANGED <<ws, dirty>>
      BY <2>6 DEF LateListed, LateForbidden, LateWatched, LateWatchEnds, LateStops
    <3> QED
      BY <1>4, <2>1, <2>3, <3>1 DEF Settled
  <2> QED
    BY <1>4, <2>2, <2>4, <2>5, <2>6 DEF StorageStep
<1> QED
  BY <1>1, <1>3, <1>4, RefreshUntouched

\* A run begins with a request, and ends with no storage goroutine of its own.
LEMMA RunRefresh ==
  ASSUME RefreshInv,
         \/ \E c \in Client : Joins(c) \/ Leaves(c)
         \/ RunStarts \/ RunEnds \/ RunIsStopped \/ StopReturn \/ UNCHANGED cacheVars
  PROVE  HeardIsCurrent' /\ EmittedIsCached' /\ RestIsDeleted' /\ CacheIsCurrent'
<1>1. \A k \in Release : Home[k] \in Driver
  BY HomeAssumption
<1>2. CASE StopReturn
  <2>1. pc = "select" /\ pc' = pc /\ \A d \in Driver : ws'[d] = "none"
    BY <1>2 DEF StopReturn, RunAt
  <2>2. \A k \in Release : ~Settled(Home[k])'
    BY <1>1, <2>1 DEF Settled
  <2> QED
    BY <2>1, <2>2 DEF HeardIsCurrent, EmittedIsCached, RestIsDeleted, CacheIsCurrent
<1>3. CASE ~StopReturn
  <2>1. UNCHANGED <<store, pc, heard, got, todo, cache>>
        /\ (asked' \/ UNCHANGED <<ws, dirty, asked, armed>>)
    BY <1>3 DEF Joins, Leaves, RunStarts, RunEnds, RunIsStopped, cacheVars, storageVars,
       refreshVars
  <2> QED
    BY <2>1, RefreshUntouched DEF Settled
<1> QED
  BY <1>2, <1>3

\* A refresh lists every driver after the requests that it answers.
LEMMA RefreshRefresh ==
  ASSUME RefreshInv, RefreshStep
  PROVE  HeardIsCurrent' /\ EmittedIsCached' /\ RestIsDeleted' /\ CacheIsCurrent'
<1>1. \A k \in Release : Home[k] \in Driver
  BY HomeAssumption
<1>2. /\ store \in [Release -> Ver] /\ got \in [Release -> Ver] /\ cache \in [Release -> Ver]
  BY DEF RefreshInv, CacheTypeOK
<1>3. UNCHANGED <<store, ws, dirty>>
  BY DEF RefreshStep, Debounce, RefreshBegins, RefreshFails, ReleasesListed, DeleteMissing,
         BroadcastSynced, RefreshEnds, ListDriver, PassDriver, EmitObject, BroadcastDeletion,
         storageVars
<1>4. CASE Debounce
  <2>1. pc = "select" /\ pc' = pc /\ armed' /\ UNCHANGED <<heard, got, todo, cache>>
    BY <1>4 DEF Debounce, RunAt
  <2> QED
    BY <2>1, RefreshUntouched DEF Settled
<1>5. CASE RefreshBegins
  <2>1. pc' = "listing" /\ heard' = {}
    BY <1>5 DEF RefreshBegins
  <2> QED
    BY <2>1 DEF HeardIsCurrent, EmittedIsCached, RestIsDeleted, CacheIsCurrent
<1>6. \A d \in Driver : ~Debounce /\ ~RefreshBegins => Settled(d)' = Settled(d)
  <2>1. ~Debounce /\ ~RefreshBegins => UNCHANGED <<asked, armed>>
    BY DEF RefreshStep, RefreshFails, ReleasesListed, DeleteMissing, BroadcastSynced,
       RefreshEnds, ListDriver, PassDriver, EmitObject, BroadcastDeletion
  <2> QED
    BY <1>3, <2>1 DEF Settled
<1>7. ASSUME NEW d \in Driver, ListDriver(d), ~Debounce, ~RefreshBegins
      PROVE  HeardIsCurrent' /\ EmittedIsCached' /\ RestIsDeleted' /\ CacheIsCurrent'
  <2>1. /\ pc = "listing" /\ pc' = "listing" /\ heard' = heard \cup {d}
        /\ got' = [k \in Release |-> IF Home[k] = d THEN store[k] ELSE got[k]]
    BY <1>7 DEF ListDriver, RunAt
  <2>2. HeardIsCurrent'
    BY <1>1, <1>3, <1>6, <1>7, <2>1 DEF RefreshInv, HeardIsCurrent
  <2> QED
    BY <2>1, <2>2 DEF EmittedIsCached, RestIsDeleted, CacheIsCurrent
<1>8. ASSUME NEW d \in Driver, PassDriver(d), ~Debounce, ~RefreshBegins
      PROVE  HeardIsCurrent' /\ EmittedIsCached' /\ RestIsDeleted' /\ CacheIsCurrent'
  <2>1. UNCHANGED <<pc, heard, got, todo, cache>>
    BY <1>8 DEF PassDriver
  <2> QED
    BY <1>1, <1>3, <1>6, <1>8, <2>1, RefreshUntouched
<1>9. CASE RefreshFails
  <2>1. pc = "listing" /\ pc' = "select" /\ heard = {} /\ heard' = heard
    BY <1>9 DEF RefreshFails, RunAt
  <2>2. CacheIsCurrent'
    BY <1>1, <2>1 DEF CacheIsCurrent, Authoritative
  <2> QED
    BY <2>1, <2>2 DEF HeardIsCurrent, EmittedIsCached, RestIsDeleted
<1>10. CASE ReleasesListed /\ ~Debounce /\ ~RefreshBegins
  <2>1. /\ pc = "listing" /\ pc' = "items" /\ UNCHANGED <<heard, got>>
        /\ todo' = {k \in Release : Exists(got[k])}
    BY <1>10 DEF ReleasesListed, RunAt
  <2>2. HeardIsCurrent'
    BY <1>1, <1>3, <1>6, <1>10, <2>1 DEF RefreshInv, HeardIsCurrent
  <2> QED
    BY <2>1, <2>2 DEF EmittedIsCached, RestIsDeleted, CacheIsCurrent
<1>11. ASSUME NEW j \in Release, EmitObject(j), ~Debounce, ~RefreshBegins
       PROVE  HeardIsCurrent' /\ EmittedIsCached' /\ RestIsDeleted' /\ CacheIsCurrent'
  <2>1. /\ pc = "items" /\ pc' = "items" /\ UNCHANGED <<heard, got>>
        /\ todo' = todo \ {j} /\ cache' = [cache EXCEPT ![j] = got[j]]
    BY <1>11 DEF EmitObject, RunAt
  <2>2. HeardIsCurrent'
    BY <1>1, <1>3, <1>6, <1>11, <2>1 DEF RefreshInv, HeardIsCurrent
  <2>3. EmittedIsCached'
    BY <1>2, <2>1 DEF RefreshInv, EmittedIsCached
  <2> QED
    BY <2>1, <2>2, <2>3 DEF RestIsDeleted, CacheIsCurrent
<1>12. CASE DeleteMissing /\ ~Debounce /\ ~RefreshBegins
  <2>1. /\ pc = "items" /\ todo = {} /\ pc' = "deletions" /\ UNCHANGED <<heard, got, cache>>
        /\ todo' = {k \in Release : Authoritative /\ Exists(cache[k]) /\ ~Exists(got[k])}
    BY <1>12 DEF DeleteMissing, RunAt
  <2>2. HeardIsCurrent'
    BY <1>1, <1>3, <1>6, <1>12, <2>1 DEF RefreshInv, HeardIsCurrent
  <2>3. RestIsDeleted'
    BY <2>1 DEF RefreshInv, EmittedIsCached, RestIsDeleted, Same, Authoritative
  <2> QED
    BY <2>1, <2>2, <2>3 DEF EmittedIsCached, CacheIsCurrent
<1>13. ASSUME NEW j \in Release, BroadcastDeletion(j), ~Debounce, ~RefreshBegins
       PROVE  HeardIsCurrent' /\ EmittedIsCached' /\ RestIsDeleted' /\ CacheIsCurrent'
  <2>1. /\ pc = "deletions" /\ pc' = "deletions" /\ UNCHANGED <<heard, got>>
        /\ todo' = todo \ {j} /\ cache' = [cache EXCEPT ![j] = got[j]]
    BY <1>13 DEF BroadcastDeletion, RunAt
  <2>2. HeardIsCurrent'
    BY <1>1, <1>3, <1>6, <1>13, <2>1 DEF RefreshInv, HeardIsCurrent
  <2>3. RestIsDeleted'
    BY <1>2, <2>1 DEF RefreshInv, RestIsDeleted, Same, Authoritative
  <2> QED
    BY <2>1, <2>2, <2>3 DEF EmittedIsCached, CacheIsCurrent
<1>14. CASE BroadcastSynced /\ ~Debounce /\ ~RefreshBegins
  <2>1. pc = "deletions" /\ pc' = "errors" /\ todo = {} /\ UNCHANGED <<heard, cache>>
    BY <1>14 DEF BroadcastSynced, RunAt
  <2>2. ASSUME NEW k \in Release, Authoritative, Settled(Home[k]) PROVE Same(cache[k], store[k])
    <3>1. got[k] = store[k] /\ Same(cache[k], got[k])
      BY <1>1, <2>1, <2>2 DEF RefreshInv, HeardIsCurrent, RestIsDeleted, Authoritative
    <3> QED
      BY <3>1
  <2>3. CacheIsCurrent'
    BY <1>1, <1>3, <1>6, <1>14, <2>1, <2>2 DEF CacheIsCurrent, Authoritative
  <2> QED
    BY <2>1, <2>3 DEF HeardIsCurrent, EmittedIsCached, RestIsDeleted
<1>15. CASE RefreshEnds /\ ~Debounce /\ ~RefreshBegins
  <2>1. pc = "errors" /\ pc' = "select" /\ UNCHANGED <<heard, cache>>
    BY <1>15 DEF RefreshEnds, RunAt
  <2>2. CacheIsCurrent'
    BY <1>1, <1>3, <1>6, <1>15, <2>1 DEF RefreshInv, CacheIsCurrent, Authoritative
  <2> QED
    BY <2>1, <2>2 DEF HeardIsCurrent, EmittedIsCached, RestIsDeleted
<1> QED
  BY <1>4, <1>5, <1>7, <1>8, <1>9, <1>10, <1>11, <1>12, <1>13, <1>14, <1>15 DEF RefreshStep

LEMMA RefreshInvariance == CacheSpec => []RefreshInv
<1>1. CacheInit => RefreshInv
  <2> SUFFICES ASSUME CacheInit PROVE RefreshInv
    OBVIOUS
  <2>1. pc = "select" /\ \A d \in Driver : ws[d] = "none"
    BY DEF CacheInit
  <2>2. \A k \in Release : ~Settled(Home[k])
    BY <2>1, HomeAssumption DEF Settled
  <2> QED
    BY <2>1, <2>2, CacheTypeInit
       DEF RefreshInv, HeardIsCurrent, EmittedIsCached, RestIsDeleted, CacheIsCurrent
<1>2. RefreshInv /\ [CacheNext]_cacheVars => RefreshInv'
  <2> SUFFICES ASSUME RefreshInv, [CacheNext]_cacheVars PROVE RefreshInv'
    OBVIOUS
  <2>1. CacheTypeOK'
    BY CacheTypeStep DEF RefreshInv
  <2>2. HeardIsCurrent' /\ EmittedIsCached' /\ RestIsDeleted' /\ CacheIsCurrent'
    BY StorageRefresh, RunRefresh, RefreshRefresh DEF CacheNext
  <2> QED
    BY <2>1, <2>2 DEF RefreshInv
<1> QED
  BY <1>1, <1>2, PTL DEF CacheSpec

\* Nothing that happens in the cluster is lost between the initial refresh, the storage
\* list and the storage watch, nor while a refresh is under way (helmmgr.go:
\* watchStorage, requestRefresh, refresh).
THEOREM NoRefreshLost == CacheSpec => []RefreshNotLost
<1>1. RefreshInv => RefreshNotLost
  BY HomeAssumption DEF RefreshInv, CacheIsCurrent, RefreshNotLost, Settled, RunAt
<1> QED
  BY <1>1, RefreshInvariance, PTL
-----------------------------------------------------------------------------
(* CacheIsReplica.                                                         *)

\* A driver that was heard says no less than the cache does, and no more than what
\* happened in the cluster; what was not heard is not there.
GotBetween ==
    IF pc \in {"listing", "items", "deletions"}
    THEN \A k \in Release :
            IF Home[k] \in heard THEN cache[k] <= got[k] /\ got[k] <= store[k] ELSE got[k] = 0
    ELSE got = Nothing

\* What is still to be emitted or deleted is a driver's that was heard.
TodoIsHeard ==
    /\ pc = "items" => \A k \in todo : Exists(got[k])
    /\ pc = "deletions" => \A k \in todo : Authoritative

CacheBehind == \A k \in Release : cache[k] <= store[k]

ViewInv == CacheTypeOK /\ GotBetween /\ TodoIsHeard /\ CacheBehind

\* Versions are numbers.
LEMMA VersionTypes ==
  ASSUME CacheTypeOK
  PROVE  /\ store \in [Release -> Ver] /\ got \in [Release -> Ver] /\ cache \in [Release -> Ver]
         /\ todo \subseteq Release /\ heard \subseteq Driver
         /\ \A k \in Release : store[k] \in Nat /\ got[k] \in Nat /\ cache[k] \in Nat
<1>1. Ver \subseteq Nat
  BY MaxVerAssumption DEF Ver
<1> QED
  BY <1>1 DEF CacheTypeOK

\* What is to be emitted or deleted next has a later version than the cache.
LEMMA TodoIsLater ==
  ASSUME ViewInv, pc \in {"items", "deletions"}, NEW k \in todo
  PROVE  cache[k] <= got[k] /\ got[k] <= store[k]
<1>1. k \in Release /\ Home[k] \in Driver
  BY HomeAssumption, VersionTypes DEF ViewInv
<1>2. Home[k] \in heard
  <2>1. CASE pc = "items"
    <3>1. Exists(got[k])
      BY <2>1 DEF ViewInv, TodoIsHeard
    <3>2. got[k] # 0
      BY <3>1 DEF Exists
    <3> QED
      BY <1>1, <2>1, <3>2 DEF ViewInv, GotBetween
  <2>2. CASE pc = "deletions"
    BY <1>1, <2>2 DEF ViewInv, TodoIsHeard, Authoritative
  <2> QED
    BY <2>1, <2>2
<1> QED
  BY <1>1, <1>2 DEF ViewInv, GotBetween

\* The cluster only moves forward.
LEMMA ChangeView ==
  ASSUME ViewInv, NEW j \in Release, Change(j)
  PROVE  /\ GotBetween' /\ TodoIsHeard' /\ CacheBehind'
         /\ \E n \in Ver : n > store[j] /\ store' = [store EXCEPT ![j] = n]
<1>1. PICK n \in Ver : /\ n = store[j] + 1 \/ n = store[j] + 2
                       /\ store' = [store EXCEPT ![j] = n]
                       /\ UNCHANGED <<pc, heard, got, todo, cache>>
  BY DEF Change, refreshVars
<1>2. \A k \in Release : store[k] \in Nat /\ got[k] \in Nat /\ cache[k] \in Nat
  BY VersionTypes DEF ViewInv
<1>3. n > store[j] /\ n \in Nat
  BY <1>1, <1>2, MaxVerAssumption DEF Ver
<1>4. \A k \in Release : store[k] <= store'[k] /\ store'[k] \in Nat
  BY <1>1, <1>2, <1>3, VersionTypes DEF ViewInv
<1>5. \A k \in Release : (got[k] <= store[k] => got[k] <= store'[k])
                         /\ (cache[k] <= store[k] => cache[k] <= store'[k])
  BY <1>2, <1>4
<1>6. GotBetween'
  BY <1>1, <1>5 DEF ViewInv, GotBetween
<1>7. TodoIsHeard' /\ CacheBehind'
  BY <1>1, <1>5 DEF ViewInv, TodoIsHeard, CacheBehind, Authoritative
<1> QED
  BY <1>1, <1>3, <1>6, <1>7

\* The storage goroutines, the subscribers and the entry's lock leave it alone.
LEMMA OtherView ==
  ASSUME ViewInv,
         \/ \E d \in Driver : StorageStep(d)
         \/ \E c \in Client : Joins(c) \/ Leaves(c)
         \/ RunStarts \/ RunEnds \/ RunIsStopped \/ StopReturn \/ UNCHANGED cacheVars
  PROVE  /\ GotBetween' /\ TodoIsHeard' /\ CacheBehind' /\ UNCHANGED <<store, cache>>
<1>1. UNCHANGED <<store, cache, pc, got, todo>>
  BY DEF StorageStep, StorageListed, StorageForbidden, StorageWatched, StorageEvent,
         StorageWatchEnds, StorageStops, LateListed, LateWatchEnds, LateStops, LateForbidden,
         LateWatched, Joins, Leaves, RunStarts, RunEnds, RunIsStopped, StopReturn, cacheVars,
         storageVars, refreshVars
<1>2. heard' = heard \/ pc = "select"
  BY DEF StorageStep, StorageListed, StorageForbidden, StorageWatched, StorageEvent,
         StorageWatchEnds, StorageStops, LateListed, LateWatchEnds, LateStops, LateForbidden,
         LateWatched, Joins, Leaves, RunStarts, RunEnds, RunIsStopped, StopReturn, RunAt,
         cacheVars, refreshVars
<1> QED
  BY <1>1, <1>2 DEF ViewInv, GotBetween, TodoIsHeard, CacheBehind, Authoritative

\* A refresh moves the cache forward, one release at a time, to what it got.
LEMMA RefreshView ==
  ASSUME ViewInv, RefreshStep
  PROVE  /\ GotBetween' /\ TodoIsHeard' /\ CacheBehind'
         /\ store' = store
         /\ \/ cache' = cache
            \/ /\ phase = "live" /\ phase' = phase
               /\ \A k \in Release : cache[k] <= cache'[k] /\ cache'[k] <= store[k]
<1>1. store' = store /\ phase' = phase
  BY DEF RefreshStep, Debounce, RefreshBegins, RefreshFails, ReleasesListed, DeleteMissing,
         BroadcastSynced, RefreshEnds, ListDriver, PassDriver, EmitObject, BroadcastDeletion,
         storageVars, runVars
<1>2. /\ cache \in [Release -> Ver]
      /\ \A k \in Release : store[k] \in Nat /\ got[k] \in Nat /\ cache[k] \in Nat
  BY VersionTypes DEF ViewInv
<1>3. CASE Debounce \/ RefreshEnds
  <2>1. pc \in {"select", "errors"} /\ pc' = "select" /\ UNCHANGED <<got, cache>>
    BY <1>3 DEF Debounce, RefreshEnds, RunAt
  <2> QED
    BY <1>1, <2>1 DEF ViewInv, GotBetween, TodoIsHeard, CacheBehind
<1>4. CASE RefreshBegins
  <2>1. pc = "select" /\ pc' = "listing" /\ heard' = {} /\ UNCHANGED <<got, cache>>
    BY <1>4 DEF RefreshBegins, RunAt
  <2>2. GotBetween'
    BY <2>1 DEF ViewInv, GotBetween, Nothing
  <2> QED
    BY <1>1, <2>1, <2>2 DEF ViewInv, TodoIsHeard, CacheBehind
<1>5. ASSUME NEW d \in Driver, ListDriver(d)
      PROVE  GotBetween' /\ TodoIsHeard' /\ CacheBehind' /\ cache' = cache
  <2>1. /\ pc = "listing" /\ pc' = "listing" /\ heard' = heard \cup {d} /\ cache' = cache
        /\ got' = [k \in Release |-> IF Home[k] = d THEN store[k] ELSE got[k]]
    BY <1>5 DEF ListDriver, RunAt
  <2>2. \A k \in Release : cache[k] <= store[k] /\ store[k] <= store[k]
    BY <1>2 DEF ViewInv, CacheBehind
  <2>3. GotBetween'
    BY <1>1, <2>1, <2>2 DEF ViewInv, GotBetween
  <2> QED
    BY <1>1, <2>1, <2>3 DEF ViewInv, TodoIsHeard, CacheBehind
<1>6. CASE \/ \E d \in Driver : PassDriver(d)
           \/ ReleasesListed \/ DeleteMissing
  <2>1. /\ pc \in {"listing", "items"} /\ pc' \in {"listing", "items", "deletions"}
        /\ UNCHANGED <<heard, got, cache>>
        /\ pc' = "items" => todo' = {k \in Release : Exists(got[k])}
        /\ pc' = "deletions" => \A k \in todo' : Authoritative
    BY <1>6 DEF PassDriver, ReleasesListed, DeleteMissing, RunAt
  <2> QED
    BY <1>1, <2>1 DEF ViewInv, GotBetween, TodoIsHeard, CacheBehind, Authoritative
<1>7. CASE RefreshFails
  <2>1. pc = "listing" /\ heard = {} /\ pc' = "select" /\ UNCHANGED <<got, cache>>
    BY <1>7 DEF RefreshFails, RunAt
  <2>2. got = Nothing
    <3>1. \A k \in Release : got[k] = 0
      BY <2>1 DEF ViewInv, GotBetween
    <3> QED
      BY <3>1, VersionTypes DEF ViewInv, Nothing
  <2> QED
    BY <1>1, <2>1, <2>2 DEF ViewInv, GotBetween, TodoIsHeard, CacheBehind
<1>8. CASE BroadcastSynced
  <2>1. pc' = "errors" /\ got' = Nothing /\ cache' = cache
    BY <1>8 DEF BroadcastSynced
  <2> QED
    BY <1>1, <2>1 DEF ViewInv, GotBetween, TodoIsHeard, CacheBehind
<1>9. ASSUME NEW j \in Release, EmitObject(j) \/ BroadcastDeletion(j)
      PROVE  /\ GotBetween' /\ TodoIsHeard' /\ CacheBehind' /\ phase = "live"
             /\ \A k \in Release : cache[k] <= cache'[k] /\ cache'[k] <= store[k]
  <2>1. /\ phase = "live" /\ pc \in {"items", "deletions"} /\ j \in todo
        /\ todo' = todo \ {j} /\ cache' = [cache EXCEPT ![j] = got[j]]
        /\ UNCHANGED <<pc, heard, got>>
    BY <1>9 DEF EmitObject, BroadcastDeletion, RunAt
  <2>2. cache[j] <= got[j] /\ got[j] <= store[j]
    BY <2>1, TodoIsLater
  <2>3. \A k \in Release : (cache'[k] = cache[k] \/ cache'[k] = got[k]) /\ got[j] <= got[j]
    BY <1>2, <2>1
  <2>4. \A k \in Release : k # j => cache'[k] = cache[k]
    BY <1>2, <2>1
  <2>5. cache'[j] = got[j]
    BY <1>2, <2>1
  <2>6. \A k \in Release : cache[k] <= cache'[k] /\ cache'[k] <= store[k]
    BY <1>2, <2>2, <2>4, <2>5 DEF ViewInv, CacheBehind
  <2>7. GotBetween'
    <3> SUFFICES ASSUME NEW k \in Release
                 PROVE  IF Home[k] \in heard THEN cache'[k] <= got[k] /\ got[k] <= store[k]
                        ELSE got[k] = 0
      BY <1>1, <2>1 DEF GotBetween
    <3>1. IF Home[k] \in heard THEN cache[k] <= got[k] /\ got[k] <= store[k] ELSE got[k] = 0
      BY <2>1 DEF ViewInv, GotBetween
    <3> QED
      BY <1>2, <2>3, <3>1
  <2>8. TodoIsHeard' /\ CacheBehind'
    BY <1>1, <2>1, <2>6 DEF ViewInv, TodoIsHeard, CacheBehind, Authoritative
  <2> QED
    BY <2>1, <2>6, <2>7, <2>8
<1> QED
  BY <1>1, <1>3, <1>4, <1>5, <1>6, <1>7, <1>8, <1>9
     DEF RefreshStep, Debounce, RefreshBegins, RefreshFails, ReleasesListed, DeleteMissing,
         BroadcastSynced, RefreshEnds, PassDriver

LEMMA ViewInvariance == CacheSpec => []ViewInv
<1>1. CacheInit => ViewInv
  <2> SUFFICES ASSUME CacheInit PROVE ViewInv
    OBVIOUS
  <2>1. pc = "select" /\ got = Nothing /\ cache = Nothing
    BY DEF CacheInit
  <2>2. CacheBehind
    BY <2>1, CacheTypeInit, VersionTypes DEF CacheBehind, Nothing
  <2> QED
    BY <2>1, <2>2, CacheTypeInit DEF ViewInv, GotBetween, TodoIsHeard
<1>2. ViewInv /\ [CacheNext]_cacheVars => ViewInv'
  <2> SUFFICES ASSUME ViewInv, [CacheNext]_cacheVars PROVE ViewInv'
    OBVIOUS
  <2>1. CacheTypeOK'
    BY CacheTypeStep DEF ViewInv
  <2>2. GotBetween' /\ TodoIsHeard' /\ CacheBehind'
    BY ChangeView, OtherView, RefreshView DEF CacheNext
  <2> QED
    BY <2>1, <2>2 DEF ViewInv
<1> QED
  BY <1>1, <1>2, PTL DEF CacheSpec

\* Every step is one of the abstract view, or changes nothing there.
LEMMA StepIsForward ==
  ASSUME ViewInv, [CacheNext]_cacheVars PROVE [Page!ReplicaNext]_(Page!replicaVars)
<1>1. /\ store \in [Release -> Ver] /\ cache \in [Release -> Ver]
      /\ cache' \in [Release -> Ver]
  <2>1. CacheTypeOK'
    BY CacheTypeStep DEF ViewInv
  <2> QED
    BY <2>1 DEF ViewInv, CacheTypeOK
<1>2. CASE \E k \in Release : Change(k)
  <2>1. PICK k \in Release : Change(k)
    BY <1>2
  <2>2. PICK n \in Ver : n > store[k] /\ store' = [store EXCEPT ![k] = n]
    BY <2>1, ChangeView
  <2>3. UNCHANGED <<phase, cache>>
    BY <2>1 DEF Change, runVars, refreshVars
  <2>4. Page!Change(k)
    BY <2>2, <2>3 DEF Page!Change, Shown, Ver
  <2> QED
    BY <2>4 DEF Page!ReplicaNext
<1>3. ASSUME UNCHANGED <<store, cache>> PROVE [Page!ReplicaNext]_(Page!replicaVars)
  <2>1. CASE Shown' = Shown
    BY <1>3, <2>1 DEF Page!replicaVars
  <2>2. CASE Shown = {} /\ Shown' = {"cache"}
    <3>1. Page!Open("cache")
      BY <1>3, <2>2 DEF Page!Open
    <3> QED
      BY <3>1 DEF Page!ReplicaNext
  <2>3. CASE Shown = {"cache"} /\ Shown' = {}
    <3>1. cache = Nothing
      BY <1>3, <2>3 DEF Shown
    <3>2. [c \in {"cache"} |-> cache]' =
            [[c \in {"cache"} |-> cache] EXCEPT !["cache"] = Page!Empty]
      BY <1>3, <3>1 DEF Page!Empty, Nothing
    <3>3. Page!Close("cache")
      BY <1>3, <2>3, <3>2 DEF Page!Close
    <3> QED
      BY <3>3 DEF Page!ReplicaNext
  <2> QED
    BY <2>1, <2>2, <2>3 DEF Shown
<1>4. ASSUME store' = store, phase = "live", phase' = phase,
             \A k \in Release : cache[k] <= cache'[k] /\ cache'[k] <= store[k]
      PROVE  [Page!ReplicaNext]_(Page!replicaVars)
  <2>1. Shown = {"cache"} /\ Shown' = {"cache"}
    BY <1>4 DEF Shown
  <2> DEFINE f == [c \in {"cache"} |-> cache]
             g == [c \in {"cache"} |-> cache']
  <2>2. f["cache"] = cache /\ g = [f EXCEPT !["cache"] = cache']
    OBVIOUS
  <2>3. Page!Refresh("cache")
    BY <1>1, <1>4, <2>1, <2>2 DEF Page!Refresh, Ver
  <2> QED
    BY <2>3 DEF Page!ReplicaNext
<1>5. CASE RefreshStep
  BY <1>3, <1>4, <1>5, RefreshView
<1>6. CASE \/ \E d \in Driver : StorageStep(d)
           \/ \E c \in Client : Joins(c) \/ Leaves(c)
           \/ RunStarts \/ RunEnds \/ RunIsStopped \/ StopReturn \/ UNCHANGED cacheVars
  BY <1>3, <1>6, OtherView
<1> QED
  BY <1>2, <1>5, <1>6 DEF CacheNext

\* The cache shows, for every release, a version that the cluster has or had, and never
\* goes back: a driver that is forbidden, skipped or fails while another one is listed
\* does not make its releases disappear (helmmgr.go: listReleases, refresh).
THEOREM CacheGoesForward == CacheSpec => CacheIsReplica
<1>1. CacheInit => Page!ReplicaInit
  <2> SUFFICES ASSUME CacheInit PROVE Page!ReplicaInit
    OBVIOUS
  <2>1. store \in [Release -> 0..MaxVer] /\ phase = "none" /\ cache = Nothing
    BY DEF CacheInit, RunInit, Ver
  <2>2. Shown = {} /\ [c \in {"cache"} |-> cache] = [c \in {"cache"} |-> Page!Empty]
    BY <2>1 DEF Shown, Nothing, Page!Empty
  <2> QED
    BY <2>1, <2>2 DEF Page!ReplicaInit
<1>2. ViewInv /\ [CacheNext]_cacheVars => [Page!ReplicaNext]_(Page!replicaVars)
  BY StepIsForward
<1> QED
  BY <1>1, <1>2, ViewInvariance, PTL DEF CacheSpec, CacheIsReplica, Page!ReplicaSpec

-----------------------------------------------------------------------------
(* The pages: messages and steps.                                          *)

LEMMA Messages ==
  /\ \A k \in Release, n \in Ver :
        Delta(k, n) \in Msg /\ DOMAIN Delta(k, n).obj = {k} /\ Delta(k, n).obj[k] = n
  /\ Synced \in Msg /\ DOMAIN Synced.obj = {}
  /\ Error \in Msg /\ DOMAIN Error.obj = {}
  /\ DOMAIN NoMsg.obj = {}
  /\ \A m \in Msg : DOMAIN m.obj \subseteq Release
  /\ \A m \in Msg : \A k \in DOMAIN m.obj : m.obj[k] \in Ver
<1>1. \A k, n : DOMAIN Delta(k, n).obj = {k} /\ Delta(k, n).obj[k] = n
  BY DEF Delta
<1>2. DOMAIN Synced.obj = {} /\ DOMAIN Error.obj = {} /\ DOMAIN NoMsg.obj = {}
  BY DEF Synced, Error, NoMsg, Plain
<1>3. \A m \in Msg : (\E k \in Release, n \in Ver : m = Delta(k, n)) \/ m = Synced \/ m = Error
  BY DEF Msg
<1>4. Synced \in Msg /\ Error \in Msg /\ \A k \in Release, n \in Ver : Delta(k, n) \in Msg
  BY DEF Msg
<1> QED
  BY <1>1, <1>2, <1>3, <1>4

\* The pages do nothing to the cache that HelmCache does not have.
LEMMA CacheSteps == [PagesNext]_vars => [CacheNext]_cacheVars
<1> SUFFICES ASSUME [PagesNext]_vars PROVE [CacheNext]_cacheVars
  OBVIOUS
<1>1. CASE RunStep
  BY <1>1 DEF RunStep, RunDoes, RunQuietly, Emits, SendsStorageErrors, CacheNext, RefreshStep
<1>2. CASE \E d \in Driver : StorageStepOf(d)
  BY <1>2 DEF StorageStepOf, Quietly, RecordsError, SendStorageError, CacheNext, StorageStep
<1>3. CASE Quietly(RunStarts) \/ Quietly(RunEnds) \/ Quietly(RunIsStopped)
           \/ \E k \in Release : Quietly(Change(k))
  BY <1>3 DEF Quietly, CacheNext
<1>4. CASE Send \/ History
  BY <1>4 DEF Send, History
<1>5. CASE \E c \in Client : PageStep(c)
  <2>1. PICK c \in Client : PageStep(c)
    BY <1>5
  <2>2. CASE Subscribe(c)
    BY <2>2 DEF Subscribe, Joins, CacheNext
  <2>3. CASE Disconnect(c)
    BY <2>3 DEF Disconnect, Leaves, CacheNext
  <2>4. CASE ClosePage(c)
    BY <2>4 DEF ClosePage, Leaves, CacheNext
  <2>5. CASE Lookup(c) \/ StoreIfAbsent(c) \/ SendSnapshotItem(c) \/ SendSnapshotEnd(c)
             \/ Deliver(c)
    BY <2>5 DEF Lookup, StoreIfAbsent, SendSnapshotItem, SendSnapshotEnd, Deliver
  <2> QED
    BY <2>1, <2>2, <2>3, <2>4, <2>5 DEF PageStep
<1>6. CASE UNCHANGED vars
  BY <1>6 DEF vars
<1> QED
  BY <1>1, <1>2, <1>3, <1>4, <1>5, <1>6 DEF PagesNext

\* What a step of the run does to the cache, and what it is about to send.
LEMMA RunSends ==
  ASSUME CacheTypeOK, RunStep
  PROVE  /\ out = NoMsg /\ UNCHANGED <<clients, owed, pageVars>>
         /\ terminal' \in {terminal, TRUE, FALSE}
         /\ \/ cache' = cache /\ out' \in {NoMsg, Synced, Error}
            \/ \E k \in Release : cache' = [cache EXCEPT ![k] = got[k]] /\ out' = Delta(k, got[k])
<1>1. CASE \E k \in Release : Emits(k)
  <2>1. PICK k \in Release : Emits(k)
    BY <1>1
  <2>2. cache = [cache EXCEPT ![k] = cache[k]]
    BY DEF CacheTypeOK
  <2>3. /\ EmitObject(k) /\ out = NoMsg /\ UNCHANGED <<owed, pageVars>>
        /\ out' = (IF cache[k] = got[k] THEN NoMsg ELSE Delta(k, got[k]))
        /\ terminal' = terminal
    BY <2>1 DEF Emits, RunDoes
  <2> QED
    BY <2>2, <2>3 DEF EmitObject, runVars
<1>2. CASE \E k \in Release : RunDoes(BroadcastDeletion(k), Delta(k, got[k]), terminal)
  BY <1>2 DEF RunDoes, BroadcastDeletion, runVars
<1>3. CASE RunDoes(RefreshFails, Error, TRUE) \/ RunDoes(ReleasesListed, NoMsg, FALSE)
           \/ RunDoes(BroadcastSynced, Synced, terminal) \/ SendsStorageErrors
  BY <1>3 DEF RunDoes, RefreshFails, ReleasesListed, BroadcastSynced, SendsStorageErrors,
              RefreshEnds, runVars
<1>4. CASE RunQuietly(StopReturn)
  BY <1>4 DEF RunQuietly, RunDoes, StopReturn, Stopped
<1>5. CASE \/ RunQuietly(Debounce) \/ RunQuietly(RefreshBegins) \/ RunQuietly(DeleteMissing)
           \/ \E d \in Driver : RunQuietly(ListDriver(d)) \/ RunQuietly(PassDriver(d))
  BY <1>5 DEF RunQuietly, RunDoes, Debounce, RefreshBegins, DeleteMissing, ListDriver,
              PassDriver, runVars
<1> QED
  BY <1>1, <1>2, <1>3, <1>4, <1>5 DEF RunStep

\* The steps that nobody sees yet.
LEMMA QuietSteps ==
  ASSUME \/ Quietly(RunStarts) \/ Quietly(RunEnds) \/ Quietly(RunIsStopped)
         \/ \E k \in Release : Quietly(Change(k))
         \/ \E d \in Driver : StorageStepOf(d) /\ ~SendStorageError(d)
  PROVE  /\ UNCHANGED <<cache, clients, out, terminal, pageVars>>
         /\ owed' = owed \/ \E d \in Driver : owed' = owed \cup {d}
<1>1. CASE \E d \in Driver : RecordsError(d)
  BY <1>1 DEF RecordsError, StorageForbidden, LateForbidden, refreshVars, runVars
<1>2. CASE \E d \in Driver : StorageStepOf(d) /\ ~SendStorageError(d) /\ ~RecordsError(d)
  BY <1>2 DEF StorageStepOf, Quietly, StorageListed, StorageWatched, StorageEvent,
              StorageWatchEnds, StorageStops, LateListed, LateStops, LateWatched,
              LateWatchEnds, refreshVars,
              runVars, sendVars
<1>3. CASE Quietly(RunStarts) \/ Quietly(RunEnds) \/ Quietly(RunIsStopped)
           \/ \E k \in Release : Quietly(Change(k))
  BY <1>3 DEF Quietly, RunStarts, Start, RunEnds, Ended, RunIsStopped, Stop, Change,
              refreshVars, runVars, sendVars
<1> QED
  BY <1>1, <1>2, <1>3

-----------------------------------------------------------------------------
(* The pages: types.                                                       *)

Sub == {"closed", "retry", "miss", "creator", "joiner", "open"}
Snap == [items : SUBSET Release, from : [Release -> Ver], last : {Synced, Error, NoMsg}]
Queued(q) == q \in Seq(Msg) /\ Len(q) <= Cap

\* The types of what the pages have.
PageTypes ==
  /\ stored \in BOOLEAN
  /\ sub \in [Client -> Sub]
  /\ queue \in [Client -> Seq(Msg)] /\ \A c \in Client : Len(queue[c]) <= Cap
  /\ snap \in [Client -> Snap]
  /\ view \in [Client -> [Release -> Ver]]
  /\ shown \in [Client -> {"loading", "ready", "error"}]
  /\ astray \in [Client -> SUBSET Release]

LEMMA PagesTypes ==
  PagesTypeOK <=> /\ CacheTypeOK /\ out \in Msg \cup {NoMsg} /\ owed \subseteq Driver
                  /\ terminal \in BOOLEAN /\ PageTypes
BY DEF PagesTypeOK, PageTypes, Sub, Snap

LEMMA Blank == Nothing \in [Release -> Ver] /\ NoSnap \in Snap
<1>1. Nothing \in [Release -> Ver]
  BY MaxVerAssumption DEF Nothing, Ver
<1> QED
  BY <1>1 DEF NoSnap, Snap

LEMMA PagesTypeInit == PagesInit => PagesTypeOK
<1> SUFFICES ASSUME PagesInit PROVE PagesTypeOK
  OBVIOUS
<1>1. CacheTypeOK
  BY CacheTypeInit DEF PagesInit
<1>2. PageTypes
  <2>1. <<>> \in Seq(Msg) /\ Len(<<>>) <= Cap
    BY CapAssumption
  <2> QED
    BY <2>1, Blank DEF PagesInit, PageTypes, Sub
<1> QED
  BY <1>1, <1>2, PagesTypes DEF PagesInit

LEMMA AppendTypes ==
  ASSUME NEW q, Queued(q), Len(q) < Cap, NEW m \in Msg PROVE Queued(Append(q, m))
BY CapAssumption DEF Queued

\* A broadcast.
LEMMA SentTypes ==
  ASSUME PageTypes, NEW m \in Msg
  PROVE  /\ Sent(m) \in [Client -> Seq(Msg)] /\ \A c \in Client : Len(Sent(m)[c]) <= Cap
         /\ DroppedBy(m) \in [Client -> SUBSET Release]
<1>1. \A c \in Client : Queued(queue[c]) /\ astray[c] \subseteq Release
  BY DEF PageTypes, Queued
<1>2. ASSUME NEW c \in Client PROVE Queued(Sent(m)[c])
  BY <1>1, AppendTypes DEF Sent, HasRoom
<1>3. ASSUME NEW c \in Client PROVE DroppedBy(m)[c] \subseteq Release
  BY <1>1, Messages DEF DroppedBy
<1>4. Sent(m) = [c \in Client |-> Sent(m)[c]] /\ DroppedBy(m) = [c \in Client |-> DroppedBy(m)[c]]
  BY DEF Sent, DroppedBy
<1> QED
  BY <1>2, <1>3, <1>4 DEF Queued

LEMMA FirstItemsType == ASSUME CacheTypeOK PROVE FirstItems \in Snap
<1>1. cache \in [Release -> Ver] /\ 0 \in Ver
  BY MaxVerAssumption DEF CacheTypeOK, Ver
<1>2. [k \in Release |-> IF Exists(cache[k]) THEN cache[k] ELSE 0] \in [Release -> Ver]
  BY <1>1
<1> QED
  BY <1>2 DEF FirstItems, Snap

\* The steps of a page.
LEMMA PageStepTypes ==
  ASSUME CacheTypeOK, PageTypes, NEW c \in Client, PageStep(c) PROVE PageTypes'
<1>1. /\ sub \in [Client -> Sub] /\ stored \in BOOLEAN
      /\ queue \in [Client -> Seq(Msg)] /\ \A b \in Client : Len(queue[b]) <= Cap
      /\ snap \in [Client -> Snap]
      /\ view \in [Client -> [Release -> Ver]]
      /\ shown \in [Client -> {"loading", "ready", "error"}]
      /\ astray \in [Client -> SUBSET Release]
  BY DEF PageTypes
<1>2. Queued(<<>>) /\ 0 \in Ver
  BY CapAssumption, MaxVerAssumption DEF Queued, Ver
<1>3. ASSUME NEW q, Queued(q), queue' = [queue EXCEPT ![c] = q]
      PROVE  queue' \in [Client -> Seq(Msg)] /\ \A b \in Client : Len(queue'[b]) <= Cap
  BY <1>1, <1>3 DEF Queued
<1>4. CASE Lookup(c) \/ StoreIfAbsent(c)
  BY <1>1, <1>4 DEF Lookup, StoreIfAbsent, Sub, PageTypes
<1>5. CASE Subscribe(c)
  <2>1. snap' \in [Client -> Snap]
    BY <1>1, <1>5, FirstItemsType, Blank DEF Subscribe
  <2>2. sub' \in [Client -> Sub] /\ astray' \in [Client -> SUBSET Release]
    BY <1>1, <1>5 DEF Subscribe, Sub
  <2> QED
    BY <1>1, <1>5, <2>1, <2>2 DEF Subscribe, PageTypes
<1>6. CASE SendSnapshotItem(c)
  <2>1. PICK k \in snap[c].items :
          /\ queue' = [queue EXCEPT ![c] = Append(@, Delta(k, snap[c].from[k]))]
          /\ snap' = [snap EXCEPT ![c].items = @ \ {k}, ![c].from[k] = 0]
          /\ astray' = [astray EXCEPT ![c] =
                           IF snap[c].from[k] = cache[k] THEN @ ELSE @ \cup {k}]
    BY <1>6 DEF SendSnapshotItem
  <2>2. k \in Release /\ snap[c].from[k] \in Ver
    BY <1>1 DEF Snap
  <2>3. Queued(Append(queue[c], Delta(k, snap[c].from[k])))
    BY <1>1, <1>6, <2>2, AppendTypes, Messages DEF SendSnapshotItem, HasRoom, Queued
  <2>4. queue' = [queue EXCEPT ![c] = Append(queue[c], Delta(k, snap[c].from[k]))]
    BY <2>1
  <2>5. queue' \in [Client -> Seq(Msg)] /\ \A b \in Client : Len(queue'[b]) <= Cap
    BY <1>3, <2>3, <2>4
  <2>6. snap' \in [Client -> Snap]
    <3>1. snap[c] \in Snap
      BY <1>1
    <3>2. [snap[c] EXCEPT !.items = @ \ {k}, !.from[k] = 0] \in Snap
      BY <1>2, <2>2, <3>1 DEF Snap
    <3>3. snap' = [snap EXCEPT ![c] = [snap[c] EXCEPT !.items = @ \ {k}, !.from[k] = 0]]
      BY <1>1, <2>1, <3>1 DEF Snap
    <3> QED
      BY <1>1, <3>2, <3>3
  <2>7. astray' \in [Client -> SUBSET Release]
    BY <1>1, <2>1, <2>2
  <2> QED
    BY <1>1, <1>6, <2>5, <2>6, <2>7 DEF SendSnapshotItem, PageTypes
<1>7. CASE SendSnapshotEnd(c)
  <2>1. snap[c].last \in Msg
    BY <1>1, <1>7, Messages DEF Snap, SendSnapshotEnd
  <2>2. Queued(Append(queue[c], snap[c].last))
    BY <1>1, <1>7, <2>1, AppendTypes DEF SendSnapshotEnd, HasRoom, Queued
  <2>3. queue' = [queue EXCEPT ![c] = Append(queue[c], snap[c].last)]
    BY <1>7 DEF SendSnapshotEnd
  <2>4. queue' \in [Client -> Seq(Msg)] /\ \A b \in Client : Len(queue'[b]) <= Cap
    BY <1>3, <2>2, <2>3
  <2> QED
    BY <1>1, <1>7, <2>4, Blank DEF SendSnapshotEnd, PageTypes
<1>8. CASE Deliver(c)
  <2> DEFINE m == Head(queue[c])
  <2>1. /\ view' = [view EXCEPT ![c] = [k \in Release |-> IF k \in DOMAIN m.obj
                                                          THEN m.obj[k] ELSE @[k]]]
        /\ shown' = [shown EXCEPT ![c] = IF m = Error THEN "error" ELSE "ready"]
        /\ queue' = [queue EXCEPT ![c] = Tail(queue[c])] /\ queue[c] # <<>>
    BY <1>8 DEF Deliver
  <2>2. m \in Msg /\ Queued(Tail(queue[c]))
    BY <1>1, <2>1, CapAssumption DEF Queued
  <2>3. queue' \in [Client -> Seq(Msg)] /\ \A b \in Client : Len(queue'[b]) <= Cap
    BY <1>3, <2>1, <2>2
  <2> HIDE DEF m
  <2>4. view' \in [Client -> [Release -> Ver]]
    BY <1>1, <2>1, <2>2, Messages
  <2>5. shown' \in [Client -> {"loading", "ready", "error"}]
    BY <1>1, <2>1
  <2> QED
    BY <1>1, <1>8, <2>3, <2>4, <2>5 DEF Deliver, PageTypes
<1>9. CASE Disconnect(c) \/ ClosePage(c)
  <2>1. queue' = [queue EXCEPT ![c] = <<>>] /\ snap' = [snap EXCEPT ![c] = NoSnap]
        /\ stored' = stored
    BY <1>9 DEF Disconnect, ClosePage
  <2>2. queue' \in [Client -> Seq(Msg)] /\ \A b \in Client : Len(queue'[b]) <= Cap
    BY <1>2, <1>3, <2>1
  <2>3. snap' \in [Client -> Snap]
    BY <1>1, <2>1, Blank
  <2>4. sub' \in [Client -> Sub] /\ view' \in [Client -> [Release -> Ver]]
        /\ shown' \in [Client -> {"loading", "ready", "error"}]
        /\ astray' \in [Client -> SUBSET Release]
    <3>1. /\ \E x \in Sub : sub' = [sub EXCEPT ![c] = x]
          /\ view' = view \/ view' = [view EXCEPT ![c] = Nothing]
          /\ \E x \in {"error", "loading"} : shown' = [shown EXCEPT ![c] = x]
          /\ \E x \in {Release, {}} : astray' = [astray EXCEPT ![c] = x]
      BY <1>9 DEF Disconnect, ClosePage, Sub
    <3>2. sub' \in [Client -> Sub]
      BY <1>1, <3>1
    <3>3. view' \in [Client -> [Release -> Ver]]
      BY <1>1, <3>1, Blank
    <3>4. shown' \in [Client -> {"loading", "ready", "error"}]
      BY <1>1, <3>1
    <3>5. astray' \in [Client -> SUBSET Release]
      BY <1>1, <3>1
    <3> QED
      BY <3>2, <3>3, <3>4, <3>5
  <2> QED
    BY <1>1, <2>1, <2>2, <2>3, <2>4 DEF PageTypes
<1> QED
  BY <1>4, <1>5, <1>6, <1>7, <1>8, <1>9 DEF PageStep

LEMMA PagesTypeStep == PagesTypeOK /\ [PagesNext]_vars => PagesTypeOK'
<1> SUFFICES ASSUME PagesTypeOK, [PagesNext]_vars PROVE PagesTypeOK'
  OBVIOUS
<1>1. CacheTypeOK'
  BY CacheTypeStep, CacheSteps DEF PagesTypeOK
<1>2. /\ CacheTypeOK /\ out \in Msg \cup {NoMsg} /\ owed \subseteq Driver
      /\ terminal \in BOOLEAN /\ PageTypes
  BY PagesTypes
<1>3. SUFFICES /\ out' \in Msg \cup {NoMsg} /\ owed' \subseteq Driver
               /\ terminal' \in BOOLEAN /\ PageTypes'
  BY <1>1, PagesTypes DEF PagesTypeOK, PageTypes, Sub, Snap
<1>4. UNCHANGED pageVars => PageTypes'
  BY <1>2 DEF pageVars, PageTypes
<1>5. CASE RunStep
  <2>1. \A k \in Release : Delta(k, got[k]) \in Msg
    BY <1>2, Messages DEF CacheTypeOK
  <2> QED
    BY <1>2, <1>4, <1>5, <2>1, RunSends, Messages
<1>6. CASE \/ Quietly(RunStarts) \/ Quietly(RunEnds) \/ Quietly(RunIsStopped)
           \/ \E k \in Release : Quietly(Change(k))
           \/ \E d \in Driver : StorageStepOf(d) /\ ~SendStorageError(d)
  BY <1>2, <1>4, <1>6, QuietSteps
<1>7. CASE Send
  <2>1. out \in Msg /\ queue' = Sent(out) /\ astray' = DroppedBy(out) /\ out' = NoMsg
    BY <1>2, <1>7 DEF Send
  <2>2. /\ Sent(out) \in [Client -> Seq(Msg)] /\ \A c \in Client : Len(Sent(out)[c]) <= Cap
        /\ DroppedBy(out) \in [Client -> SUBSET Release]
    BY <1>2, <2>1, SentTypes
  <2>3. PageTypes'
    BY <1>2, <1>7, <2>1, <2>2 DEF Send, PageTypes
  <2> QED
    BY <1>2, <1>7, <2>3 DEF Send
<1>8. CASE \E d \in Driver : SendStorageError(d)
  <2>1. /\ queue' = Sent(Error) /\ owed' \subseteq owed
        /\ UNCHANGED <<out, terminal, stored, sub, snap, view, shown, astray>>
    BY <1>8 DEF SendStorageError
  <2>2. Sent(Error) \in [Client -> Seq(Msg)] /\ \A c \in Client : Len(Sent(Error)[c]) <= Cap
    BY <1>2, SentTypes, Messages
  <2>3. PageTypes'
    BY <1>2, <2>1, <2>2 DEF PageTypes
  <2> QED
    BY <1>2, <2>1, <2>3
<1>9. CASE History
  BY <1>2, <1>9 DEF History, sendVars, PageTypes
<1>10. CASE \E c \in Client : PageStep(c)
  <2>1. PageTypes'
    BY <1>2, <1>10, PageStepTypes
  <2>2. UNCHANGED sendVars
    BY <1>10 DEF PageStep, Lookup, StoreIfAbsent, Subscribe, SendSnapshotItem,
                 SendSnapshotEnd, Deliver, Disconnect, ClosePage
  <2> QED
    BY <1>2, <2>1, <2>2 DEF sendVars
<1>11. CASE UNCHANGED vars
  BY <1>2, <1>4, <1>11 DEF vars, sendVars
<1> QED
  BY <1>5, <1>6, <1>7, <1>8, <1>9, <1>10, <1>11 DEF PagesNext

\* The types of the pages and of their channels, which never hold more than their
\* capacity (helmmgr.go:198-293, useResourceStream.ts).
THEOREM PagesTypeSafety == PagesSpec => []PagesTypeOK
BY PagesTypeInit, PagesTypeStep, PTL DEF PagesSpec

-----------------------------------------------------------------------------
(* PageShowsCache.                                                         *)

\* What the last message in q about release k says, or the page's version v if there
\* is none, is as good as n.
Told(q, v, k, n) ==
  /\ \A i \in DOMAIN q :
        k \in DOMAIN q[i].obj /\ (\A j \in i + 1..Len(q) : k \notin DOMAIN q[j].obj)
          => Same(q[i].obj[k], n)
  /\ (\A i \in DOMAIN q : k \notin DOMAIN q[i].obj) => Same(v, n)

\* A page without a subscription has nothing under way, and no items unless it lost
\* its connection.
Away(c) ==
  /\ queue[c] = <<>> /\ snap[c] = NoSnap /\ sub[c] # "open"
  /\ \/ view[c] = Nothing
     \/ astray[c] = Release /\ sub[c] \in {"retry", "joiner"}

\* A page that was told of all of a release's changes has, or will have, what the
\* cache has, but for a broadcast that is about to be sent.
Served(c) ==
  /\ sub[c] = "open"
  /\ \A k \in Release :
        k \notin astray[c] /\ k \notin snap[c].items /\ k \notin DOMAIN out.obj
          => Told(queue[c], view[c][k], k, cache[k])

\* Only a page that finds no entry may create it.
PageInv(c) ==
  /\ sub[c] \in {"retry", "creator", "joiner", "open"} => stored
  /\ c \in clients => Served(c)
  /\ c \notin clients => Away(c)

\* A broadcast that is about to be sent is in the cache.
OutIsCached == \A k \in DOMAIN out.obj : k \in Release /\ out.obj[k] = cache[k]

ToldInv == PagesTypeOK /\ OutIsCached /\ \A c \in Client : PageInv(c)

LEMMA ToldEmpty ==
  ASSUME NEW v, NEW k, NEW n PROVE Told(<<>>, v, k, n) <=> Same(v, n)
BY DEF Told

LEMMA ToldAppend ==
  ASSUME NEW q \in Seq(Msg), NEW m \in Msg, NEW v, NEW k, NEW n,
         IF k \in DOMAIN m.obj THEN Same(m.obj[k], n) ELSE Told(q, v, k, n)
  PROVE  Told(Append(q, m), v, k, n)
<1> DEFINE s == Append(q, m)
<1>1. /\ Len(q) \in Nat /\ Len(s) = Len(q) + 1 /\ s[Len(q) + 1] = m
      /\ DOMAIN s = 1..Len(q) + 1 /\ DOMAIN q = 1..Len(q)
      /\ \A i \in DOMAIN q : s[i] = q[i]
  OBVIOUS
<1> HIDE DEF s
<1>2. CASE k \in DOMAIN m.obj
  <2>1. Len(s) \in DOMAIN s /\ k \in DOMAIN s[Len(s)].obj
    BY <1>1, <1>2
  <2>2. \A i \in DOMAIN s : (\A j \in i + 1..Len(s) : k \notin DOMAIN s[j].obj) => i = Len(s)
    BY <1>1, <2>1
  <2> QED
    BY <1>1, <1>2, <2>1, <2>2 DEF Told, s
<1>3. CASE k \notin DOMAIN m.obj
  <2>1. Told(q, v, k, n)
    BY <1>3
  <2>2. ASSUME NEW i \in DOMAIN s, k \in DOMAIN s[i].obj,
               \A j \in i + 1..Len(s) : k \notin DOMAIN s[j].obj
        PROVE  Same(s[i].obj[k], n)
    <3>1. i \in DOMAIN q /\ s[i] = q[i]
      BY <1>1, <1>3, <2>2
    <3>2. \A j \in i + 1..Len(q) : j \in DOMAIN q /\ j \in i + 1..Len(s) /\ s[j] = q[j]
      BY <1>1, <3>1
    <3> QED
      BY <2>1, <2>2, <3>1, <3>2 DEF Told
  <2>3. (\A i \in DOMAIN s : k \notin DOMAIN s[i].obj) => Same(v, n)
    <3>1. \A i \in DOMAIN q : i \in DOMAIN s
      BY <1>1
    <3> QED
      BY <1>1, <2>1, <3>1 DEF Told
  <2> QED
    BY <2>2, <2>3 DEF Told, s
<1> QED
  BY <1>2, <1>3

LEMMA ToldTail ==
  ASSUME NEW q \in Seq(Msg), q # <<>>, NEW v, NEW k, NEW n, Told(q, v, k, n)
  PROVE  Told(Tail(q), IF k \in DOMAIN Head(q).obj THEN Head(q).obj[k] ELSE v, k, n)
<1> DEFINE s == Tail(q)
           w == IF k \in DOMAIN Head(q).obj THEN Head(q).obj[k] ELSE v
<1>1. /\ Len(q) \in Nat \ {0} /\ Len(s) = Len(q) - 1 /\ Head(q) = q[1]
      /\ DOMAIN s = 1..Len(q) - 1 /\ DOMAIN q = 1..Len(q)
      /\ \A i \in DOMAIN s : s[i] = q[i + 1]
  OBVIOUS
<1> HIDE DEF s
<1>2. ASSUME NEW i \in DOMAIN s, k \in DOMAIN s[i].obj,
             \A j \in i + 1..Len(s) : k \notin DOMAIN s[j].obj
      PROVE  Same(s[i].obj[k], n)
  <2>1. i + 1 \in DOMAIN q /\ s[i] = q[i + 1]
    BY <1>1
  <2>2. ASSUME NEW j \in (i + 1) + 1..Len(q) PROVE k \notin DOMAIN q[j].obj
    <3>1. j - 1 \in i + 1..Len(s) /\ j - 1 \in DOMAIN s /\ (j - 1) + 1 = j
      BY <1>1
    <3> QED
      BY <1>1, <1>2, <3>1
  <2> QED
    BY <1>2, <2>1, <2>2 DEF Told
<1>3. ASSUME \A i \in DOMAIN s : k \notin DOMAIN s[i].obj PROVE Same(w, n)
  <2>1. \A j \in 1 + 1..Len(q) : j - 1 \in DOMAIN s /\ (j - 1) + 1 = j
    BY <1>1
  <2>2. \A j \in 1 + 1..Len(q) : k \notin DOMAIN q[j].obj
    BY <1>1, <1>3, <2>1
  <2>3. \A i \in DOMAIN q : i = 1 \/ i \in 1 + 1..Len(q)
    BY <1>1
  <2>4. CASE k \in DOMAIN q[1].obj
    <3>1. 1 \in DOMAIN q
      BY <1>1
    <3> QED
      BY <1>1, <2>2, <2>4, <3>1 DEF Told
  <2>5. CASE k \notin DOMAIN q[1].obj
    BY <1>1, <2>2, <2>3, <2>5 DEF Told
  <2> QED
    BY <2>4, <2>5
<1> QED
  BY <1>2, <1>3 DEF Told, s

LEMMA SameNothing == ASSUME NEW n, ~Exists(n) PROVE Same(0, n)
BY DEF Same, Exists

LEMMA SameItself == ASSUME NEW n PROVE Same(n, n)
BY DEF Same

LEMMA ToldStarts == PagesInit => ToldInv
<1> SUFFICES ASSUME PagesInit PROVE ToldInv
  OBVIOUS
<1>1. out = NoMsg /\ clients = {}
  BY DEF PagesInit, CacheInit, RunInit
<1>2. OutIsCached
  BY <1>1, Messages DEF OutIsCached
<1>3. ASSUME NEW c \in Client PROVE PageInv(c)
  <2>1. /\ queue[c] = <<>> /\ snap[c] = NoSnap /\ sub[c] = "closed" /\ view[c] = Nothing
        /\ c \notin clients
    BY <1>1 DEF PagesInit
  <2> QED
    BY <2>1 DEF PageInv, Away
<1> QED
  BY <1>2, <1>3, PagesTypeInit DEF ToldInv

\* What a page has after a message was put in its channel.
LEMMA ServedAppend ==
  ASSUME ToldInv, NEW c \in clients, NEW m \in Msg, queue'[c] = Append(queue[c], m),
         sub'[c] = sub[c], view'[c] = view[c], cache' = cache, astray[c] \subseteq astray'[c],
         \A k \in Release :
           k \notin astray'[c] /\ k \notin snap'[c].items /\ k \notin DOMAIN out'.obj =>
             IF k \in DOMAIN m.obj THEN m.obj[k] = cache[k]
             ELSE k \notin snap[c].items /\ k \notin DOMAIN out.obj
  PROVE  Served(c)'
<1>1. c \in Client /\ queue[c] \in Seq(Msg) /\ Served(c)
  BY DEF ToldInv, PagesTypeOK, CacheTypeOK, RunTypeOK, PageInv
<1>2. ASSUME NEW k \in Release,
             k \notin astray'[c], k \notin snap'[c].items, k \notin DOMAIN out'.obj
      PROVE  Told(Append(queue[c], m), view[c][k], k, cache[k])
  <2>1. IF k \in DOMAIN m.obj THEN Same(m.obj[k], cache[k])
        ELSE Told(queue[c], view[c][k], k, cache[k])
    BY <1>1, <1>2, SameItself DEF Served
  <2> QED
    BY <1>1, <2>1, ToldAppend
<1> QED
  BY <1>1, <1>2 DEF Served

\* A broadcast, of what is about to be sent or of a message about no release.
LEMMA SentIsTold ==
  ASSUME ToldInv, NEW m \in Msg, queue' = Sent(m),
         UNCHANGED <<cache, clients, stored, sub, snap, view>>,
         \/ m = out /\ out' = NoMsg /\ astray' = DroppedBy(m)
         \/ DOMAIN m.obj = {} /\ UNCHANGED <<out, astray>>,
         NEW c \in Client
  PROVE  PageInv(c)'
<1>1. PageInv(c) /\ DOMAIN astray = Client /\ OutIsCached /\ out' \in {out, NoMsg}
  BY DEF ToldInv, PagesTypeOK
<1>2. CASE c \notin clients
  BY <1>1, <1>2 DEF Sent, DroppedBy, PageInv, Away
<1>3. CASE c \in clients /\ HasRoom(c)
  <2>1. queue'[c] = Append(queue[c], m) /\ astray'[c] = astray[c]
    BY <1>3 DEF Sent, DroppedBy
  <2>2. \A k \in Release :
           k \notin snap'[c].items /\ k \notin DOMAIN out'.obj =>
             IF k \in DOMAIN m.obj THEN m.obj[k] = cache[k]
             ELSE k \notin snap[c].items /\ k \notin DOMAIN out.obj
    BY <1>1 DEF OutIsCached
  <2>3. Served(c)'
    BY <1>3, <2>1, <2>2, ServedAppend
  <2> QED
    BY <1>1, <1>3, <2>3 DEF PageInv
<1>4. CASE c \in clients /\ ~HasRoom(c)
  <2>1. queue'[c] = queue[c] /\ astray[c] \subseteq astray'[c]
        /\ \A k \in Release : k \notin astray'[c] /\ k \notin DOMAIN out'.obj
                                => k \notin DOMAIN out.obj
    BY <1>4 DEF Sent, DroppedBy
  <2>2. Served(c)'
    BY <1>1, <1>4, <2>1 DEF PageInv, Served
  <2> QED
    BY <1>1, <1>4, <2>2 DEF PageInv
<1> QED
  BY <1>2, <1>3, <1>4

\* A step of one page leaves the others as they are.
LEMMA OtherPages ==
  ASSUME ToldInv, NEW c \in Client, PageStep(c), NEW b \in Client, b # c
  PROVE  PageInv(b)'
<1>1. /\ queue'[b] = queue[b] /\ snap'[b] = snap[b] /\ sub'[b] = sub[b]
      /\ view'[b] = view[b] /\ astray'[b] = astray[b]
      /\ b \in clients' <=> b \in clients
  <2>1. /\ DOMAIN queue = Client /\ DOMAIN snap = Client /\ DOMAIN sub = Client
        /\ DOMAIN view = Client /\ DOMAIN astray = Client
    BY DEF ToldInv, PagesTypeOK
  <2>2. CASE Lookup(c) \/ StoreIfAbsent(c) \/ Subscribe(c)
    BY <2>1, <2>2 DEF Lookup, StoreIfAbsent, Subscribe, Join, cacheVars, runVars
  <2>3. CASE SendSnapshotItem(c) \/ SendSnapshotEnd(c) \/ Deliver(c)
    BY <2>1, <2>3 DEF SendSnapshotItem, SendSnapshotEnd, Deliver, cacheVars, runVars
  <2>4. CASE Disconnect(c) \/ ClosePage(c)
    BY <2>1, <2>4 DEF Disconnect, ClosePage, Leave
  <2> QED
    BY <2>2, <2>3, <2>4 DEF PageStep
<1>2. cache' = cache /\ out' = out /\ (stored => stored')
  BY DEF PageStep, Lookup, StoreIfAbsent, Subscribe, SendSnapshotItem, SendSnapshotEnd,
         Deliver, Disconnect, ClosePage, cacheVars, refreshVars, sendVars
<1>3. PageInv(b)
  BY DEF ToldInv
<1> QED
  BY <1>1, <1>2, <1>3 DEF PageInv, Served, Away

\* ... and the page itself is served, or away.
LEMMA ThisPage ==
  ASSUME ToldInv, NEW c \in Client, PageStep(c) PROVE PageInv(c)'
<1>1. /\ DOMAIN queue = Client /\ DOMAIN snap = Client /\ DOMAIN sub = Client
      /\ DOMAIN view = Client /\ DOMAIN astray = Client /\ stored \in BOOLEAN
      /\ queue[c] \in Seq(Msg) /\ snap[c] \in Snap /\ view[c] \in [Release -> Ver]
  BY DEF ToldInv, PagesTypeOK, Snap
<1>2. PageInv(c) /\ (c \in clients => sub[c] = "open")
  BY DEF ToldInv, PageInv, Served
<1>3. CASE Lookup(c)
  <2>1. c \notin clients /\ clients' = clients /\ Away(c)
        /\ UNCHANGED <<queue, snap, view, astray, stored>>
        /\ sub'[c] = IF stored THEN "joiner" ELSE "miss"
    BY <1>1, <1>2, <1>3 DEF Lookup, cacheVars, runVars, PageInv
  <2>2. sub[c] = "retry" => stored
    BY <1>2 DEF PageInv
  <2>3. sub[c] \in {"closed", "retry"}
    BY <1>3 DEF Lookup
  <2> QED
    BY <2>1, <2>2, <2>3 DEF PageInv, Away
<1>4. CASE StoreIfAbsent(c)
  <2>1. c \notin clients /\ clients' = clients /\ Away(c) /\ sub[c] = "miss"
        /\ UNCHANGED <<queue, snap, view, astray>> /\ stored' = TRUE
        /\ sub'[c] \in {"joiner", "creator"}
    BY <1>1, <1>2, <1>4 DEF StoreIfAbsent, cacheVars, runVars, PageInv
  <2> QED
    BY <2>1 DEF PageInv, Away
<1>5. CASE Subscribe(c)
  <2>1. c \notin clients /\ c \in clients' /\ Away(c) /\ sub'[c] = "open"
        /\ UNCHANGED <<queue, view, stored, out, cache>>
    BY <1>1, <1>2, <1>5 DEF Subscribe, Join, PageInv, refreshVars, sendVars
  <2>2. queue[c] = <<>> /\ stored
    BY <1>2, <1>5, <2>1 DEF PageInv, Away, Subscribe
  <2>3. ASSUME NEW k \in Release, k \notin astray'[c], k \notin snap'[c].items
        PROVE  Same(view[c][k], cache[k])
    <3>1. CASE sub[c] = "joiner"
      <4>1. snap'[c].items = {l \in Release : Exists(cache[l])} /\ astray'[c] = astray[c]
        BY <1>1, <1>5, <3>1 DEF Subscribe, FirstItems
      <4>2. view[c] = Nothing
        BY <2>1, <2>3, <4>1 DEF Away
      <4> QED
        BY <2>3, <4>1, <4>2, SameNothing DEF Nothing
    <3>2. CASE sub[c] = "creator"
      <4>1. astray'[c] = {l \in Release : Exists(cache[l])}
        BY <1>1, <1>5, <3>2 DEF Subscribe
      <4>2. view[c] = Nothing
        BY <2>1, <3>2 DEF Away
      <4> QED
        BY <2>3, <4>1, <4>2, SameNothing DEF Nothing
    <3> QED
      BY <1>5, <3>1, <3>2 DEF Subscribe
  <2> QED
    BY <2>1, <2>2, <2>3, ToldEmpty DEF PageInv, Served
<1>6. CASE SendSnapshotItem(c)
  <2>1. PICK k \in snap[c].items :
          /\ queue' = [queue EXCEPT ![c] = Append(@, Delta(k, snap[c].from[k]))]
          /\ snap' = [snap EXCEPT ![c].items = @ \ {k}, ![c].from[k] = 0]
          /\ astray' = [astray EXCEPT ![c] =
                           IF snap[c].from[k] = cache[k] THEN @ ELSE @ \cup {k}]
    BY <1>6 DEF SendSnapshotItem
  <2>2. /\ UNCHANGED <<sub, view, cache, clients, stored, out>>
        /\ k \in Release /\ snap[c].from[k] \in Ver
    BY <1>1, <1>6 DEF SendSnapshotItem, cacheVars, refreshVars, runVars, sendVars, Snap
  <2>3. c \in clients
    BY <1>2 DEF PageInv, Away, NoSnap
  <2> DEFINE m == Delta(k, snap[c].from[k])
  <2>4. m \in Msg /\ DOMAIN m.obj = {k} /\ m.obj[k] = snap[c].from[k]
    BY <2>2, Messages
  <2>5. /\ queue'[c] = Append(queue[c], m) /\ astray[c] \subseteq astray'[c]
        /\ k \notin astray'[c] => snap[c].from[k] = cache[k]
    BY <1>1, <2>1
  <2>6. snap'[c].items = snap[c].items \ {k}
    BY <1>1, <2>1 DEF Snap
  <2> HIDE DEF m
  <2>7. Served(c)'
    BY <2>2, <2>3, <2>4, <2>5, <2>6, ServedAppend
  <2> QED
    BY <1>2, <2>2, <2>3, <2>7 DEF PageInv
<1>7. CASE SendSnapshotEnd(c)
  <2>1. /\ queue'[c] = Append(queue[c], snap[c].last) /\ snap'[c] = NoSnap
        /\ snap[c].items = {} /\ snap[c].last # NoMsg
        /\ UNCHANGED <<sub, view, astray, cache, clients, stored, out>>
    BY <1>1, <1>7 DEF SendSnapshotEnd, cacheVars, refreshVars, runVars, sendVars
  <2>2. c \in clients
    BY <1>2, <2>1 DEF PageInv, Away, NoSnap
  <2>3. snap[c].last \in Msg /\ DOMAIN snap[c].last.obj = {}
    BY <1>1, <2>1, Messages DEF Snap
  <2>4. Served(c)'
    BY <2>1, <2>2, <2>3, ServedAppend
  <2> QED
    BY <1>2, <2>1, <2>2, <2>4 DEF PageInv
<1>8. CASE Deliver(c)
  <2> DEFINE m == Head(queue[c])
  <2>1. /\ queue'[c] = Tail(queue[c]) /\ queue[c] # <<>> /\ c \in clients
        /\ view'[c] = [k \in Release |-> IF k \in DOMAIN m.obj THEN m.obj[k] ELSE view[c][k]]
        /\ UNCHANGED <<sub, snap, astray, cache, clients, stored, out>>
    BY <1>1, <1>8 DEF Deliver, cacheVars, refreshVars, runVars, sendVars
  <2>2. ASSUME NEW k \in Release, Told(queue[c], view[c][k], k, cache[k])
        PROVE  Told(Tail(queue[c]), view'[c][k], k, cache[k])
    BY <1>1, <2>1, <2>2, ToldTail
  <2> HIDE DEF m
  <2>3. Served(c)'
    BY <1>2, <2>1, <2>2 DEF PageInv, Served
  <2> QED
    BY <1>2, <2>1, <2>3 DEF PageInv
<1>9. CASE Disconnect(c) \/ ClosePage(c)
  <2>1. c \in clients /\ c \notin clients' /\ stored' = stored
        /\ queue'[c] = <<>> /\ snap'[c] = NoSnap
    BY <1>1, <1>9 DEF Disconnect, ClosePage, Leave
  <2>2. \/ sub'[c] = "retry" /\ astray'[c] = Release
        \/ sub'[c] = "closed" /\ view'[c] = Nothing
    BY <1>1, <1>9 DEF Disconnect, ClosePage
  <2>3. stored
    BY <1>2, <2>1 DEF PageInv
  <2>4. Away(c)'
    BY <2>1, <2>2 DEF Away
  <2> QED
    BY <2>1, <2>3, <2>4 DEF PageInv
<1> QED
  BY <1>3, <1>4, <1>5, <1>6, <1>7, <1>8, <1>9 DEF PageStep

LEMMA ToldKept == ToldInv /\ [PagesNext]_vars => ToldInv'
<1> SUFFICES ASSUME ToldInv, [PagesNext]_vars PROVE ToldInv'
  OBVIOUS
<1>1. PagesTypeOK' /\ PagesTypeOK /\ CacheTypeOK /\ clients \subseteq Client
  BY PagesTypeStep DEF ToldInv, PagesTypeOK, CacheTypeOK, RunTypeOK
<1>2. OutIsCached /\ \A c \in Client : PageInv(c)
  BY DEF ToldInv
<1>3. SUFFICES OutIsCached' /\ \A c \in Client : PageInv(c)'
  BY <1>1 DEF ToldInv
<1>4. CASE RunStep
  <2>1. out = NoMsg /\ UNCHANGED <<clients, pageVars>>
    BY <1>1, <1>4, RunSends
  <2>2. OutIsCached' /\ \A k \in Release : k \notin DOMAIN out'.obj => cache'[k] = cache[k]
    <3>1. CASE cache' = cache /\ out' \in {NoMsg, Synced, Error}
      BY <3>1, Messages DEF OutIsCached
    <3>2. CASE \E k \in Release : cache' = [cache EXCEPT ![k] = got[k]] /\ out' = Delta(k, got[k])
      <4>1. PICK k \in Release : cache' = [cache EXCEPT ![k] = got[k]] /\ out' = Delta(k, got[k])
        BY <3>2
      <4>2. got[k] \in Ver /\ DOMAIN cache = Release
        BY <1>1 DEF CacheTypeOK
      <4>3. DOMAIN out'.obj = {k} /\ out'.obj[k] = got[k]
        BY <4>1, <4>2, Messages
      <4> QED
        BY <4>1, <4>2, <4>3 DEF OutIsCached
    <3> QED
      BY <1>1, <1>4, <3>1, <3>2, RunSends
  <2>3. ASSUME NEW c \in Client PROVE PageInv(c)'
    BY <1>2, <2>1, <2>2, Messages DEF PageInv, Served, Away, pageVars
  <2> QED
    BY <2>2, <2>3
<1>5. CASE \/ Quietly(RunStarts) \/ Quietly(RunEnds) \/ Quietly(RunIsStopped)
           \/ \E k \in Release : Quietly(Change(k))
           \/ \E d \in Driver : StorageStepOf(d) /\ ~SendStorageError(d)
  BY <1>2, <1>5, QuietSteps DEF OutIsCached, PageInv, Served, Away, pageVars
<1>6. CASE Send
  <2>1. /\ queue' = Sent(out) /\ astray' = DroppedBy(out) /\ out' = NoMsg /\ out \in Msg
        /\ UNCHANGED <<cache, clients, stored, sub, snap, view>>
    BY <1>1, <1>6 DEF Send, PagesTypeOK, cacheVars, refreshVars, runVars
  <2>2. \A c \in Client : PageInv(c)'
    BY <2>1, SentIsTold
  <2> QED
    BY <2>1, <2>2, Messages DEF OutIsCached
<1>7. CASE \E d \in Driver : SendStorageError(d)
  <2>1. /\ queue' = Sent(Error)
        /\ UNCHANGED <<cache, clients, stored, sub, snap, view, out, astray>>
    BY <1>7 DEF SendStorageError, cacheVars, refreshVars, runVars
  <2>2. \A c \in Client : PageInv(c)'
    BY <2>1, SentIsTold, Messages
  <2> QED
    BY <1>2, <2>1, <2>2 DEF OutIsCached
<1>8. CASE History
  <2>1. UNCHANGED <<cache, clients, sub, queue, snap, view, out, astray>> /\ stored' = TRUE
    BY <1>8 DEF History, cacheVars, refreshVars, runVars, sendVars
  <2> QED
    BY <1>2, <2>1 DEF OutIsCached, PageInv, Served, Away
<1>9. CASE \E c \in Client : PageStep(c)
  <2>1. \A c \in Client : PageInv(c)'
    BY <1>9, OtherPages, ThisPage
  <2>2. cache' = cache /\ out' = out
    BY <1>9 DEF PageStep, Lookup, StoreIfAbsent, Subscribe, SendSnapshotItem, SendSnapshotEnd,
                Deliver, Disconnect, ClosePage, cacheVars, refreshVars, sendVars
  <2> QED
    BY <1>2, <2>1, <2>2 DEF OutIsCached
<1>10. CASE UNCHANGED vars
  <2>1. UNCHANGED <<cache, clients, stored, sub, queue, snap, view, out, astray>>
    BY <1>10 DEF vars, cacheVars, refreshVars, runVars, sendVars, pageVars
  <2> QED
    BY <1>2, <2>1 DEF OutIsCached, PageInv, Served, Away
<1> QED
  BY <1>4, <1>5, <1>6, <1>7, <1>8, <1>9, <1>10 DEF PagesNext

LEMMA ToldInvariance == PagesSpec => []ToldInv
BY ToldStarts, ToldKept, PTL DEF PagesSpec

\* An idle page shows what the cache holds, but for the releases that strayed: joining
\* between the two halves of a broadcast loses nothing (helmmgr.go:198-293, 701-735).
THEOREM IdlePageShowsCache == PagesSpec => []PageShowsCache
<1>1. ToldInv => PageShowsCache
  <2> SUFFICES ASSUME ToldInv, NEW c \in Client, NEW k \in Release, c \in clients,
                      queue[c] = <<>>, snap[c] = NoSnap, k \notin astray[c],
                      k \notin DOMAIN out.obj
               PROVE  Same(view[c][k], cache[k])
    BY DEF PageShowsCache
  <2>1. Told(queue[c], view[c][k], k, cache[k])
    BY DEF ToldInv, PageInv, Served, NoSnap
  <2> QED
    BY <2>1, ToldEmpty
<1> QED
  BY <1>1, ToldInvariance, PTL
===============================================================================
