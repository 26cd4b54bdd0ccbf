# kube-watch: TLA+ models and proofs

kube-watch is one Go binary that lists and watches Kubernetes resources, Helm releases
and pod logs, shares that work between browser tabs, and streams the result to a React
front end by server-sent events (SSE). This directory models the program on both sides
of that stream, checks the models with TLC on small instances, and proves with TLAPS,
for instances of any size, the safety of what the rest depends on: the life of a shared
entry, the resource watch up to what a page shows, the Helm cache and its pages, the
log streams of a deployment and the lines of a pod's logs, the page's selection, history
and filters, the tabs and the editor of its drawer, and the swap of the executable in a
self-update. Every safety property that a run checks is also a theorem.

    tlc -config WatchSafety.cfg MCWatchEntry      # a run (section 3 names both)
    tlapm WatchEntryProofs.tla                    # the proofs of a module (section 4)

## 1. The system

### Components

| component | code | state it keeps | operations |
|---|---|---|---|
| Entry lifecycle | `watchmgr.go` 155-270, 450-466; `helmmgr.go` 216-293, 326-341 | `clients`, `running`, `stopCh`, `idle`, `terminalError` under `e.mu` | subscribe, unsubscribe, idle timer (30 s), start, stop, restart of the run goroutine |
| Resource watch | `watchmgr.go` | `WatchManager.entries` (a map under `m.mu`); per entry `cache`, `lastRV`, the clients' channels | look up or create; list, broadcast, remove what is missing, snapshot, watch, resync (10 min), expiry, refusal, overflow |
| Resource page | `web/src/hooks/useResourceStream.ts` | `items`, `isLoading`, `loadError` | apply a message, reconnect, close |
| Helm releases | `helmmgr.go` | as the entry, and `cache`, `objects`, `storageTerminalErrors`; the locals of `run` (refresh channel, debounce) and of `watchStorage` | list and watch each storage driver, debounced refresh of the releases, initial items of a subscriber |
| Deployment logs | `logmgr.go` (`streamDeployment`, `podLogStreams`) | `cancels`, `nextID`, a wait group, the subscription's channel | list and watch pods; start, stop, finish and stop all streams; close the channel |
| A pod's logs | `logmgr.go` (`streamPod`), `web/src/hooks/useResourceLogs.ts` | lines read, `seq`; the tab's entries and error | read the last lines of every container, follow each, resume, de-duplicate, reconnect |
| View and history | `useViewRoute.ts`, `routing.ts`, `AppHeader.tsx` | context, resource, two refs; the browser's history | select, popstate, push or replace |
| Page body | `KubeWatchBody.tsx`, `useDetailsState.ts`, `ResourceTable.tsx`, `DetailsDrawer.tsx` | selection, tab, size, filters, sort order | messages, clicks, a change of the view, React's commits |
| Table | `resourceRegistry.ts`, `resourceColumns.tsx`, `resourceFilters.ts`, `resourceSort.ts` | none | statuses, readiness, filters, suggestions, sort order |
| Drawer's tabs | `useResourceEvents.ts`, `useHelmHistory.ts` | the events and their stream; the history and its fetch | open, filter, interrupt, time out; fetch, abort, answer |
| YAML editor | `YamlEditor.tsx` | the text in the editor, the one pending, a frame | mount, deferred render, frame; fold, smallest change |
| Log hub and toasts | `loghub.go`, `useBackendLogs.ts` | subscribers, the toasts shown, their timers | publish, receive, expire, dismiss |
| Self-update | `selfupdate.go` | files on disk | choose a version, download, verify, replace the executable, roll back |
| Version check | `version.go` | the cached result and its time | check, cache, compare versions |
| HTTP server | `main.go` | none that lasts | route, frame SSE, check input |

### How they interact

A page opens an `EventSource`. Its request looks up the entry of (context, namespace,
resource) and creates it if it is absent; then `subscribe` adds a bounded channel to the
entry, and the request's loop copies that channel to the browser. The entry's only *run*
goroutine talks to the API server and broadcasts to all channels. Nothing synchronises
the look-up with the subscription, nor the two halves of a broadcast with each other:
`e.mu` protects single critical sections, and the models take one step per critical
section. Helm entries also have one goroutine per storage driver, which asks the run to
refresh through a channel of capacity 1, and one short-lived goroutine per subscriber,
which sends the cached releases. A log subscription is not shared: it has one loop and
one goroutine per pod, and they all write to one channel.

In the browser, messages and clicks change the same React state. React queues the
updates of a message and draws them later; a click draws everything that is queued. The
selection, the filters and the tabs therefore work on a state that is ahead of what the
user sees. A selection opens a second stream (events), a fetch (history), a third kind
of stream (logs) and an editor, each of which may still answer for what was selected
before.

### What is hard

- requests that overtake each other between look-up, creation and subscription;
- idle timers whose callback could not be stopped any more, and runs that end while a
  subscriber comes back;
- a cache and its broadcast updated in separate critical sections, with channels that
  overflow in between;
- the gap between a list and the watch that follows it, expired watches, watches that
  stay silent;
- storage goroutines that outlive the run that started them;
- a page that keeps its items when the browser reconnects;
- a pod that comes back under its name while its old stream is still ending, and a
  channel that is closed while goroutines write to it;
- what is queued and what is drawn: clicks on rows that are gone, a change of the view
  drawn with the old objects, renders that are given up;
- lines that are read twice or by nobody between two log requests;
- a process that is killed, or a call that fails, between two renames.

`PROJECT.json` lists these under `hazards`, each at its line, with the properties that
watch over it or the reason why none does.

## 2. The modules

```
ReplicaView         what a page promises        EntryRun   what an entry's life promises
   ^        ^                                     ^    ^    ^
   |        |  (refinement)          (refinement) |    |    | (EXTENDS)
   |        +--- HelmCache -----------------------|----+    |
   |               ^                       EntryLifecycle   |
   |               | (EXTENDS)                              |
   |             HelmPages                                  |
   +------------ WatchEntry --------------------------------+

Table <- Route <- Page (EXTENDS)        YamlEditor <- Details, EditorReference (EXTENDS)
Table <- FilterReference (EXTENDS)

LogStreams      LogTail      Toasts      SelfUpdate
```

Proofs are in modules of their own: `EntryLifecycleProofs`, `WatchEntryProofs`,
`HelmProofs` (of both Helm modules), `LogStreamsProofs`, `LogTailProofs`, `PageProofs`
(of `Table` and `Route` too), `DetailsProofs` (of `YamlEditor` too), `SelfUpdateProofs`.

The life of an entry is the same code in both managers. `EntryLifecycle` models it with
its stop channels, goroutines and timers; `EntryRun` states what that amounts to (who
subscribes, where the only run is, whether it was told to stop, whether access was
refused), and TLC and TLAPS show that the first implements the second. `WatchEntry` and
`HelmCache` then extend `EntryRun`, so that they need neither timers nor channels that
stop goroutines. A step of `WatchEntry` such as `Subscribe` *is* a step of `EntryRun`
(`Join`) with more variables.

An operator named `Bug...` beside another is a plausible mistake in its place.
`PROJECT.json` lists one for every property, which the run then finds.

### EntryRun and EntryLifecycle

| model | code |
|---|---|
| `AddClient`, `NeedsRun`, `BeginRun` | `addClient`; `shouldStart` and the new `stopCh` |
| `RemoveClient`, `TimerFires`, `StopIfIdle` | `removeClient`, `time.AfterFunc`, `stopIfIdle` and `stopLocked` |
| `GoRun`, `RunListed`, `RunForbidden`, `RunStops` | `go e.run`; the exits of its loop |
| `MarkRunStopped`, `Restarts` | the deferred `markRunStopped` and the run it starts |

A timer is "free", "armed" or "fired": `Timer.Stop` reaches it only while it is armed,
and the callback does not look whether it is still the entry's timer. Ids of channels
and timers are reused when nothing refers to them. `EntryRun` is what the code outside
sees: its `phase` is the state of the goroutine that holds `e.stopCh` and its `stopping`
is whether that channel is closed.

### ReplicaView and WatchEntry

`ReplicaView` has three variables: what the cluster holds, the pages that are open, what
each shows. A page moves forward in versions, never beyond the cluster, and forgets
everything when it is closed. `WatchEntry` is the real thing:

| model | code |
|---|---|
| `Lookup`, `StoreIfAbsent`, `NewEntryFails` | `getOrCreateEntry` (`lookupEntry`, then `storeEntryIfAbsent`, each under `m.mu`), `newEntry` |
| `Subscribe`, `Greeting` | `subscribe(!created)`, `addClient`'s snapshot and SYNCED or error |
| `ListOk`, `ListFails`, `BroadcastItem`, `DeleteMissingCached`, `BroadcastDeletion`, `BroadcastSnapshot`, `BroadcastSynced` | the first half of `run` |
| `WatchOpens`, `WatchFails`, `Receive`, `WatchReports`, `WatchEnds`, `PauseOver` | the second half: the watch loop and the pauses |
| `ForbiddenReturn`, `StopReturn` | its two ways to return |
| `Send`, `Push`, `PushSnapshot` | `broadcast`'s second half, and what it does to a full channel |
| `Deliver`, `Disconnect`, `ClosePage` | `streamSSE`, `useResourceStream` |
| `Change` | external: the API server |

`out` holds a message from the moment the cache is updated until it is sent, so that
anything may happen between the two critical sections of `broadcast`.

The abstractions:

- The version of an object stands for its contents; it exists when the version is odd.
  ADDED and MODIFIED are one message, as cache, channels and page treat them alike.
- `lastRV` appears as what it guarantees: a watch that is opened after a list delivers
  what changed after it, in order.
- A page stands for the subscription of its current EventSource; two tabs are two pages.
- What the cluster holds when the backend starts is arbitrary.
- A watch's ERROR event that is no expiry is passed on. It has no `error` field, so that
  the page ignores it; it takes a place in the channel all the same.

### HelmCache and HelmPages

`HelmCache` is the server's half without subscribers' channels: the storage goroutines
(`ws`; `late` for one that belongs to a run that has ended), the refresh request and the
debounce (`asked`, `armed`), the refresh (`pc`, `left`, `heard`, `got`, `todo`), the
cache, and the errors that take a driver out of the refreshes. Each action is one API
call's result, one critical section or one receive. Forbidden and failing API calls are
free choices; forbidden does not end a Helm run, so that `EntryRun`'s `refused` stays
FALSE.

The run returns at its closed stop channel; each storage goroutine has to find that
channel closed itself (`NoticesStop`, `LateStops`): while it sleeps before its next list,
or in the select of `consumeStorageEvents`. Until then it lists, watches and records
errors as before, now for nobody, or in the error table that the next run reads.

`HelmPages` adds what those steps send (`RunDoes(step, message, error)` conjoins a step
of `HelmCache` with its broadcast), the channels, which *drop* messages when they are
full, `sendInitialSnapshot` as a goroutine that sends in any order with values that may
be out of date by then, `History`, which creates the entry without a run, and the page.
`astray` is a history variable: releases of which a page was not told in order. There
are four ways: a dropped message, an initial item that is out of date when it is sent,
an item kept across a reconnection, and a creator that was overtaken and finds releases
in the cache that are never sent to it.

Abstractions: a release is stored by one driver (the choice between two drivers'
revisions of one release, 498-503, is left out); `e.objects` and `e.cache` are one
variable, as nothing reads one where the other would differ; a storage watch's ERROR
events that are no expiry are left out; at most one goroutine per driver is left from
earlier runs (a guard of `StopReturn`: a run waits to return while it would leave a
second one).

### LogStreams and LogTail

`LogStreams` is a deployment: `streamDeployment`'s request for the deployment and its
selector (`GotDeployment`, `TargetFails`: both can fail, which ends the subscription with
the browser still connected), its loop (`pc`, `current`, `todo`), what the loop tells
(`telling`: it waits for room in the channel, or for the end of the request, before it
goes on; `announced`: the number of pods is told once), `podLogStreams` (`cancels`,
`stopped`), its goroutines (`stream`, `podOf`) and the channel, of which only the number
of messages matters (`out`). The id that `finish` compares is the stream itself. What a
stream reads or the loop tells is one kind of message: lines, notes and errors are sent
the same way.

`LogTail` is one such stream with its contents, and the tab that shows them:
`GetPod`, `ReadContainer`, `SendInitial` (`streamPod`: the last lines of every
container, sorted by time), `StartFollowing` and `FollowStep` (`followContainerLogs`
with its retries), `Connects`, `Interrupted`, `Receive`, `OpenTab`, `OptionsChange`,
`CloseTab` (`useResourceLogs`). A line is its container, its number there and its time;
lines may share a time. `Sorted` is the set of the orders that `sortLogLines` may give
the lines (there is exactly one, `InitialLinesHaveOneOrder`); the containers of a pod have
different names, as Kubernetes demands. Three things follow from the code and are in the
model as they are:

- a follow request asks for no old lines (`TailLines` is 0), so that its `SinceTime`
  selects nothing: what a container writes between two requests is never sent
  (`skipped`);
- the browser's key of a line holds `seq`, which starts again in every stream: after a
  reconnection a line is repeated, or, when another connection gave the same number to a
  line of the same time and text, taken for that one;
- a blank line is sent without its `line` field (`omitempty`, `logmgr.go:41`) and ignored
  by the tab, which checks for that field (`HasText`, `Ignored`): it is not shown, and a
  pod that writes nothing else leaves the tab loading.

### Table, Route and Page

`Table` has the pure functions: the registry, an object's status, readiness and
restarts, the filters with the labels they suggest, the next sort order. An object is a
record of the fields that these read. The label filter is a text, a sequence of words,
blanks and the marks comma, `=` and colon, and is taken apart as in the code: `Pieces` and
`Trim` at the commas, `ParseLabelFilterTerm` at the first `=`, else at the first colon.
`FilterReference` compares that with what a text promises, over all small texts and
labels, as assumptions that TLC evaluates. Upper case in the name and status filters and
blanks around them are left out.

`Route` has the view and the browser's history. A change of the view and its effect are
one step, because React runs the effects of a discrete event before anything else. A
popstate that leaves the view as it is runs no effect, so that `handlingPopState` stays
set and the next change of the view replaces an entry of the history: `idlePop` records
it, `trail` is the history that the user would expect.

`Page` adds the body twice: `now` with all updates that are queued, `drawn` as the last
commit left it. Messages change `now` only; clicks act on what is `drawn`, change `now`
and commit; a change of the view commits and queues the effect's reset, so that the
next picture has the old view's objects, and a click on one of those rows, which React
handles after it has applied the reset, leaves a selection without an object. The same
happens with a row whose deletion is not drawn yet. `NoGhostSelection` says that these
are the only ways.

### YamlEditor, EditorReference and Details

`YamlEditor` has the two pure functions of the editor, the fold of `managedFields` and
the smallest change between two texts, and its steps on a record. `EditorReference`
compares both functions with reference definitions over all small documents and texts,
as assumptions that TLC evaluates.

`Details` is what the tabs show: `Commit` runs the effects (editor, events, history) of
what it changed; `DeferredRender`, `DeferredCommit` and `Frame` move the text; the
stream of events is interrupted, joins the server's entry and times out (an object
without events is told nothing, so that a timer ends "Loading"); a fetch is answered late
or fails.

The events come from an entry like those of `WatchEntry`, which `Details` has in fewer
steps: `run`, `cache` and `refused`. The subscriber that stored the entry (`Creates`) is
not greeted, and if another page starts the run before it joins, it hears nothing until
the next change, failure or list; any other is sent the cache, then SYNCED or, while the
entry is refused, the error (`Greeting`). Only a run with an open watch delivers changes
(`WatchDelivers`); a failed list or watch is told and tried again (the back-off is a part
of "listing"), forbidden ends the run (`Forbidden`, `Returns`) until somebody subscribes,
and an entry that nobody uses stops (`IdleStop`). A list is one step, told by the snapshot
it ends with; the entry's steps are left out while the page shows Helm releases, which
have no events. A full channel is not modelled here but in `WatchEntry`: sends wait for
room. An error that the watch passes on has no `error` field and is ignored by the tab, so
that it is left out.

A fetch of the history starts when the selection or the *revision* changes: when only the status of the newest
revision changes, the history keeps the old one until it is opened again.

### Toasts and SelfUpdate

`Toasts` has `publish` in two halves (it copies the clients under the hub's mutex and
sends afterwards), a page that comes and goes, and the toasts with their timers.

`SelfUpdate` has one step for each call of the file system in `replaceExecutable`, in
the order of the code: `Stat`, `Create`, `Write`, `Chmod`, `Close`, `Unlink`, `Backup`,
`Install`, else `Rollback`, `Tidy`, `Cleanup`. Each may fail, a process may be killed
after each one (`Crash`), and two updaters may be interleaved. `Check`, `IsNewerVersion`
and `ShouldInstall` are the choice of the version, where a version is what
`parseVersion` makes of a tag; `Download` succeeds for what matches the checksum.
`was` and `harm` are history variables, the version last at the path and what went
wrong. An updater is started from the path, not from the backup.

## 3. The runs

| run | instance | shows |
|---|---|---|
| `lifecycle` | 2 subscribers, 3 timers, 2 channels | `OneRun`: never two runs. `NeverStranded`: a subscriber is without a run only after a refusal. `IdleRunHasTimer`, `IdleEntryStops`: a run nobody listens to ends. `SubscribersServed`. `KeepsPromise`: refinement of `EntryRun` with its fairness |
| `watch_safety` | 2 pages, 1 object, versions to 3, 2 events under way, channels of 2 | `NothingLost`: a page that was sent a snapshot will show the cache, through joins and overflows between the halves of a broadcast. `HandoffComplete`: no object falls between list and watch. `SendsNeverBlock`: no send under `e.mu` waits. `RefusalIsLast`: nothing clears a terminal error of a page that was told anything. `WatchTypeOK` |
| `watch_liveness` | 1 page, 2 objects, versions to 2 | `OnlyForward`: refinement of `ReplicaView`. `Converges`: a page that stays connected ends up with the cluster's state. `StopsWhenIdle` |
| `helm_safety` | 2 drivers, 1 release, versions to 2 | `RefreshNotLost`: at rest, the cache is the cluster's state, if the last refresh listed every driver. `CacheIsReplica`: the cache never goes back and loses no release because a driver failed |
| `helm_rest` | 1 driver, 1 release, versions to 3 | `GoroutinesEnd`: the goroutines of an entry without subscribers end, late ones included, each of which has to notice the stop by itself |
| `helm_pages` | 1 page, 1 release, versions to 2, a channel of 1 | `PageShowsCache`: what a page shows differs from the cache only by the releases in `astray` |
| `log_streams` | 2 pods, 2 streams, 1 event under way, a channel of 1 | `OneStreamPerPod`, `FollowsCurrentPods`, `EverythingEnds`; `CloseIsLast`: the channel is closed after the last send, and with the browser connected only when the deployment or its selector cannot be had |
| `log_tail` | an init container and one that is followed, 3 lines, 2 connections, a tab of 4 | `OncePerConnection`: no line more often than the tab has connected so far, which is once within the first connection. `OnlyGapsAreMissing`: what the tab lacks is blank, was written while no request was open, or was pushed out, or taken for a line that another connection numbered. `ReconnectErrorClears` |
| `page` | 1 context, 2 pods, 1 deployment, 4 paths, 4 filters, a history of 3 | `HistoryIsTrail`, `NothingLeaks` (objects, sort order, hidden filters and tabs stay with their view), `NoGhostSelection`, `FreshDetails`; the assumptions of `FilterReference` over texts of 2 words and marks on either side of a comma |
| `details` | 2 objects of one name, of which one may be deleted, 2 events, versions to 3, 2 messages under way | `TabsShowSelection`; `TabsAreComplete`: a stream that was sent a snapshot has given what the entry has, whatever was lost, failed or refused before; `RefusalIsShown`: an entry that is refused is not shown as if it were watched; `TabsSettle`, `EditorCatchesUp`; the assumptions of `EditorReference` over documents of 5 lines and texts of 5 letters |
| `toasts` | 2 goroutines, 3 messages, 2 toasts, channels of 1 | `ToastsEnd`, `LoggingEnds` |
| `self_update` | 2 updaters, 2 releases and builds without a version | `OnlyWholeExecutables`: what can be started is complete and verified. `Recoverable`: one updater alone always leaves an executable at the path or in the backup, whatever fails. `MissingForCause`: at rest it is missing from the path only after a crash between the renames or a failed roll back. `NoDowngrade` without `--force` |

### Where the documents say more than the code does

The properties are stated so that they hold beside these four, which the models have as
behaviours and no run states as a property:

| the document | the code | where the models show it |
|---|---|---|
| README.md:114, a new subscription receives a SNAPSHOT | A creates the entry; B finds it, subscribes first and starts the run; A subscribes after the run's snapshot and, as the creator, is sent none until the next reconciliation (`watchmgr.go:60`, 182) | `NothingLost` speaks only of the pages in `primed`, `TabsAreComplete` only of streams that were `told` |
| README.md:116, a refusal is surfaced in the UI | A creates, B runs and is refused; A subscribes between the terminal broadcast and `markRunStopped`: no error, no run, the page keeps loading | `RefusalIsLast` allows a page that is still loading |
| PLAN.md:130, on reopening the page shows the cached releases | the same overtaking: A is sent no releases, and releases that do not change are not broadcast (`helmmgr.go:79`) | `astray` |
| README.md:118, missing permissions are surfaced | the goroutine that sends the initial releases chose SYNCED before the error was recorded and sends it after the error; SYNCED clears the page's error | `SendSnapshotEnd` |

Smaller oddities that the models have: an HTTP error of the stream while the page is
loading does not show as `loadError` (`KubeWatchBody.tsx:138`), the stuck
`handlingPopState`, the late click, the skipped and repeated lines (all above).

### The bounds, and why they are enough

- *Pages*: two in `watch_safety`, so that one creates and the other overtakes, one
  overflows and the other reads. Where pages do not influence each other
  (`watch_liveness`) one is enough. `helm_pages` has one as well, because two give
  more than four million states: the fourth cause of `astray`, an overtaken creator
  that finds releases in the cache, does not occur there. `IdlePageShowsCache` proves
  the property for any number of pages.
- *View*: `helm_pages` identifies states that differ only in `isLoading` and `loadError`
  and in which messages without an object are errors (`ItemsView`). No guard reads
  these, and `PageShowsCache` speaks of items only.
- *Versions* (`MaxVer`): 3 lets an object be created or modified, deleted and created
  again; 2 lets one appear, disappear or both. The bound also ends the run of changes,
  without which convergence would mean nothing.
- *Events under way* (`MaxPending`, `MaxQueue`): bounds what the model keeps, not what a
  watch may deliver in all: a change waits. A cluster that is quiet for a while is one
  of its behaviours.
- *Channels* (`Cap`, 256 and 512 in the code, 32 in the log hub): 1 or 2, so that they
  overflow within a few steps. `WatchEntry` assumes 2, the size of its greeting; the
  code's least capacity is far above.
- *Timers and stop channels*: two callbacks that come late beside an armed timer, the
  entry's channel and its successor. The proofs need no bound.
- *Streams*: the two of one pod, or of two. `Starts` waits for a free id, a limit the
  code does not have.
- *Log lines*: three in the container that is followed, one more than is read at first,
  so that one is old, one is read and one is followed; `MaxEntries` (10000) is 4, so
  that two connections push lines out. Two connections are the fewest that repeat lines.
- *History* (`MaxHistory`): three entries, so that there is one to go back to and one
  ahead that a change of the view drops.
- *Toasts*: three messages for two places; one more channel than connections.
- *Updaters*: two, the fewest that overlap; a third would do to either what the other
  does. Two releases of which each is ahead in one number and behind in another, and
  builds without a version, so that each branch of `isNewerVersion` decides. Failures
  and crashes are not bounded. A crash is a process that is killed: nothing is
  synchronised to the disk, and what a machine that stops leaves there is not modelled.
- *The events' entry* (`details`): two messages under way are what a greeting and a list
  send. One object may be deleted (`MaxDeleted`), the other one then stays to be selected.
- *Storage errors* (`helm_safety`): states are identified that differ only in whether a
  driver's watch was refused (`SkipView`). No guard reads it, only a refused list leaves a
  driver out; it matters to the pages, and `helm_pages` keeps it.
- *Label filter* (`FilterSize`): two words or marks on either side of a comma, with a
  blank around each: a key alone, with one mark and without a value, and marks alone.
  `SuggestionsAreFound` has no bound.

### Fairness

Weak fairness says that a goroutine that can go on does, that timers expire and that API
calls are answered *somehow*. Users come and go without any fairness. Strong fairness
stands for two things:

- Go's `select` picks at random among what is ready. A closed stop channel or an expired
  resync timer stays ready while events keep coming, so it is not overlooked forever
  (`StopReturn`, `LateStops`, `WatchEnds`, `LoopReturns`, `StreamIsDone`).
- `ListOk`: the API server may refuse to list as often as it likes but not always. This
  is an assumption about the environment, and `Converges` would be false without it.

In `LogStreams` a cancelled stream may still send lines that it has read, but not
forever: its buffer is finite. In the browser (`Details`, `Toasts`) weak fairness says
that React draws what is queued, finishes deferred renders, that frames and timers run
and a fetch is answered; nothing is assumed of streams, and the properties are about
users who stop clicking and errors that stop. `LogTail`, `Page`, `HelmPages` and
`SelfUpdate` have no liveness property and state no fairness.

## 4. What is proved

Each proof holds for *any* sets and sizes, from the assumptions that the modules name
beside their constants. They are weak: at least two stop channels, and `NoTimer` no
timer (`EntryLifecycle`); a natural bound on versions, and channels of two or more
(`WatchEntry`) or one or more (`HelmPages`); every release at one driver (`HelmCache`);
natural bounds, and `NoStream` and `NoPod` no stream and no pod (`LogStreams`); different
containers, and a tab and a channel of one or more (`LogTail`); contexts
with a name, objects whose key is not `NoKey` (`Route`, `Page`, `Details`); versions of three
natural numbers, and `Unversioned` none of them (`SelfUpdate`).

| module | theorem | establishes |
|---|---|---|
| `EntryLifecycleProofs` | `LifeInvariant`, `LifeTypeCorrect` | the inductive invariant, the types |
| | `AtMostOneRun` | `OneRun`; this is why `run` may use `lastRV` without `e.mu` |
| | `NoSubscriberStranded`, `NoRunLeaks` | `NeverStranded`, `IdleRunHasTimer` |
| | `LifecycleImplementsRun` | `LifeSpec => Promise!RunSpec` |
| `WatchEntryProofs` | `WatchTypeSafety`, `NoChangeLost`, `NoSendBlocks`, `RefusalComesLast`, `HandoffIsComplete` | `WatchTypeOK`, `NothingLost`, `SendsNeverBlock`, `RefusalIsLast`, `HandoffComplete` |
| | `PagesGoForward` | `OnlyForward`: `WatchEntry` implements `ReplicaView` |
| `HelmProofs` | `CacheTypeSafety`, `NoRefreshLost`, `CacheGoesForward` | `CacheTypeOK`, `RefreshNotLost`, `CacheIsReplica` |
| | `PagesTypeSafety`, `IdlePageShowsCache` | `PagesTypeOK`, `PageShowsCache` |
| `LogStreamsProofs` | `LogInvariance`, `LogTypeSafety`, `NoDoubleStream`, `ClosedLast`, `CurrentPodsFollowed` | the inductive invariant, `LogTypeOK`, `OneStreamPerPod`, `CloseIsLast`, `FollowsCurrentPods` |
| `LogTailProofs` | `InitialLinesHaveOneOrder` | any finite set of lines can be sorted, in one way: `ReadContainer` never waits for an order |
| | `LogTailInvariant` | the inductive invariant, the types |
| | `NoLineTwice`, `OnlyGapsMissing`, `ReconnectErrorGone` | `OncePerConnection`, `OnlyGapsAreMissing`, `ReconnectErrorClears` |
| `PageProofs` | `HistoryIsTheTrail`, `NoViewLeaks`, `SelectionIsThere`, `DetailsOpenFresh` | `HistoryIsTrail`, `NothingLeaks`, `NoGhostSelection`, `FreshDetails` |
| | `SuggestionsAreFound` | a theorem about `Table` alone: each text that is suggested for a label, of any length, is split and parsed back to that label, and selects the objects that have it |
| `DetailsProofs` | `DetailsInvariant` | the inductive invariant, the types |
| | `TabsAreOfSelection`, `TabsComplete`, `RefusalShown` | `TabsShowSelection`, `TabsAreComplete`, `RefusalIsShown` |
| | `ChangeMakesNext`, `ChangeIsTight` | the editor's change between two texts of any length gives the second, and replaces nothing that both begin or end with |
| `SelfUpdateProofs` | `SelfUpdateTypes`, `NothingHalfWritten`, `SomethingToRun`, `MissingHasCause`, `NeverBack` | the types, `OnlyWholeExecutables`, `Recoverable`, `MissingForCause`, `NoDowngrade` |

Why the invariants are what they are:

- *Entry* (`LifeInv`): the type, `OneRun`, `NeverStranded`, `IdleRunHasTimer` and
  `ReturnedForCause`, a run that is returning was told to stop or was refused. Without
  it `NeverStranded` is not inductive: `markRunStopped` gives up when its channel is
  still open, and it must be known that the reason was a refusal. `OneRun` is what makes
  the refinement mapping a function of the state.
- *Resource watch*. `LostInv` is the types with `NothingLost` and `SendsNeverBlock`,
  which are inductive together: `NothingLost` itself speaks of what each primed page
  will show once its channel is applied. The proof rests on lemmas about `LastValue`,
  which folds a channel (an explicit definition, not a recursive one): what an appended
  message, a snapshot, a channel that is read make of it. `HandInv` adds to
  `HandoffComplete` what the list and the watch's events make up between the list and
  the end of the watch (`ListCurrent`, `DeletedFirst`). `RefusalInv` follows a refused
  run until it has ended: the error is in `out` or the last thing in each channel.
- *Going forward* (`ForwardInv`): for every object the versions in a page's view, its
  channel, the cache, the list, the watch's events and the cluster rise in that order
  (`Rising`). `OnlyForward` says nothing about channels and events and is not inductive.
- *Helm cache*. A driver is *settled* when its storage goroutine watches and no event,
  request or debounce is ahead. `RefreshInv` says for each stage of the refresh that the
  releases of settled drivers are current in it. `ViewInv` keeps what was heard between
  the cache and the cluster.
- *Helm pages* (`ToldInv`): a message under way has the cache's value; a subscriber is
  *served*, the last thing its channel says of a release, or its view, is the cache's
  value, unless the release has strayed or an initial item or a broadcast is ahead; a
  page without a subscription is *away*, with an empty view or all releases astray.
- *Log streams*: `LogInv`, the registry and the goroutines agree (a stream that was not
  told to stop is its pod's entry), and the loop leaves only when the request has ended, or
  before it has started a stream, because the deployment or its selector was not had;
  `FollowInv`, what the loop has handled is up to date for every pod without events
  ahead, and a pod that is alive without a stream had one that gave up.
- *Log lines* (`LogTailInv`). `OncePerConnection` counts places among the tab's entries,
  which no action reads; what makes it inductive is that a line is *due* in this
  connection (not read yet, or under way) exactly until it is received: `ShownOnce`
  counts the places and the line that is due together, `UnderWayOnce` keeps a line from
  being under way twice, and `Genuine` says that what is under way was read (`read` is
  ahead of it). `AllAccounted` is `OnlyGapsAreMissing` in every state: a line that was
  passed may also be under way. When a line is received and the tab has one of its key,
  it has to be the same line, unless another connection numbered it. `KeysDiffer` says so
  of the first connection: the initial lines have different numbers, and an open stream
  numbers only what is later than the lines that had no number from it (`Numbered`),
  because time has passed when the request was opened. `Phases` says what there cannot
  be yet, such as a line under way while the containers are read. A blank line is read,
  numbered and received like any other, and accounted for as blank (`AllAccounted`).
- *Page*: `RouteInv`, the history holds paths of views, and `handlingPopState` is set
  only after a popstate that left the view as it was; `BodyInv`, what is queued
  deselects at most what is drawn as selected, and the tab is one that the view offers.
  `SuggestionsAreFound` needs no invariant: it is about the functions that split and parse
  the filter's text. A key and a value hold no mark, so that the text has no comma to be
  split at, and its first mark is the one that was put between them.
- *Drawer's tabs* (`DetailsInv`): the page is never ahead of the cluster nor its picture
  ahead of the page (`InStep`); the stream and its events are of the object that is drawn
  (`ToldOfSelection`), and so are the fetch and its answer, which is no older than the
  page's revision (`FetchedForSelection`). `TabsAreComplete` speaks of an empty queue;
  `EventsFollow` says for each event what a queue must say: the last message about it is
  what the entry's cache has, and without one the tab is right, once it was sent a
  snapshot. A SNAPSHOT speaks about every event, so that what an interruption lost does
  not matter. `RefusalTold` adds that a refused entry has no watch, and that the error is
  the last message under way or what the tab shows. The lemmas about the editor's texts show that the
  loops that compare them end (`LoopEnds`: at the least place where they differ).
- *Self-update*, three invariants, each with the one before. `WholeInv` adds `Copies`:
  from `Stat` on the download is verified, and from `Close` on the temporary file is a
  copy of it. `LeftInv` adds `Missing`, a missing executable has its cause or an updater
  is between the renames, and `Alone`: while no two updaters have overlapped, one of the
  two files is there, and the path itself is, unless the updater is between the renames
  or done. `VersionInv` adds `Chosen`: what is about to be installed passed
  `ShouldInstall`, and an updater without a rival still is of the version that it
  replaces. That `IsNewerVersion` has no cycle of two is a lemma of its own.

Only model-checked: liveness and fairness (`IdleEntryStops`, `SubscribersServed`,
`KeepsPromise` with `FairRunSpec`, `Converges`, `StopsWhenIdle`, `GoroutinesEnd`,
`EverythingEnds`, `TabsSettle`, `EditorCatchesUp`, `ToastsEnd`, `LoggingEnds`), as TLAPS
does not handle ENABLED; with them all of `Toasts`, whose two properties are about
liveness; and the fold of the editor, which `EditorReference` compares with its
definition: the scan over the lines is a recursive function, and what one computes for
every input would have to be proved by an induction that the library states with an
operator parameter.

## 5. What is not modelled

- *Version check*: the cached request to GitHub. Its result only labels the header. Two
  requests that overlap may leave the older result in the cache for 15 minutes, which is
  listed as a hazard.
- *HTTP server*: routing, SSE framing, certificates and contexts check input and copy
  data, and have no state that lasts. The loops that drain a subscription's channel are
  in the modules of the subscriptions.
- *Presentation*: the text of cells and the comparison of two of them, highlighted JSON,
  relative ages, focus, scrolling and the drawer's height. They are pure or touch the
  DOM only, and have unit tests.
- *Unpacking an archive* in the self-update: a binary is found in it or the update ends.
- *Build, CI and release workflows*: they configure services outside the program.
- *Time*: a timer may fire at any moment after it is set. A debounce that a steady
  stream of requests postpones forever (a hazard) is out of the models' reach.

## 6. What could follow

1. A model of time for the debounce of Helm refreshes and for the version check's cache.
2. `Toasts`: that every toast has its timer, which `ToastsEnd` rests on, as an invariant
   and a theorem.
3. `YamlEditor`: the fold for documents of any length, from a least line at which the scan
   would differ from what it stands for, in the way in which `InitialLinesHaveOneOrder` is
   proved.
