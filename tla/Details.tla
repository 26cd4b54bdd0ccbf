------------------------------- MODULE Details -------------------------------
(***************************************************************************)
(* What the tabs of the drawer show: its editor (YamlEditor), the events   *)
(* of the selected object (useResourceEvents.ts, with a stream of its own) *)
(* and the history of a Helm release (useHelmHistory.ts, with a fetch).    *)
(* Page has the selection itself; here the page is its objects' versions,  *)
(* what is selected and the tab. The logs are LogTail.                     *)
(*                                                                         *)
(* As in Page, updates are queued ("page", "ev", "hi") and drawn together  *)
(* by a commit, which then runs the effects of what it changed: it mounts  *)
(* or removes the editor, closes a stream and opens another, aborts a      *)
(* fetch and sends another. The updates that an effect makes are queued.   *)
(*                                                                         *)
(* The version of an object counts its changes. A Helm release keeps its   *)
(* revision over two of them: deployed is the second status of a revision. *)
(*                                                                         *)
(* Operators whose name begins with Bug are mutated forms of the operator  *)
(* that follows them: each shows that some property detects the fault.     *)
(***************************************************************************)
EXTENDS YamlEditor, FiniteSets

CONSTANTS Key, NoKey,  \* objects of the page, and none
          Subject,     \* Subject[k]: kind, uid, name and namespace of object k
          Event,       \* events of the context; .involved is like a Subject
          MaxVersion,  \* bound on the changes of an object of each resource
          MaxDeleted,  \* bound on the objects that are deleted
          MaxQueue     \* bound on the messages under way, two at least

Resource == {"pods", "helmreleases"}

ASSUME DetailsAssumption == /\ NoKey \notin Key
                     /\ MaxVersion \in [Resource -> Nat] /\ MaxQueue \in Nat

VARIABLES resource,  \* of the page: pods, which has events, or helmreleases
          truth,     \* truth[k]: the version that the cluster has, 0 when deleted
          page, drawn,      \* [items, key, tab], queued and drawn
          editor,           \* of the drawn drawer
          run,              \* where the run of the events' watchEntry is
          cache, refused,   \* the entry's cache, and that it has a terminalError
          ev, evDrawn,      \* [events, loading, error] of useResourceEvents
          stream,           \* its EventSource, emptyEventsTimer, and whether a
                            \*   snapshot was sent since it connected (history)
          hi, hiDrawn,      \* [of, revision, loading, error] of useHelmHistory
          fetch             \* its request that is not answered or aborted

clusterVars == <<resource, truth>>
entryVars == <<run, cache, refused>>
serverVars == <<clusterVars, entryVars>>
pageVars == <<page, drawn, editor, evDrawn, hiDrawn>>
eventVars == <<ev, stream>>
historyVars == <<hi, fetch>>
vars == <<serverVars, pageVars, eventVars, historyVars>>

-----------------------------------------------------------------------------
HasItem(p) == p.key # NoKey /\ p.items[p.key] > 0
VersionOf(p) == IF HasItem(p) THEN p.items[p.key] ELSE 0
Revision(version) == (version + 1) \div 2

\* By uid where both have one, else by name and namespace, and by kind unless the
\* event has none.
EventMatches(e, subject) ==
  IF e.involved.uid # "" /\ subject.uid # "" THEN e.involved.uid = subject.uid
  ELSE /\ e.involved.name = subject.name
       /\ e.involved.namespace = subject.namespace
       /\ e.involved.kind \in {"", subject.kind}

\* What the two hooks depend on. An effect runs when this changes.
EventsOf(p) == IF HasItem(p) /\ resource = "pods" THEN p.key ELSE NoKey
HistoryOf(p) ==
  IF HasItem(p) /\ resource = "helmreleases" /\ p.tab = "history"
  THEN [key |-> p.key, revision |-> Revision(VersionOf(p))]
  ELSE [key |-> NoKey]

Matching(k, events) == {e \in events : EventMatches(e, Subject[k])}

NoEvents == [events |-> {}, loading |-> FALSE, error |-> ""]
NoHistory == [of |-> NoKey, revision |-> 0, loading |-> FALSE, error |-> ""]
StreamTo(k, conn, timer) ==
  [for |-> k, conn |-> conn, queue |-> <<>>, timer |-> timer, told |-> FALSE]
Closed == StreamTo(NoKey, "closed", FALSE)
NoFetch == [for |-> NoKey, revision |-> 0, stage |-> "none"]

\* The alerts of the two tabs: a table without rows has one of the three.
Alerts(t, rows) ==
  {a \in {"loading", "error", "empty"} :
     CASE a = "loading" -> t.loading
       [] a = "error" -> t.error # ""
       [] a = "empty" -> ~t.loading /\ t.error = "" /\ rows = {}}
EventsTab == Alerts(evDrawn, evDrawn.events)
HistoryTab == Alerts(hiDrawn, {k \in Key : hiDrawn.of = k})

DetailsInit ==
  /\ resource \in Resource
  /\ truth = [k \in Key |-> 1]
  /\ page = [items |-> truth, key |-> NoKey, tab |-> "yaml"]
  /\ drawn = page
  /\ editor = NoEditor
  /\ run = "new" /\ cache = {} /\ refused = FALSE
  /\ ev = NoEvents /\ evDrawn = NoEvents
  /\ stream = Closed
  /\ hi = NoHistory /\ hiDrawn = NoHistory
  /\ fetch = NoFetch

-----------------------------------------------------------------------------
(* A commit and its effects.                                               *)

BugNewEvents(k) == [ev EXCEPT !.loading = (k # NoKey), !.error = ""]
NewEvents(k) == [NoEvents EXCEPT !.loading = (k # NoKey)]

BugStreamFor(k) == StreamTo(k, "connecting", FALSE)
StreamFor(k) == StreamTo(k, "connecting", TRUE)

EventsEffect ==
  LET k == EventsOf(drawn')
  IN  IF k # EventsOf(drawn)
      THEN /\ ev' = NewEvents(k)
           /\ stream' = IF k = NoKey THEN Closed ELSE StreamFor(k)
      ELSE UNCHANGED eventVars

HistoryEffect ==
  LET for == HistoryOf(drawn')
  IN  IF for # HistoryOf(drawn) \/ drawn'.tab # drawn.tab
      THEN /\ hi' = [NoHistory EXCEPT !.loading = (for.key # NoKey)]
           /\ fetch' = IF for.key = NoKey THEN NoFetch
                      ELSE [NoFetch EXCEPT !.for = for.key, !.stage = "sent"]
      ELSE UNCHANGED historyVars

EditorEffect ==
  editor' = IF ~HasItem(drawn') \/ drawn'.tab # "yaml" THEN NoEditor
            ELSE IF editor.mounted /\ editor.key = drawn'.key THEN Redrawn(editor)
            ELSE Mounted(drawn'.key, VersionOf(drawn'))

Commit(next) ==
  /\ page' = next
  /\ drawn' = next
  /\ evDrawn' = ev
  /\ hiDrawn' = hi
  /\ EventsEffect /\ HistoryEffect /\ EditorEffect
  /\ UNCHANGED serverVars

Render ==
  /\ page # drawn \/ ev # evDrawn \/ hi # hiDrawn
  /\ Commit(page)

\* Clicks: on a row, on the drawer's Close, on a tab.
RowClick(k) ==
  /\ drawn.items[k] > 0
  /\ Commit([page EXCEPT !.key = IF @ = k THEN NoKey ELSE k, !.tab = "yaml"])

CloseClick ==
  /\ HasItem(drawn)
  /\ Commit([page EXCEPT !.key = NoKey, !.tab = "yaml"])

TabClick(tab) ==
  /\ HasItem(drawn) /\ tab # drawn.tab
  /\ tab \in {"yaml", IF resource = "pods" THEN "events" ELSE "history"}
  /\ Commit([page EXCEPT !.tab = tab])

-----------------------------------------------------------------------------
(* The objects change, and the page's own stream says so, in order. The    *)
(* model bounds how far the cluster gets ahead of the page: one change.    *)

ObjectChanges(k) ==
  /\ truth[k] > 0 /\ truth[k] = page.items[k]
  /\ \/ truth[k] < MaxVersion[resource] /\ truth' = [truth EXCEPT ![k] = @ + 1]
     \/ /\ Cardinality({l \in Key : truth[l] = 0}) < MaxDeleted
        /\ truth' = [truth EXCEPT ![k] = 0]
  /\ UNCHANGED <<resource, entryVars, pageVars, eventVars, historyVars>>

PageReceives(k) ==
  /\ page.items[k] # truth[k]
  /\ \/ page.items[k] < truth[k] /\ page' = [page EXCEPT !.items[k] = @ + 1]
     \/ /\ truth[k] = 0
        /\ page' = [page EXCEPT !.items[k] = 0,
                                !.key = IF @ = k THEN NoKey ELSE @,
                                !.tab = IF page.key = k THEN "yaml" ELSE @]
  /\ UNCHANGED <<serverVars, drawn, editor, evDrawn, hiDrawn, eventVars, historyVars>>

-----------------------------------------------------------------------------
(* The deferred text of the editor, and its frame.                         *)

EditorStep(e) ==
  /\ editor' = e
  /\ UNCHANGED <<serverVars, page, drawn, evDrawn, hiDrawn, eventVars, historyVars>>

Behind == editor.mounted /\ editor.content # VersionOf(drawn)

DeferredRender ==
  /\ Behind /\ editor.pending # VersionOf(drawn)
  /\ EditorStep(Rendered(editor, VersionOf(drawn)))

DeferredCommit ==
  /\ Behind /\ editor.pending = VersionOf(drawn)
  /\ EditorStep(Committed(editor, VersionOf(drawn)))

Frame ==
  /\ editor.mounted /\ editor.frame
  /\ EditorStep(FrameRuns(editor))

-----------------------------------------------------------------------------
(* The stream of the context's events, and the server's entry for them.    *)
(* WatchEntry has the entry's steps and its channels of 256 messages; here *)
(* a list is one step, told by the snapshot it ends with, and what is      *)
(* under way to the page is bounded instead: sends wait for room, where    *)
(* the code drops a full channel's messages for a snapshot. The back-off   *)
(* after a failure is a part of "listing".                                 *)
(*                                                                         *)
(* An entry is "new" until a subscriber stores it, and has a run from its  *)
(* first addClient on. The subscriber that stored it is not greeted: the   *)
(* run it starts will tell it. It may be overtaken between the two, by     *)
(* another page that starts the run: then it hears nothing before the next *)
(* change, failure or list.                                                *)

StreamSteps == UNCHANGED <<resource, truth, pageVars, historyVars>>

SnapshotOf(events) == [type |-> "SNAPSHOT", objects |-> events]
Synced == [type |-> "SYNCED"]
Error == [type |-> "ERROR"]

Sent(messages) ==
  IF stream.conn # "open" THEN stream
  ELSE [stream EXCEPT !.queue = @ \o messages,
                      !.told = @ \/ \E i \in DOMAIN messages : messages[i].type = "SNAPSHOT"]

\* The run gets to another place and broadcasts. It runs on for other pages when this
\* one shows Helm releases, which have no events; the model leaves that out.
RunGoes(next, messages) ==
  /\ resource = "pods"
  /\ Len(stream.queue) + Len(messages) <= MaxQueue
  /\ run' = next
  /\ stream' = Sent(messages)
  /\ UNCHANGED ev
  /\ StreamSteps

\* The list finds any events; the watch tells of any change.
ListSucceeds ==
  /\ run = "listing"
  /\ cache' \in SUBSET Event /\ refused' = FALSE
  /\ RunGoes("starting", <<SnapshotOf(cache'), Synced>>)

ListFails ==
  /\ run = "listing"
  /\ RunGoes("listing", <<Error>>)
  /\ UNCHANGED <<cache, refused>>

\* The list or the start of the watch is forbidden: the run returns.
Forbidden ==
  /\ run \in {"listing", "starting"}
  /\ refused' = TRUE
  /\ RunGoes("returning", <<Error>>)
  /\ UNCHANGED cache

WatchOpens ==
  /\ run = "starting"
  /\ RunGoes("watching", <<>>)
  /\ UNCHANGED <<cache, refused>>

WatchDelivers(e) ==
  /\ run = "watching"
  /\ IF e \in cache
     THEN cache' = cache \ {e} /\ RunGoes("watching", <<[type |-> "DELETED", object |-> e]>>)
     ELSE cache' = cache \cup {e} /\ RunGoes("watching", <<[type |-> "ADDED", object |-> e]>>)
  /\ UNCHANGED refused

\* The watch cannot be opened, expires, is closed or due for a new list. A run that was
\* told to stop also begins again like this, when the page was there before it noticed.
\* An error that the watch reports and survives is no change and has no error field: the
\* tab ignores it.
WatchEnds ==
  /\ run \in {"starting", "watching"}
  /\ RunGoes("listing", <<>>) \/ RunGoes("listing", <<Error>>)
  /\ UNCHANGED <<cache, refused>>

\* markRunStopped: after a refusal there is no run until somebody subscribes, unless it
\* was also told to stop while nobody was there and has subscribers again.
Returns ==
  /\ run = "returning"
  /\ RunGoes("none", <<>>) \/ RunGoes("listing", <<>>)
  /\ UNCHANGED <<cache, refused>>

\* Nobody subscribes any more, for 30 s; another page subscribes to the entry.
IdleStop ==
  /\ run \notin {"new", "none"} /\ stream.conn # "open"
  /\ RunGoes("none", <<>>)
  /\ UNCHANGED <<cache, refused>>

OthersSubscribe ==
  /\ run \in {"new", "none"}
  /\ RunGoes("listing", <<>>)
  /\ UNCHANGED <<cache, refused>>

\* The page's request stores the entry; its subscription is added to the entry.
Creates ==
  /\ stream.conn = "connecting" /\ run = "new"
  /\ run' = "none"
  /\ stream' = [stream EXCEPT !.conn = "creating"]
  /\ UNCHANGED <<cache, refused, ev>>
  /\ StreamSteps

BugGreeting == IF stream.conn = "creating" THEN <<>> ELSE <<SnapshotOf(cache), Synced>>
Greeting ==
  IF stream.conn = "creating" THEN <<>>
  ELSE <<SnapshotOf(cache), IF refused THEN Error ELSE Synced>>

Joins ==
  /\ stream.conn = "creating" \/ (stream.conn = "connecting" /\ run # "new")
  /\ run' = IF run = "none" THEN "listing" ELSE run
  /\ stream' = [stream EXCEPT !.conn = "open", !.queue = Greeting,
                              !.told = (stream.conn = "connecting")]
  /\ UNCHANGED <<cache, refused, ev>>
  /\ StreamSteps

\* es.onerror: the browser connects again by itself.
Interrupted ==
  /\ stream.conn # "closed"
  /\ stream' = StreamTo(stream.for, "connecting", FALSE)
  /\ ev' = [ev EXCEPT !.loading = FALSE, !.error = "interrupted"]
  /\ UNCHANGED entryVars
  /\ StreamSteps

\* es.onmessage. A change that is about another object does not even end loading.
BugSnapshotEvents(m) == ev.events \cup Matching(stream.for, m.objects)
SnapshotEvents(m) == Matching(stream.for, m.objects)

Receive ==
  /\ stream.queue # <<>>
  /\ LET m == Head(stream.queue)
         ignored == /\ m.type \in {"ADDED", "DELETED"}
                    /\ ~EventMatches(m.object, Subject[stream.for])
         events == CASE m.type = "SNAPSHOT" -> SnapshotEvents(m)
                     [] m.type = "ADDED" -> ev.events \cup {m.object}
                     [] m.type = "DELETED" -> ev.events \ {m.object}
                     [] m.type \in {"SYNCED", "ERROR"} -> ev.events
     IN  /\ stream' = [stream EXCEPT !.queue = Tail(@), !.timer = @ /\ ignored]
         /\ ev' = IF ignored THEN ev
                  ELSE [events |-> events, loading |-> FALSE,
                        error |-> IF m.type = "ERROR" THEN "server" ELSE ""]
  /\ UNCHANGED entryVars
  /\ StreamSteps

\* emptyEventsTimer, 2.5 s after the stream was asked for.
TimerFires ==
  /\ stream.timer
  /\ stream' = [stream EXCEPT !.timer = FALSE]
  /\ ev' = [ev EXCEPT !.loading = FALSE]
  /\ UNCHANGED entryVars
  /\ StreamSteps

EventsNext ==
  \/ \E e \in Event : WatchDelivers(e)
  \/ OthersSubscribe \/ IdleStop \/ Returns
  \/ ListSucceeds \/ ListFails \/ Forbidden \/ WatchOpens \/ WatchEnds
  \/ Creates \/ Joins \/ Interrupted \/ Receive \/ TimerFires

-----------------------------------------------------------------------------
(* The fetch of a release's history. Its answer is what the storage had    *)
(* when the server read it; an aborted fetch changes nothing.              *)

ServerAnswers ==
  /\ fetch.stage = "sent"
  /\ \/ /\ truth[fetch.for] > 0
        /\ fetch' = [fetch EXCEPT !.stage = "read", !.revision = Revision(truth[fetch.for])]
     \/ fetch' = [fetch EXCEPT !.stage = "failed"]
  /\ UNCHANGED <<serverVars, pageVars, eventVars, hi>>

AnswerArrives ==
  /\ fetch.stage \in {"read", "failed"}
  /\ fetch' = NoFetch
  /\ hi' = IF fetch.stage = "failed" THEN [hi EXCEPT !.loading = FALSE, !.error = "failed"]
           ELSE [of |-> fetch.for, revision |-> fetch.revision, loading |-> FALSE, error |-> ""]
  /\ UNCHANGED <<serverVars, pageVars, eventVars>>

-----------------------------------------------------------------------------
UserClicks ==
  \/ \E k \in Key : RowClick(k)
  \/ CloseClick
  \/ \E tab \in {"yaml", "events", "history"} : TabClick(tab)

Next ==
  \/ UserClicks \/ Render
  \/ \E k \in Key : ObjectChanges(k) \/ PageReceives(k)
  \/ DeferredRender \/ DeferredCommit \/ Frame
  \/ EventsNext
  \/ ServerAnswers \/ AnswerArrives

\* The browser runs what is due: commits, deferred renders, frames, timers; a
\* request is answered. Nothing is assumed of the stream or of the user.
Fairness ==
  /\ WF_vars(Render)
  /\ WF_vars(DeferredRender) /\ WF_vars(DeferredCommit) /\ WF_vars(Frame)
  /\ WF_vars(TimerFires)
  /\ WF_vars(ServerAnswers) /\ WF_vars(AnswerArrives)

Spec == DetailsInit /\ [][Next]_vars /\ Fairness

-----------------------------------------------------------------------------
\* A tab never shows what belongs to another object: not the events of the object
\* selected before, whose stream may still have messages under way, and not the
\* history of another release, whose fetch may still be answered.
TabsShowSelection ==
  /\ HasItem(drawn) /\ drawn.tab = "events" =>
       \A e \in evDrawn.events : EventMatches(e, Subject[drawn.key])
  /\ HasItem(drawn) /\ drawn.tab = "history" => hiDrawn.of \in {NoKey, drawn.key}

\* At rest the tabs are complete. A stream is the selected object's; once it was sent a
\* snapshot and nothing is under way, its events are those that the server's entry has of
\* the object, whatever was lost, refused and listed again before. A history that is not
\* loading has the revision that the page shows (useResourceEvents.ts:45-94,
\* watchmgr.go:165-199, useHelmHistory.ts:12-42).
TabsAreComplete ==
  /\ stream.conn = "open" /\ stream.queue = <<>>
       => /\ stream.for = EventsOf(drawn)
          /\ stream.told => ev.events = Matching(stream.for, cache)
  /\ HistoryOf(drawn).key # NoKey /\ ~hi.loading /\ hi.error = ""
       => hi.revision >= HistoryOf(drawn).revision

\* While the server's entry is refused, a tab that was sent a snapshot says so once
\* nothing is under way, whether it was there when that happened or connected later:
\* what the entry had before is not shown as if it were still watched
\* (watchmgr.go:193-197, 305-311, 328-336).
RefusalIsShown ==
  stream.conn = "open" /\ stream.told /\ stream.queue = <<>> /\ refused
    => ev.error = "server"

StopsClicking == ~[]<><<UserClicks>>_vars

\* "Loading..." ends once the user stops clicking: also for an object without
\* events, of which a server that has not listed them yet says nothing.
TabsSettle ==
  StopsClicking => []<>("loading" \notin EventsTab) /\ []<>("loading" \notin HistoryTab)

\* The editor gets to what the page has of its object and stays there, however
\* renders are given up and frames come late.
EditorCatchesUp ==
  StopsClicking => <>[](editor.mounted => editor.applied = VersionOf(page))
=============================================================================
