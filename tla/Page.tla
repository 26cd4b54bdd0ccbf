--------------------------------- MODULE Page ---------------------------------
(***************************************************************************)
(* The body of the page (KubeWatchBody.tsx): the table with its filters    *)
(* and sort order, and the drawer with the details of a selected object.   *)
(* Messages of the resource stream and clicks of the user change the same  *)
(* state: useResourceStream's items, useDetailsState's selection.          *)
(*                                                                         *)
(* React draws late. A message's updates are drawn in a later task, so     *)
(* that the user may still click on a row that is gone: "now" is the state *)
(* with all updates that are queued, "drawn" is what the last commit put   *)
(* on the screen. A click is a discrete event: React draws everything that *)
(* is queued, the click's own update last, before it returns. A change of  *)
(* the view is discrete too, but it resets the body by an effect, whose    *)
(* updates are queued: until they are drawn, the objects of the old view   *)
(* stand in the table of the new one.                                      *)
(*                                                                         *)
(* isLoading and loadError are in WatchEntry; nothing here depends on them *)
(* but two alerts. Focus, scrolling and the drawer's height are left out.  *)
(*                                                                         *)
(* Operators whose name begins with Bug are mutated forms of the operator  *)
(* that follows them: each shows that some property detects the fault.     *)
(***************************************************************************)
EXTENDS Route

CONSTANTS Object,       \* Object[v]: what the stream of view v may hold
          UsedFilters,  \* the filters that users of the model set
          NoKey         \* selectedKey is null

ASSUME PageAssumption ==
  /\ \A v \in DOMAIN Object, o \in UNION {Object[w] : w \in DOMAIN Object} : o.key # NoKey
  /\ EmptyFilters \in UsedFilters

VARIABLES now, drawn
pageVars == <<now, drawn>>
vars == <<routeVars, pageVars>>

-----------------------------------------------------------------------------
NoItems == [k \in {} |-> 0]

\* An object's key is its uid, or its name and namespace (objectKey).
Keyed(objects) == [k \in {o.key : o \in objects} |-> CHOOSE o \in objects : o.key = k]

EmptyBody == [items |-> NoItems, selected |-> NoKey, tab |-> "yaml",
              maximized |-> FALSE, filters |-> EmptyFilters, sort |-> NoSort]

\* resetDetailsView; closeDetails; handleSelectedResourceDeleted.
ResetDetails(b) == [b EXCEPT !.tab = "yaml", !.maximized = FALSE]
CloseDetails(b) == [ResetDetails(b) EXCEPT !.selected = NoKey]
Deselect(b, gone) == IF b.selected \in gone THEN CloseDetails(b) ELSE b

HasDetails(b) == b.selected \in DOMAIN b.items
Rows(b) == {k \in DOMAIN b.items : MatchesFilters(view.resource, b.items[k], b.filters)}

\* A maximized drawer is modal: it takes the clicks on what it covers.
Covered(b) == HasDetails(b) /\ b.maximized

-----------------------------------------------------------------------------
PageInit ==
  /\ RouteInit
  /\ now = EmptyBody
  /\ drawn = EmptyBody

\* The effect of useResourceStream: the stream of the old view is closed and
\* onReset called. The commit that runs it still has the old objects.
BugResetBody(b) == [CloseDetails(b) EXCEPT !.items = NoItems, !.filters = EmptyFilters]
ResetBody(b) == [CloseDetails(b) EXCEPT !.items = NoItems, !.filters = EmptyFilters,
                                        !.sort = NoSort]

\* The effect that drops a status filter where the resource has none.
ClearHiddenStatus(b) ==
  IF "status" \notin ControlsOf(view'.resource) THEN [b EXCEPT !.filters.status = ""]
  ELSE b

BodyFollowsView ==
  /\ drawn' = now
  /\ now' = IF view' = view THEN now ELSE ClearHiddenStatus(ResetBody(now))

UserSelectsView ==
  \E v \in View :
    /\ ~Covered(drawn)
    /\ SelectView(v)
    /\ BodyFollowsView

BrowserGoes == \E n \in 1..MaxHistory : PopState(n) /\ BodyFollowsView

\* React draws what messages and effects have queued.
Render ==
  /\ drawn # now
  /\ drawn' = now
  /\ UNCHANGED <<routeVars, now>>

-----------------------------------------------------------------------------
(* Messages of the resource stream: es.onmessage. Which ones the server    *)
(* sends is WatchEntry's and HelmPages' concern; here they are arbitrary.  *)

Receives(body) ==
  /\ view \in DOMAIN Object
  /\ now' = body
  /\ UNCHANGED <<routeVars, drawn>>

BugSnapshotGone(next) == {}
SnapshotGone(next) == DOMAIN now.items \ DOMAIN next

Snapshot(objects) ==
  LET next == Keyed(objects)
  IN  Receives([Deselect(now, SnapshotGone(next)) EXCEPT !.items = next])

AddedOrModified(o) ==
  Receives([now EXCEPT !.items =
              [k \in DOMAIN @ \cup {o.key} |-> IF k = o.key THEN o ELSE @[k]]])

Deleted(o) ==
  Receives([Deselect(now, {o.key}) EXCEPT
              !.items = [k \in DOMAIN now.items \ {o.key} |-> now.items[k]]])

Message ==
  /\ view \in DOMAIN Object
  /\ \/ \E objects \in SUBSET Object[view] :
          /\ \A o, p \in objects : o.key = p.key => o = p
          /\ Snapshot(objects)
     \/ \E o \in Object[view] : AddedOrModified(o) \/ Deleted(o)

-----------------------------------------------------------------------------
(* Clicks: on what is drawn, applied to what is now.                       *)

Click(body) ==
  /\ now' = body
  /\ drawn' = now'
  /\ UNCHANGED routeVars

\* setSelectedKey's updater resets the details only when the key changes.
BugRowClick(k) ==
  /\ k \in Rows(drawn) /\ ~Covered(drawn)
  /\ Click([now EXCEPT !.selected = IF @ = k THEN NoKey ELSE k])
RowClick(k) ==
  /\ k \in Rows(drawn) /\ ~Covered(drawn)
  /\ Click([ResetDetails(now) EXCEPT !.selected = IF @ = k THEN NoKey ELSE k])

HeaderClick(column) ==
  /\ column \in ColumnsOf[view.resource] /\ ~Covered(drawn)
  /\ Click([now EXCEPT !.sort = NextSort(@, column)])

TabClick(tab) ==
  /\ HasDetails(drawn)
  /\ tab \in TabsOffered(view.resource) \ {drawn.tab}
  /\ Click([now EXCEPT !.tab = tab])

ToggleMaximized ==
  /\ HasDetails(drawn)
  /\ Click([now EXCEPT !.maximized = ~@])

CloseClick ==
  /\ HasDetails(drawn)
  /\ Click(CloseDetails(now))

\* One control at a time; "Clear filters" sets them all.
SetFilters(f) ==
  /\ ~Covered(drawn)
  /\ \/ \E c \in ControlsOf(view.resource) : f = [drawn.filters EXCEPT ![c] = f[c]]
     \/ f = EmptyFilters /\ HasActiveFilters(drawn.filters)
  /\ f # drawn.filters
  /\ Click([now EXCEPT !.filters =
              IF f = EmptyFilters THEN f
              ELSE [c \in DOMAIN @ |-> IF f[c] # drawn.filters[c] THEN f[c] ELSE @[c]]])

UserClicks ==
  \/ \E k \in DOMAIN drawn.items : RowClick(k)
  \/ \E column \in {"name", "restarts"} : HeaderClick(column)
  \/ \E tab \in {"yaml", "events", "logs", "history"} : TabClick(tab)
  \/ ToggleMaximized
  \/ CloseClick
  \/ \E f \in UsedFilters : SetFilters(f)

Next == UserSelectsView \/ BrowserGoes \/ Render \/ Message \/ UserClicks

Spec == PageInit /\ [][Next]_vars

-----------------------------------------------------------------------------
Dangling(b) == b.selected # NoKey /\ ~HasDetails(b)

\* The selection never outlives its object, so that the drawer cannot open by
\* itself when an object with that key comes back. Only a click on a row that is
\* gone already, but still drawn, selects nothing (ResourceTable.tsx:75 does not
\* look): however deletions, snapshots and a change of view come in.
NoGhostSelection ==
  [][ Dangling(now') /\ ~Dangling(now)
        => \E k \in Rows(drawn) : k \notin DOMAIN now.items /\ now'.selected = k ]_vars

\* Details of another object open at its YAML and at the usual size, whatever the
\* order in which a deletion and clicks are drawn (useDetailsState.ts:9-25).
FreshDetails ==
  [][ drawn'.selected \notin {NoKey, drawn.selected}
        => drawn'.tab = "yaml" /\ ~drawn'.maximized ]_vars

\* Nothing of one view is at work in another: its objects, its sort order, a
\* filter without a control that would show it, a tab that is not offered.
NothingLeaks ==
  /\ \A k \in DOMAIN now.items : view \in DOMAIN Object /\ now.items[k] \in Object[view]
  /\ now.sort = NoSort \/ now.sort.column \in ColumnsOf[view.resource]
  /\ \A c \in DOMAIN EmptyFilters \ ControlsOf(view.resource) :
       now.filters[c] = EmptyFilters[c]
  /\ HasDetails(now) => now.tab \in TabsOffered(view.resource)
=============================================================================
