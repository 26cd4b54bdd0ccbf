------------------------------ MODULE PageProofs ------------------------------
(***************************************************************************)
(* Proofs about Page and Route, for any contexts, objects, filters and     *)
(* length of the browser's history: the history is the user's trail, the   *)
(* selection neither outlives its object nor opens details that are not    *)
(* fresh, and nothing of one view is at work in another. The last part is  *)
(* about the label filter's text: what is suggested is parsed back to the  *)
(* label that it was taken from.                                           *)
(***************************************************************************)
EXTENDS Page, SequenceTheorems, TLAPS

-----------------------------------------------------------------------------
(* Paths and views.                                                        *)

\* A view of any resource that there is, as a path names it.
AnyView == [ctx : Context \cup {""}, resource : Resource]

LEMMA Registry ==
  /\ DefaultResource \in Resource /\ \A r : SupportedResource(r) <=> r \in Resource
  /\ View \subseteq AnyView
<1>1. DefaultResource \in Resource /\ \A r : SupportedResource(r) <=> r \in Resource
  BY DEF DefaultResource, Resource, ColumnsOf, SupportedResource
<1> QED
  BY <1>1, RouteAssumption DEF View, AnyView

\* Whatever the path is, it names a view.
LEMMA PathNamesView == ASSUME NEW path PROVE ParseViewRoute(path) \in AnyView
<1>1. CASE path = <<>> \/ Head(path) # "view"
  BY <1>1, Registry DEF ParseViewRoute, AnyView
<1>2. CASE ~(path = <<>> \/ Head(path) # "view")
  <2> DEFINE c == IF Len(path) > 1 /\ path[2] \in Context THEN path[2] ELSE ""
             r == IF Len(path) > 2 /\ SupportedResource(path[3])
                  THEN path[3] ELSE DefaultResource
  <2>1. c \in Context \cup {""} /\ r \in Resource
    BY Registry
  <2>2. ParseViewRoute(path) = [ctx |-> c, resource |-> r]
    BY <1>2 DEF ParseViewRoute
  <2> HIDE DEF c, r
  <2>3. [ctx |-> c, resource |-> r] \in AnyView
    BY <2>1 DEF AnyView
  <2> QED
    BY <2>2, <2>3
<1> QED
  BY <1>1, <1>2

\* A path with a context and a resource names them.
LEMMA PathNames ==
  ASSUME NEW path, NEW c \in Context, NEW r \in Resource, path # <<>>, Head(path) = "view",
         Len(path) = 3, path[2] = c, path[3] = r
  PROVE  ParseViewRoute(path) = [ctx |-> c, resource |-> r]
<1>1. SupportedResource(path[3]) /\ path[2] \in Context
  BY Registry
<1>2. Len(path) > 1 /\ Len(path) > 2
  OBVIOUS
<1> QED
  BY <1>1, <1>2 DEF ParseViewRoute

\* The path of a view leads back to the path, and to the view unless it has no context.
LEMMA RoundTrip ==
  ASSUME NEW v \in AnyView
  PROVE  ViewRoutePath(ParseViewRoute(ViewRoutePath(v))) = ViewRoutePath(v)
<1>1. v.ctx \in Context \cup {""} /\ v.resource \in Resource
  BY DEF AnyView
<1>2. CASE v.ctx = ""
  <2>1. ViewRoutePath(v) = <<>>
    BY <1>2 DEF ViewRoutePath
  <2>2. ParseViewRoute(<<>>).ctx = ""
    BY DEF ParseViewRoute
  <2> QED
    BY <2>1, <2>2 DEF ViewRoutePath
<1>3. CASE v.ctx # ""
  <2> DEFINE path == <<"view", v.ctx, v.resource>>
             w == [ctx |-> v.ctx, resource |-> v.resource]
  <2>1. ViewRoutePath(v) = path
    BY <1>1, <1>3, Registry DEF ViewRoutePath
  <2>2. ParseViewRoute(path) = w
    <3>1. /\ path # <<>> /\ Head(path) = "view" /\ Len(path) = 3
          /\ path[2] = v.ctx /\ path[3] = v.resource
      OBVIOUS
    <3> HIDE DEF path
    <3> QED
      BY <1>1, <1>3, <3>1, PathNames
  <2>3. ViewRoutePath(w) = path
    BY <1>1, <1>3, Registry DEF ViewRoutePath
  <2> QED
    BY <2>1, <2>2, <2>3
<1> QED
  BY <1>2, <1>3

-----------------------------------------------------------------------------
(* The route.                                                              *)

Path == {ViewRoutePath(v) : v \in AnyView}

\* All that the history holds are paths of views; a popstate that is being handled has
\* left the view as it was.
RouteInv ==
  /\ view \in AnyView
  /\ hist \in Seq(Path) /\ pos \in 1..Len(hist)
  /\ handlingPopState => idlePop
  /\ HistoryIsTrail

LEMMA RouteStarts == RouteInit => RouteInv
<1> SUFFICES ASSUME RouteInit PROVE RouteInv
  OBVIOUS
<1> DEFINE p == ViewRoutePath(view)
<1>1. view \in AnyView /\ hist = <<p>> /\ pos = 1 /\ ~handlingPopState /\ trail = hist
  BY PathNamesView DEF RouteInit
<1>2. p \in Path
  BY <1>1 DEF Path
<1>3. hist \in Seq(Path) /\ pos \in 1..Len(hist) /\ hist[pos] = p
  <2> HIDE DEF p
  <2> QED
    BY <1>1, <1>2
<1> QED
  BY <1>1, <1>3 DEF RouteInv, HistoryIsTrail

\* What a select does to the history.
LEMMA SelectRoute ==
  ASSUME RouteInv, NEW v \in AnyView, SelectView(v) PROVE RouteInv'
<1> DEFINE p == ViewRoutePath(v)
<1>1. view' = v /\ handlingPopState' = FALSE /\ v \in AnyView
  BY DEF SelectView, RouteEffect
<1>2. hist \in Seq(Path) /\ pos \in 1..Len(hist) /\ p \in Path
  BY DEF RouteInv, Path
<1>3. CASE p = hist[pos]
  <2>1. hist' = hist /\ pos' = pos /\ trail' = trail
    BY <1>3 DEF SelectView, RouteEffect, Paths
  <2> QED
    BY <1>1, <1>2, <1>3, <2>1 DEF RouteInv, HistoryIsTrail
<1>4. CASE p # hist[pos] /\ handlingPopState
  <2>1. hist' = [hist EXCEPT ![pos] = p] /\ pos' = pos
    BY <1>4 DEF SelectView, RouteEffect, Paths
  <2>2. trail' = <<>>
    BY <1>4 DEF SelectView, RouteInv
  <2>3. hist' \in Seq(Path) /\ Len(hist') = Len(hist) /\ hist'[pos] = p
    <3> HIDE DEF p
    <3> QED
      BY <1>2, <2>1
  <2> QED
    BY <1>1, <1>2, <2>1, <2>2, <2>3 DEF RouteInv, HistoryIsTrail
<1>5. CASE p # hist[pos] /\ ~handlingPopState
  <2>1. hist' = Append(SubSeq(hist, 1, pos), p) /\ pos' = pos + 1
    BY <1>5 DEF SelectView, RouteEffect, Paths, Visited
  <2>2. trail' = <<>> \/ (trail # <<>> /\ trail' = Append(SubSeq(trail, 1, pos), p))
    BY <1>5 DEF SelectView
  <2>3. trail' # <<>> => trail' = hist'
    BY <2>1, <2>2 DEF RouteInv, HistoryIsTrail
  <2> DEFINE old == SubSeq(hist, 1, pos)
  <2>4. old \in Seq(Path) /\ Len(old) = pos /\ pos \in Nat
    BY <1>2
  <2>5. hist' \in Seq(Path) /\ Len(hist') = pos + 1 /\ hist'[pos + 1] = p
    <3>1. hist' = Append(old, p)
      BY <2>1
    <3> HIDE DEF old, p
    <3> QED
      BY <1>2, <2>4, <3>1
  <2> QED
    BY <1>1, <2>1, <2>3, <2>4, <2>5 DEF RouteInv, HistoryIsTrail
<1> QED
  BY <1>3, <1>4, <1>5

\* What the browser's own steps do to it.
LEMMA PopRoute ==
  ASSUME RouteInv, NEW n, PopState(n) PROVE RouteInv'
<1>1. /\ n \in DOMAIN hist /\ pos' = n /\ view' = ParseViewRoute(hist[n])
      /\ handlingPopState' = Handled(view') /\ idlePop' = (view' = view)
      /\ UNCHANGED <<hist, trail>>
  BY DEF PopState
<1>2. hist \in Seq(Path) /\ n \in 1..Len(hist) /\ hist[n] \in Path
  BY <1>1 DEF RouteInv
<1>3. PICK v \in AnyView : hist[n] = ViewRoutePath(v)
  BY <1>2 DEF Path
<1>4. hist[n] = ViewRoutePath(view') /\ view' \in AnyView
  BY <1>1, <1>3, RoundTrip, PathNamesView
<1>5. handlingPopState' => idlePop'
  BY <1>1 DEF Handled
<1> QED
  BY <1>1, <1>2, <1>4, <1>5 DEF RouteInv, HistoryIsTrail

LEMMA RouteInvariance == Spec => []RouteInv
<1>1. PageInit => RouteInv
  BY RouteStarts DEF PageInit
<1>2. RouteInv /\ [Next]_vars => RouteInv'
  <2> SUFFICES ASSUME RouteInv, [Next]_vars PROVE RouteInv'
    OBVIOUS
  <2>1. CASE UserSelectsView
    BY <2>1, SelectRoute, Registry DEF UserSelectsView
  <2>2. CASE BrowserGoes
    BY <2>2, PopRoute DEF BrowserGoes
  <2>3. CASE UNCHANGED routeVars
    BY <2>3 DEF routeVars, RouteInv, HistoryIsTrail
  <2> QED
    BY <2>1, <2>2, <2>3
       DEF Next, Render, Message, Snapshot, AddedOrModified, Deleted, Receives, UserClicks,
           RowClick, HeaderClick, TabClick, ToggleMaximized, CloseClick, SetFilters, Click, vars
<1> QED
  BY <1>1, <1>2, PTL DEF Spec

\* The address bar names the view on the page, and the browser's history is the trail of
\* the user's views, but after a change of the view right behind a popstate that did not
\* change it (useViewRoute.ts:12-33).
THEOREM HistoryIsTheTrail == Spec => []HistoryIsTrail
<1>1. RouteInv => HistoryIsTrail
  BY DEF RouteInv
<1> QED
  BY <1>1, RouteInvariance, PTL

-----------------------------------------------------------------------------
(* The body.                                                               *)

IsBody(b) ==
  b = [items |-> b.items, selected |-> b.selected, tab |-> b.tab,
       maximized |-> b.maximized, filters |-> b.filters, sort |-> b.sort]

HasFilters(b) == DOMAIN b.filters = DOMAIN EmptyFilters

\* What is queued deselects at most what is drawn as selected.
BodyInv ==
  /\ IsBody(now) /\ HasFilters(now) /\ HasFilters(drawn)
  /\ now.selected \in {drawn.selected, NoKey}
  /\ now.tab \in TabsOffered(view.resource)
  /\ NothingLeaks

\* What each operation makes of a body.
LEMMA BodyOperations ==
  ASSUME NEW b, IsBody(b)
  PROVE  /\ IsBody(ResetDetails(b)) /\ ResetDetails(b).items = b.items
         /\ ResetDetails(b).selected = b.selected /\ ResetDetails(b).tab = "yaml"
         /\ ~ResetDetails(b).maximized
         /\ ResetDetails(b).filters = b.filters /\ ResetDetails(b).sort = b.sort
         /\ IsBody(CloseDetails(b)) /\ CloseDetails(b).items = b.items
         /\ CloseDetails(b).selected = NoKey /\ CloseDetails(b).tab = "yaml"
         /\ CloseDetails(b).filters = b.filters /\ CloseDetails(b).sort = b.sort
         /\ IsBody(ResetBody(b)) /\ ResetBody(b).items = NoItems
         /\ ResetBody(b).selected = NoKey /\ ResetBody(b).tab = "yaml"
         /\ ResetBody(b).filters = EmptyFilters /\ ResetBody(b).sort = NoSort
<1> DEFINE r == ResetDetails(b)
           c == CloseDetails(b)
<1>0. r = [b EXCEPT !.tab = "yaml", !.maximized = FALSE]
  BY DEF ResetDetails
<1> HIDE DEF r
<1>1. /\ IsBody(r) /\ r.items = b.items /\ r.selected = b.selected /\ r.tab = "yaml"
      /\ ~r.maximized /\ r.filters = b.filters /\ r.sort = b.sort
  <2>1. r = [items |-> b.items, selected |-> b.selected, tab |-> "yaml",
             maximized |-> FALSE, filters |-> b.filters, sort |-> b.sort]
    BY <1>0 DEF IsBody
  <2> QED
    BY <2>1 DEF IsBody
<1>2. c = [r EXCEPT !.selected = NoKey]
  BY DEF CloseDetails, r
<1>3. ResetBody(b) = [c EXCEPT !.items = NoItems, !.filters = EmptyFilters, !.sort = NoSort]
  BY DEF ResetBody
<1> HIDE DEF c
<1>4. /\ IsBody(c) /\ c.items = b.items /\ c.selected = NoKey /\ c.tab = "yaml"
      /\ c.filters = b.filters /\ c.sort = b.sort
  BY <1>1, <1>2 DEF IsBody
<1>5. /\ IsBody(ResetBody(b)) /\ ResetBody(b).items = NoItems
      /\ ResetBody(b).selected = NoKey /\ ResetBody(b).tab = "yaml"
      /\ ResetBody(b).filters = EmptyFilters /\ ResetBody(b).sort = NoSort
  BY <1>3, <1>4 DEF IsBody
<1> QED
  BY <1>1, <1>4, <1>5 DEF r, c

\* A message changes the items, and may close the details.
LEMMA MessageChanges ==
  ASSUME IsBody(now), Message
  PROVE  /\ view \in DOMAIN Object /\ UNCHANGED <<routeVars, drawn>>
         /\ IsBody(now') /\ now'.filters = now.filters /\ now'.sort = now.sort
         /\ \/ now'.selected = now.selected /\ now'.tab = now.tab
            \/ now'.selected = NoKey /\ now'.tab = "yaml"
         /\ now.selected \in DOMAIN now.items =>
               now'.selected \in DOMAIN now'.items \cup {NoKey}
         /\ \A k \in DOMAIN now'.items :
               \/ now'.items[k] \in Object[view]
               \/ k \in DOMAIN now.items /\ now'.items[k] = now.items[k]
<1> DEFINE Closed(gone) == Deselect(now, gone)
<1>1. ASSUME NEW gone
      PROVE  /\ IsBody(Closed(gone)) /\ Closed(gone).items = now.items
             /\ Closed(gone).filters = now.filters /\ Closed(gone).sort = now.sort
             /\ \/ now.selected \in gone /\ Closed(gone).selected = NoKey
                   /\ Closed(gone).tab = "yaml"
                \/ now.selected \notin gone /\ Closed(gone).selected = now.selected
                   /\ Closed(gone).tab = now.tab
  BY BodyOperations DEF Deselect
<1>2. ASSUME NEW objects \in SUBSET Object[view], Snapshot(objects),
             view \in DOMAIN Object
      PROVE  /\ UNCHANGED <<routeVars, drawn>>
             /\ IsBody(now') /\ now'.filters = now.filters /\ now'.sort = now.sort
             /\ \/ now'.selected = now.selected /\ now'.tab = now.tab
                \/ now'.selected = NoKey /\ now'.tab = "yaml"
             /\ now.selected \in DOMAIN now.items =>
                   now'.selected \in DOMAIN now'.items \cup {NoKey}
             /\ \A k \in DOMAIN now'.items : now'.items[k] \in Object[view]
  <2> DEFINE next == Keyed(objects)
             b == Closed(SnapshotGone(next))
  <2>1. now' = [b EXCEPT !.items = next] /\ UNCHANGED <<routeVars, drawn>>
    BY <1>2 DEF Snapshot, Receives
  <2>2. \A k \in DOMAIN next : next[k] \in Object[view]
    BY DEF Keyed
  <2>3. now.selected \in DOMAIN now.items /\ now.selected \notin SnapshotGone(next)
          => now.selected \in DOMAIN next
    BY DEF SnapshotGone
  <2> HIDE DEF next
  <2>4. /\ IsBody(b) /\ b.items = now.items /\ b.filters = now.filters /\ b.sort = now.sort
        /\ \/ now.selected \in SnapshotGone(next) /\ b.selected = NoKey /\ b.tab = "yaml"
           \/ now.selected \notin SnapshotGone(next) /\ b.selected = now.selected
              /\ b.tab = now.tab
    BY <1>1
  <2> HIDE DEF b
  <2>5. /\ IsBody(now') /\ now'.items = next /\ now'.selected = b.selected
        /\ now'.tab = b.tab /\ now'.filters = b.filters /\ now'.sort = b.sort
    BY <2>1, <2>4 DEF IsBody
  <2> QED
    BY <2>1, <2>2, <2>3, <2>4, <2>5
<1>3. ASSUME NEW o \in Object[view], AddedOrModified(o)
      PROVE  /\ UNCHANGED <<routeVars, drawn>>
             /\ IsBody(now') /\ now'.filters = now.filters /\ now'.sort = now.sort
             /\ now'.selected = now.selected /\ now'.tab = now.tab
             /\ DOMAIN now.items \subseteq DOMAIN now'.items
             /\ \A k \in DOMAIN now'.items :
                   \/ now'.items[k] \in Object[view]
                   \/ k \in DOMAIN now.items /\ now'.items[k] = now.items[k]
  <2> DEFINE next == [k \in DOMAIN now.items \cup {o.key} |->
                        IF k = o.key THEN o ELSE now.items[k]]
  <2>1. now' = [now EXCEPT !.items = next] /\ UNCHANGED <<routeVars, drawn>>
    BY <1>3 DEF AddedOrModified, Receives
  <2>2. /\ DOMAIN next = {o.key} \cup DOMAIN now.items
        /\ \A k \in DOMAIN next : next[k] = IF k = o.key THEN o ELSE now.items[k]
    OBVIOUS
  <2> HIDE DEF next
  <2>3. /\ IsBody(now') /\ now'.items = next /\ now'.selected = now.selected
        /\ now'.tab = now.tab /\ now'.filters = now.filters /\ now'.sort = now.sort
    BY <2>1 DEF IsBody
  <2> QED
    BY <2>1, <2>2, <2>3
<1>4. ASSUME NEW o \in Object[view], Deleted(o)
      PROVE  /\ UNCHANGED <<routeVars, drawn>>
             /\ IsBody(now') /\ now'.filters = now.filters /\ now'.sort = now.sort
             /\ \/ now'.selected = now.selected /\ now'.tab = now.tab
                \/ now'.selected = NoKey /\ now'.tab = "yaml"
             /\ now.selected \in DOMAIN now.items =>
                   now'.selected \in DOMAIN now'.items \cup {NoKey}
             /\ \A k \in DOMAIN now'.items :
                   k \in DOMAIN now.items /\ now'.items[k] = now.items[k]
  <2> DEFINE next == [k \in DOMAIN now.items \ {o.key} |-> now.items[k]]
             b == Closed({o.key})
  <2>1. now' = [b EXCEPT !.items = next] /\ UNCHANGED <<routeVars, drawn>>
    BY <1>4 DEF Deleted, Receives
  <2>2. /\ DOMAIN next = DOMAIN now.items \ {o.key}
        /\ \A k \in DOMAIN next : next[k] = now.items[k]
    OBVIOUS
  <2>3. /\ IsBody(b) /\ b.items = now.items /\ b.filters = now.filters /\ b.sort = now.sort
        /\ \/ now.selected = o.key /\ b.selected = NoKey /\ b.tab = "yaml"
           \/ now.selected # o.key /\ b.selected = now.selected /\ b.tab = now.tab
    BY <1>1
  <2> HIDE DEF next, b
  <2>4. /\ IsBody(now') /\ now'.items = next /\ now'.selected = b.selected
        /\ now'.tab = b.tab /\ now'.filters = b.filters /\ now'.sort = b.sort
    BY <2>1, <2>3 DEF IsBody
  <2> QED
    BY <2>1, <2>2, <2>3, <2>4
<1>5. view \in DOMAIN Object
  BY DEF Message
<1> QED
  BY <1>2, <1>3, <1>4, <1>5 DEF Message

\* A click changes one thing.
LEMMA ClickChanges ==
  ASSUME IsBody(now), UserClicks
  PROVE  /\ drawn' = now' /\ UNCHANGED routeVars
         /\ IsBody(now') /\ now'.items = now.items
         /\ \/ \E k \in Rows(drawn) : now'.selected \in {k, NoKey}
                 /\ now'.tab = "yaml" /\ ~now'.maximized
            \/ now'.selected \in {now.selected, NoKey}
         /\ now'.tab \in {now.tab} \cup TabsOffered(view.resource)
         /\ \/ now'.sort = now.sort
            \/ now'.sort = NoSort \/ now'.sort.column \in ColumnsOf[view.resource]
         /\ now'.filters = now.filters \/ \E f : SetFilters(f)
<1>1. CASE \E k : RowClick(k)
  <2>1. PICK k : RowClick(k)
    BY <1>1
  <2> DEFINE r == ResetDetails(now)
             chosen == IF r.selected = k THEN NoKey ELSE k
  <2>2. /\ k \in Rows(drawn) /\ now' = [r EXCEPT !.selected = chosen]
        /\ drawn' = now' /\ UNCHANGED routeVars
    BY <2>1 DEF RowClick, Click
  <2>3. /\ IsBody(r) /\ r.items = now.items /\ r.tab = "yaml" /\ ~r.maximized
        /\ r.filters = now.filters /\ r.sort = now.sort
    BY BodyOperations
  <2>4. chosen \in {k, NoKey}
    OBVIOUS
  <2> HIDE DEF r, chosen
  <2>5. /\ IsBody(now') /\ now'.items = now.items /\ now'.selected = chosen
        /\ now'.tab = "yaml" /\ ~now'.maximized
        /\ now'.filters = now.filters /\ now'.sort = now.sort
    BY <2>2, <2>3 DEF IsBody
  <2> QED
    BY <2>2, <2>4, <2>5 DEF TabsOffered
<1>2. CASE \E column : HeaderClick(column)
  <2>1. PICK column : HeaderClick(column)
    BY <1>2
  <2> DEFINE next == NextSort(now.sort, column)
  <2>2. /\ column \in ColumnsOf[view.resource] /\ now' = [now EXCEPT !.sort = next]
        /\ drawn' = now' /\ UNCHANGED routeVars
    BY <2>1 DEF HeaderClick, Click
  <2>3. next = NoSort \/ next.column = column
    BY DEF NextSort
  <2> HIDE DEF next
  <2>4. /\ IsBody(now') /\ now'.items = now.items /\ now'.selected = now.selected
        /\ now'.tab = now.tab /\ now'.filters = now.filters /\ now'.sort = next
    BY <2>2 DEF IsBody
  <2> QED
    BY <2>2, <2>3, <2>4
<1>3. CASE \E tab : TabClick(tab)
  <2>1. PICK tab : TabClick(tab)
    BY <1>3
  <2>2. /\ tab \in TabsOffered(view.resource) /\ now' = [now EXCEPT !.tab = tab]
        /\ drawn' = now' /\ UNCHANGED routeVars
    BY <2>1 DEF TabClick, Click
  <2>3. /\ IsBody(now') /\ now'.items = now.items /\ now'.selected = now.selected
        /\ now'.tab = tab /\ now'.filters = now.filters /\ now'.sort = now.sort
    BY <2>2 DEF IsBody
  <2> QED
    BY <2>2, <2>3
<1>4. CASE ToggleMaximized
  <2>1. /\ now' = [now EXCEPT !.maximized = ~@] /\ drawn' = now' /\ UNCHANGED routeVars
    BY <1>4 DEF ToggleMaximized, Click
  <2>2. /\ IsBody(now') /\ now'.items = now.items /\ now'.selected = now.selected
        /\ now'.tab = now.tab /\ now'.filters = now.filters /\ now'.sort = now.sort
    BY <2>1 DEF IsBody
  <2> QED
    BY <2>1, <2>2
<1>5. CASE CloseClick
  BY <1>5, BodyOperations DEF CloseClick, Click, TabsOffered
<1>6. CASE \E f : SetFilters(f)
  <2>1. PICK f : SetFilters(f)
    BY <1>6
  <2> DEFINE next == IF f = EmptyFilters THEN f
                     ELSE [c \in DOMAIN now.filters |->
                             IF f[c] # drawn.filters[c] THEN f[c] ELSE now.filters[c]]
  <2>2. /\ now' = [now EXCEPT !.filters = next] /\ drawn' = now' /\ UNCHANGED routeVars
    BY <2>1 DEF SetFilters, Click
  <2> HIDE DEF next
  <2>3. /\ IsBody(now') /\ now'.items = now.items /\ now'.selected = now.selected
        /\ now'.tab = now.tab /\ now'.sort = now.sort
    BY <2>2 DEF IsBody
  <2> QED
    BY <1>6, <2>2, <2>3
<1> QED
  BY <1>1, <1>2, <1>3, <1>4, <1>5, <1>6 DEF UserClicks

\* Filters without a control stay empty.
LEMMA FiltersChange ==
  ASSUME IsBody(now), HasFilters(now), HasFilters(drawn), NEW f, SetFilters(f),
         \A c \in DOMAIN EmptyFilters \ ControlsOf(view.resource) :
           now.filters[c] = EmptyFilters[c]
  PROVE  /\ HasFilters(now')
         /\ \A c \in DOMAIN EmptyFilters \ ControlsOf(view.resource) :
              now'.filters[c] = EmptyFilters[c]
<1> DEFINE next == IF f = EmptyFilters THEN f
                   ELSE [c \in DOMAIN now.filters |->
                           IF f[c] # drawn.filters[c] THEN f[c] ELSE now.filters[c]]
           empty == EmptyFilters
           hidden == DOMAIN empty \ ControlsOf(view.resource)
<1>1. now' = [now EXCEPT !.filters = next]
  BY DEF SetFilters, Click
<1>2. /\ DOMAIN now.filters = DOMAIN empty /\ DOMAIN drawn.filters = DOMAIN empty
      /\ \A c \in hidden : now.filters[c] = empty[c]
  BY DEF HasFilters
<1>3. f = empty \/ \E c \in ControlsOf(view.resource) : f = [drawn.filters EXCEPT ![c] = f[c]]
  BY DEF SetFilters
<1> HIDE DEF empty
<1>4. f # empty => \A c \in hidden : f[c] = drawn.filters[c]
  BY <1>2, <1>3
<1>5. next = IF f = empty THEN f
             ELSE [c \in DOMAIN now.filters |->
                     IF f[c] # drawn.filters[c] THEN f[c] ELSE now.filters[c]]
  BY DEF empty
<1> HIDE DEF next
<1>6. DOMAIN next = DOMAIN empty /\ \A c \in hidden : next[c] = empty[c]
  BY <1>2, <1>4, <1>5
<1>7. now'.filters = next
  BY <1>1 DEF IsBody
<1> QED
  BY <1>6, <1>7 DEF HasFilters, empty

\* A change of the view leaves nothing behind.
LEMMA ViewChanges ==
  ASSUME IsBody(now), BodyFollowsView, view' # view
  PROVE  /\ IsBody(now') /\ now'.items = NoItems /\ now'.selected = NoKey
         /\ now'.tab = "yaml" /\ now'.filters = EmptyFilters /\ now'.sort = NoSort
<1> DEFINE b == ResetBody(now)
           empty == EmptyFilters
<1>1. /\ IsBody(b) /\ b.items = NoItems /\ b.selected = NoKey /\ b.tab = "yaml"
      /\ b.filters = empty /\ b.sort = NoSort
  BY BodyOperations
<1>2. now' = ClearHiddenStatus(b)
  BY DEF BodyFollowsView
<1>3. [empty EXCEPT !.status = ""] = empty
  <2>1. empty.status = "" /\ "status" \in DOMAIN empty
        /\ empty = [c \in DOMAIN empty |-> empty[c]]
    BY DEF EmptyFilters
  <2> HIDE DEF empty
  <2> QED
    BY <2>1
<1> HIDE DEF b, empty
<1>6. now' = b \/ now' = [b EXCEPT !.filters.status = ""]
  BY <1>2 DEF ClearHiddenStatus
<1>4. [b EXCEPT !.filters.status = ""] = [b EXCEPT !.filters = [empty EXCEPT !.status = ""]]
  BY <1>1
<1>5. [b EXCEPT !.filters = empty] = b
  BY <1>1 DEF IsBody
<1> QED
  BY <1>1, <1>3, <1>4, <1>5, <1>6 DEF empty

\* What a step does to the route and the bodies.
LEMMA Steps ==
  ASSUME BodyInv, [Next]_vars
  PROVE  \/ Message
         \/ UserClicks
         \/ drawn' = now /\ BodyFollowsView
         \/ drawn' = now /\ UNCHANGED <<routeVars, now>>
         \/ UNCHANGED vars
BY DEF Next, UserSelectsView, BrowserGoes, Render, BodyFollowsView

LEMMA BodyStarts == PageInit => BodyInv
<1> SUFFICES ASSUME PageInit PROVE BodyInv
  OBVIOUS
<1> DEFINE empty == EmptyFilters
<1>1. now = EmptyBody /\ drawn = EmptyBody
  BY DEF PageInit
<1>2. /\ IsBody(EmptyBody) /\ EmptyBody.items = NoItems /\ EmptyBody.selected = NoKey
      /\ EmptyBody.tab = "yaml" /\ EmptyBody.filters = empty /\ EmptyBody.sort = NoSort
  <2> HIDE DEF empty
  <2>1. EmptyBody = [items |-> NoItems, selected |-> NoKey, tab |-> "yaml",
                     maximized |-> FALSE, filters |-> empty, sort |-> NoSort]
    BY DEF EmptyBody, empty
  <2> QED
    BY <2>1 DEF IsBody
<1>3. NothingLeaks
  BY <1>1, <1>2 DEF NothingLeaks, NoItems, HasDetails
<1> QED
  BY <1>1, <1>2, <1>3 DEF BodyInv, HasFilters, TabsOffered

LEMMA BodyKept == ASSUME BodyInv, [Next]_vars PROVE BodyInv'
<1> DEFINE Hidden(r) == DOMAIN EmptyFilters \ ControlsOf(r)
           Inside == \A k \in DOMAIN now.items :
                       view \in DOMAIN Object /\ now.items[k] \in Object[view]
           Sorted == now.sort = NoSort \/ now.sort.column \in ColumnsOf[view.resource]
           Seen == \A c \in Hidden(view.resource) : now.filters[c] = EmptyFilters[c]
           Tab == now.tab \in TabsOffered(view.resource)
<1>1. /\ IsBody(now) /\ HasFilters(now) /\ HasFilters(drawn)
      /\ now.selected \in {drawn.selected, NoKey}
  BY DEF BodyInv
<1>2. Inside /\ Sorted /\ Seen /\ Tab
  BY DEF BodyInv, NothingLeaks
<1>3. ASSUME Inside', Sorted', Seen', Tab', IsBody(now'), HasFilters(now'),
             HasFilters(drawn'), now'.selected \in {drawn'.selected, NoKey}
      PROVE  BodyInv'
  BY <1>3 DEF BodyInv, NothingLeaks, IsBody, HasFilters
<1>4. CASE Message
  <2>1. /\ view' = view /\ drawn' = drawn /\ IsBody(now')
        /\ now'.filters = now.filters /\ now'.sort = now.sort
        /\ now'.selected \in {now.selected, NoKey}
        /\ now'.tab \in {now.tab, "yaml"}
    BY <1>1, <1>4, MessageChanges DEF routeVars
  <2>2. Inside'
    BY <1>1, <1>2, <1>4, <2>1, MessageChanges
  <2>3. Sorted'
    BY <1>2, <2>1
  <2>4. Seen'
    BY <1>2, <2>1
  <2>5. Tab'
    BY <1>2, <2>1 DEF TabsOffered
  <2>6. HasFilters(now') /\ HasFilters(drawn')
    BY <1>1, <2>1 DEF HasFilters
  <2> QED
    BY <1>1, <1>3, <2>1, <2>2, <2>3, <2>4, <2>5, <2>6
<1>5. CASE UserClicks
  <2>1. /\ view' = view /\ drawn' = now' /\ IsBody(now') /\ now'.items = now.items
        /\ now'.tab \in {now.tab} \cup TabsOffered(view.resource)
        /\ \/ now'.sort = now.sort
           \/ now'.sort = NoSort \/ now'.sort.column \in ColumnsOf[view.resource]
        /\ now'.filters = now.filters \/ \E f : SetFilters(f)
    BY <1>1, <1>5, ClickChanges DEF routeVars
  <2>2. Inside'
    BY <1>2, <2>1
  <2>3. Sorted'
    BY <1>2, <2>1
  <2>4. Seen' /\ HasFilters(now')
    <3>1. CASE now'.filters = now.filters
      BY <1>1, <1>2, <2>1, <3>1 DEF HasFilters
    <3>2. CASE \E f : SetFilters(f)
      BY <1>1, <1>2, <2>1, <3>2, FiltersChange
    <3> QED
      BY <2>1, <3>1, <3>2
  <2>5. Tab'
    BY <1>2, <2>1
  <2> QED
    BY <1>3, <2>1, <2>2, <2>3, <2>4, <2>5
<1>6. CASE drawn' = now /\ BodyFollowsView /\ view' # view
  <2>1. /\ IsBody(now') /\ now'.items = NoItems /\ now'.selected = NoKey
        /\ now'.tab = "yaml" /\ now'.filters = EmptyFilters /\ now'.sort = NoSort
    BY <1>1, <1>6, ViewChanges
  <2>2. Inside' /\ Sorted' /\ Seen'
    BY <2>1 DEF NoItems
  <2>3. Tab'
    BY <2>1 DEF TabsOffered
  <2>4. HasFilters(now') /\ HasFilters(drawn')
    BY <1>1, <1>6, <2>1 DEF HasFilters
  <2> QED
    BY <1>3, <2>1, <2>2, <2>3, <2>4
<1>7. CASE drawn' = now /\ view' = view /\ now' = now
  <2>1. Inside' /\ Sorted' /\ Seen' /\ Tab'
    BY <1>2, <1>7
  <2> QED
    BY <1>1, <1>3, <1>7, <2>1
<1>8. CASE UNCHANGED vars
  <2>1. view' = view /\ now' = now /\ drawn' = drawn
    BY <1>8 DEF vars, routeVars, pageVars
  <2>2. Inside' /\ Sorted' /\ Seen' /\ Tab'
    BY <1>2, <2>1
  <2> QED
    BY <1>1, <1>3, <2>1, <2>2
<1>9. BodyFollowsView /\ view' = view => now' = now
  BY DEF BodyFollowsView
<1>10. UNCHANGED <<routeVars, now>> => view' = view /\ now' = now
  BY DEF routeVars
<1> QED
  BY <1>4, <1>5, <1>6, <1>7, <1>8, <1>9, <1>10, Steps

LEMMA BodyInvariance == Spec => []BodyInv
<1> QED
  BY BodyStarts, BodyKept, PTL DEF Spec

\* Nothing of one view is at work in another: its objects, its sort order, a filter
\* without a control, a tab that is not offered (KubeWatchBody.tsx:89-101).
THEOREM NoViewLeaks == Spec => []NothingLeaks
<1>1. BodyInv => NothingLeaks
  BY DEF BodyInv
<1> QED
  BY <1>1, BodyInvariance, PTL

\* Only a click on a row that is gone, but still drawn, selects what is not there
\* (useDetailsState.ts:14-36, useResourceStream.ts:74-117).
THEOREM SelectionIsThere == Spec => NoGhostSelection
<1>1. ASSUME BodyInv, [Next]_vars, Dangling(now'), ~Dangling(now)
      PROVE  \E k \in Rows(drawn) : k \notin DOMAIN now.items /\ now'.selected = k
  <2>1. IsBody(now) /\ (now.selected = NoKey \/ now.selected \in DOMAIN now.items)
    BY <1>1 DEF BodyInv, Dangling, HasDetails
  <2>2. now'.selected # NoKey /\ now'.selected \notin DOMAIN now'.items
    BY <1>1 DEF Dangling, HasDetails
  <2>3. CASE Message
    BY <2>1, <2>2, <2>3, MessageChanges
  <2>4. CASE UserClicks
    BY <2>1, <2>2, <2>4, ClickChanges
  <2>5. CASE BodyFollowsView /\ view' # view
    BY <2>1, <2>2, <2>5, ViewChanges
  <2>6. now' # now
    BY <2>1, <2>2
  <2> QED
    BY <1>1, <2>3, <2>4, <2>5, <2>6, Steps DEF BodyFollowsView, vars, pageVars
<1>2. BodyInv /\ [Next]_vars
        => [ Dangling(now') /\ ~Dangling(now)
               => \E k \in Rows(drawn) : k \notin DOMAIN now.items /\ now'.selected = k ]_vars
  BY <1>1
<1> QED
  BY <1>2, BodyInvariance, PTL DEF Spec, NoGhostSelection

\* Details of another object open at its YAML and at the usual size
\* (useDetailsState.ts:9-25).
THEOREM DetailsOpenFresh == Spec => FreshDetails
<1>1. ASSUME BodyInv, [Next]_vars, drawn'.selected \notin {NoKey, drawn.selected}
      PROVE  drawn'.tab = "yaml" /\ ~drawn'.maximized
  <2>1. IsBody(now) /\ now.selected \in {drawn.selected, NoKey}
    BY <1>1 DEF BodyInv
  <2>2. drawn' # drawn /\ drawn' # now
    BY <1>1, <2>1
  <2>3. CASE Message
    BY <2>1, <2>2, <2>3, MessageChanges
  <2>4. CASE UserClicks
    BY <1>1, <2>1, <2>4, ClickChanges
  <2> QED
    BY <1>1, <2>2, <2>3, <2>4, Steps DEF vars, pageVars
<1>2. BodyInv /\ [Next]_vars
        => [ drawn'.selected \notin {NoKey, drawn.selected}
               => drawn'.tab = "yaml" /\ ~drawn'.maximized ]_vars
  BY <1>1
<1> QED
  BY <1>2, BodyInvariance, PTL DEF Spec, FreshDetails

-----------------------------------------------------------------------------
(* What the label filter suggests. This is about the table's functions     *)
(* alone, for labels of any length.                                        *)

Marks == {"comma", "equals", "colon", "blank"}

\* The first and the last word of a text bound what Trim leaves.
LEMMA TrimBounds ==
  ASSUME NEW Char, NEW text \in Seq(Char),
         NEW first \in 1..Len(text), NEW last \in first..Len(text),
         text[first] # "blank", text[last] # "blank",
         \A i \in 1..Len(text) : i < first \/ last < i => text[i] = "blank"
  PROVE  Trim(text) = SubSeq(text, first, last)
<1> DEFINE Words == {i \in DOMAIN text : text[i] # "blank"}
           a == CHOOSE i \in Words : \A j \in Words : i <= j
           b == CHOOSE i \in Words : \A j \in Words : j <= i
<1>1. /\ first \in Words /\ last \in Words /\ Words \subseteq Nat
      /\ \A j \in Words : first <= j /\ j <= last
  OBVIOUS
<1>2. Trim(text) = IF Words = {} THEN <<>> ELSE SubSeq(text, a, b)
  BY DEF Trim
<1> HIDE DEF Words
<1>3. a \in Words /\ \A j \in Words : a <= j
  BY <1>1
<1>4. b \in Words /\ \A j \in Words : j <= b
  BY <1>1
<1>5. a = first /\ b = last
  <2>1. /\ a <= first /\ first <= a /\ a \in Nat /\ first \in Nat
        /\ b <= last /\ last <= b /\ b \in Nat /\ last \in Nat
    BY <1>1, <1>3, <1>4
  <2> QED
    BY <2>1
<1> QED
  BY <1>1, <1>2, <1>5

\* A text that neither begins nor ends with a blank is as it was.
LEMMA TrimSame ==
  ASSUME NEW Char, NEW text \in Seq(Char),
         text # <<>> => text[1] # "blank" /\ text[Len(text)] # "blank"
  PROVE  Trim(text) = text
<1>1. CASE text = <<>>
  <2>1. {i \in DOMAIN text : text[i] # "blank"} = {}
    BY <1>1
  <2> QED
    BY <1>1, <2>1 DEF Trim
<1>2. CASE text # <<>>
  <2>1. Len(text) \in Nat \ {0}
    BY <1>2
  <2>2. 1 \in 1..Len(text) /\ Len(text) \in 1..Len(text)
    BY <2>1
  <2>3. Trim(text) = SubSeq(text, 1, Len(text))
    BY <1>2, <2>1, <2>2, TrimBounds
  <2> QED
    BY <2>3, SubSeqFull
<1> QED
  BY <1>1, <1>2

\* A text without a comma is one piece.
LEMMA OnePiece ==
  ASSUME NEW Char, NEW text \in Seq(Char), \A i \in 1..Len(text) : text[i] # "comma"
  PROVE  Pieces(text) = {text}
<1> DEFINE Bounds == (1..Len(text) + 1) \X (0..Len(text))
           IsPiece(b) == /\ b[1] <= b[2] + 1 /\ \A i \in b[1]..b[2] : text[i] # "comma"
                         /\ b[1] = 1 \/ text[b[1] - 1] = "comma"
                         /\ b[2] = Len(text) \/ text[b[2] + 1] = "comma"
           Kept == {c \in Bounds : IsPiece(c)}
           whole == <<1, Len(text)>>
<1>1. Pieces(text) = {SubSeq(text, b[1], b[2]) : b \in Kept}
  BY DEF Pieces
<1>2. Len(text) \in Nat
  OBVIOUS
<1>3. whole \in Kept /\ whole[1] = 1 /\ whole[2] = Len(text)
  BY <1>2
<1>4. ASSUME NEW b \in Kept PROVE b[1] = 1 /\ b[2] = Len(text)
  <2>1. b[1] \in 1..Len(text) + 1 /\ b[2] \in 0..Len(text) /\ IsPiece(b)
    OBVIOUS
  <2>2. b[1] = 1
    <3>1. b[1] # 1 => b[1] - 1 \in 1..Len(text)
      BY <1>2, <2>1
    <3> QED
      BY <2>1, <3>1
  <2>3. b[2] = Len(text)
    <3>1. b[2] # Len(text) => b[2] + 1 \in 1..Len(text)
      BY <1>2, <2>1
    <3> QED
      BY <2>1, <3>1
  <2> QED
    BY <2>2, <2>3
<1>5. SubSeq(text, 1, Len(text)) = text
  BY SubSeqFull
<1> HIDE DEF Kept, whole
<1> QED
  BY <1>1, <1>3, <1>4, <1>5

\* The first place of a mark is where a term is split.
LEMMA SplitsAt ==
  ASSUME NEW Char, NEW term \in Seq(Char), NEW k \in 0..Len(term) - 1, NEW mark,
         term[k + 1] = mark, \A i \in 1..k : term[i] # mark
  PROVE  Split(term, mark) = [key |-> Trim(SubSeq(term, 1, k)),
                              value |-> Trim(SubSeq(term, k + 2, Len(term)))]
<1> DEFINE First(i) == term[i] = mark /\ \A j \in 1..i - 1 : term[j] # mark
           place == CHOOSE i \in DOMAIN term : First(i)
<1>1. k + 1 \in DOMAIN term /\ First(k + 1)
  OBVIOUS
<1>2. ASSUME NEW i \in DOMAIN term, First(i) PROVE i = k + 1
  <2>1. ~(i < k + 1)
    BY <1>2
  <2>2. i > k + 1 => k + 1 \in 1..i - 1
    OBVIOUS
  <2> QED
    BY <1>2, <2>1, <2>2
<1>3. place \in DOMAIN term /\ First(place)
  BY <1>1
<1>4. place = k + 1
  BY <1>2, <1>3
<1>5. Split(term, mark) = [key |-> Trim(SubSeq(term, 1, place - 1)),
                           value |-> Trim(SubSeq(term, place + 1, Len(term)))]
  BY DEF Split
<1> HIDE DEF place
<1>6. place - 1 = k /\ place + 1 = k + 2
  BY <1>4
<1> QED
  BY <1>5, <1>6

\* A part of a text.
LEMMA PartIs ==
  ASSUME NEW Char, NEW text \in Seq(Char), NEW part \in Seq(Char), NEW k \in Nat,
         k + Len(part) <= Len(text), \A i \in 1..Len(part) : text[k + i] = part[i]
  PROVE  SubSeq(text, k + 1, k + Len(part)) = part
<1> DEFINE t == SubSeq(text, k + 1, k + Len(part))
<1>1. /\ t \in Seq(Char) /\ Len(t) = Len(part)
      /\ \A i \in 1..Len(part) : t[i] = text[k + i]
  BY SubSeqProperties
<1> HIDE DEF t
<1>2. t = part
  BY <1>1, SeqEqual
<1> QED
  BY <1>2 DEF t

\* A text with one term asks for the term's key, and for its value if it names one.
LEMMA OneTerm ==
  ASSUME NEW Char, NEW text \in Seq(Char), \A i \in 1..Len(text) : text[i] # "comma",
         NEW key, NEW value, key # <<>>, Trim(text) # <<>>,
         ParseLabelFilterTerm(Trim(text)) = [key |-> key, value |-> value], NEW p
  PROVE  LabelsMatch(p, text) <=>
           key \in DOMAIN p.labels /\ (value = <<>> \/ p.labels[key] = value)
<1>1. TermsOf(text) = {Trim(text)}
  <2>1. Pieces(text) = {text}
    BY OnePiece
  <2> QED
    BY <2>1 DEF TermsOf
<1> QED
  BY <1>1 DEF LabelsMatch

\* A suggestion, in each of its three forms, selects the objects that have the label it
\* was taken from, and with the value it names, if it names one: for keys and values of
\* any length that hold no mark, the text that is built is parsed back to them
\* (resourceFilters.ts:12-23, 74-92).
THEOREM SuggestionsAreFound ==
  ASSUME NEW Word, Word \cap Marks = {},
         NEW o, NEW p, NEW key \in DOMAIN o.labels,
         key \in Seq(Word) \ {<<>>}, o.labels[key] \in Seq(Word),
         NEW text \in Suggested(key, o.labels[key])
  PROVE  LabelsMatch(p, text) <=>
           /\ key \in DOMAIN p.labels
           /\ text = key \/ o.labels[key] = <<>> \/ p.labels[key] = o.labels[key]
<1> DEFINE value == o.labels[key]
           Char == Word \cup Marks
           n == Len(key)
           m == Len(value)
<1>1. /\ key \in Seq(Word) /\ value \in Seq(Word) /\ key \in Seq(Char) /\ value \in Seq(Char)
      /\ n \in Nat \ {0} /\ m \in Nat
  OBVIOUS
<1>2. /\ \A i \in 1..n : key[i] \notin {"comma", "equals", "colon", "blank"}
      /\ \A i \in 1..m : value[i] \notin {"comma", "equals", "colon", "blank"}
  <2>1. (\A i \in 1..n : key[i] \in Word) /\ (\A i \in 1..m : value[i] \in Word)
    BY <1>1
  <2> QED
    BY <2>1 DEF Marks
<1>3. "comma" \in Char /\ "equals" \in Char /\ "colon" \in Char /\ "blank" \in Char
  BY DEF Marks
<1>4. key # <<>> /\ value \in Seq(Char) /\ Len(key) = n /\ Len(value) = m
  BY <1>1
<1>5. Trim(key) = key /\ Trim(value) = value
  <2>1. 1 \in 1..n /\ n \in 1..n
    BY <1>1
  <2>2. value # <<>> => 1 \in 1..m /\ m \in 1..m
    BY <1>1
  <2> QED
    BY <1>1, <1>2, <2>1, <2>2, TrimSame
<1> HIDE DEF value, Char, n, m
<1>6. CASE text = key
  <2>1. /\ \A i \in 1..Len(text) : text[i] # "comma"
        /\ ~Marked(key, "equals") /\ ~Marked(key, "colon")
    BY <1>1, <1>2, <1>4, <1>6 DEF Marked
  <2>2. ParseLabelFilterTerm(Trim(text)) = [key |-> key, value |-> <<>>]
    BY <1>5, <1>6, <2>1 DEF ParseLabelFilterTerm
  <2> QED
    BY <1>1, <1>4, <1>5, <1>6, <2>1, <2>2, OneTerm
<1>7. CASE text = key \o <<"equals">> \o value
  <2>1. /\ text \in Seq(Char) /\ Len(text) = n + 1 + m
        /\ \A i \in 1..n : text[i] = key[i]
        /\ text[n + 1] = "equals"
        /\ \A i \in 1..m : text[n + 1 + i] = value[i]
    BY <1>1, <1>7 DEF n, m, Char, Marks
  <2>2. SubSeq(text, 1, n) = key /\ SubSeq(text, n + 2, Len(text)) = value
    <3>1. SubSeq(text, 0 + 1, 0 + n) = key
      BY <1>1, <1>4, <2>1, PartIs
    <3> DEFINE k == n + 1
    <3>3. k \in Nat /\ k + m = Len(text) /\ \A i \in 1..m : text[k + i] = value[i]
      BY <1>1, <2>1
    <3> HIDE DEF k
    <3>2. SubSeq(text, k + 1, k + m) = value
      BY <1>1, <1>4, <2>1, <3>3, PartIs
    <3> QED
      BY <1>1, <2>1, <3>1, <3>2, <3>3 DEF k
  <2>3. \A i \in 1..Len(text) :
          \/ i \in 1..n \/ i = n + 1
          \/ i - (n + 1) \in 1..m /\ n + 1 + (i - (n + 1)) = i
    BY <1>1, <2>1
  <2>4. ASSUME NEW i \in 1..Len(text) PROVE text[i] # "comma" /\ text[i] # "blank"
    <3>1. CASE i \in 1..n
      BY <1>2, <2>1, <3>1
    <3>2. CASE i = n + 1
      BY <2>1, <3>2
    <3>3. CASE i - (n + 1) \in 1..m /\ n + 1 + (i - (n + 1)) = i
      <4>1. text[i] = value[i - (n + 1)]
        BY <2>1, <3>3
      <4> QED
        BY <1>2, <3>3, <4>1
    <3> QED
      BY <2>3, <3>1, <3>2, <3>3
  <2>5. Trim(text) = text /\ text # <<>> /\ text # key
    <3>1. 1 \in 1..Len(text) /\ Len(text) \in 1..Len(text) /\ Len(text) # n
      BY <1>1, <2>1
    <3> QED
      BY <1>4, <2>1, <2>4, <3>1, TrimSame
  <2>6. n \in 0..Len(text) - 1 /\ n + 1 \in DOMAIN text /\ \A i \in 1..n : text[i] # "equals"
    BY <1>1, <1>2, <2>1
  <2>7. Split(text, "equals") = [key |-> Trim(key), value |-> Trim(value)]
    BY <2>1, <2>2, <2>6, SplitsAt
  <2>8. ParseLabelFilterTerm(Trim(text)) = [key |-> key, value |-> value]
    BY <1>5, <2>1, <2>5, <2>6, <2>7 DEF ParseLabelFilterTerm, Marked
  <2>9. LabelsMatch(p, text) <=>
          key \in DOMAIN p.labels /\ (value = <<>> \/ p.labels[key] = value)
    <3>1. /\ Trim(text) # <<>> /\ key # <<>> /\ text \in Seq(Char)
          /\ \A i \in 1..Len(text) : text[i] # "comma"
      BY <1>4, <2>1, <2>4, <2>5
    <3> QED
      BY <2>8, <3>1, OneTerm
  <2> QED
    BY <2>5, <2>9 DEF value
<1>8. CASE text = key \o <<"colon", "blank">> \o value
  <2>1. /\ text \in Seq(Char) /\ Len(text) = n + 2 + m
        /\ \A i \in 1..n : text[i] = key[i]
        /\ text[n + 1] = "colon" /\ text[n + 2] = "blank"
        /\ \A i \in 1..m : text[n + 2 + i] = value[i]
    BY <1>1, <1>8 DEF n, m, Char, Marks
  <2>2. \A i \in 1..Len(text) : \/ i \in {n + 1, n + 2} \/ i \in 1..n
                                \/ i - (n + 2) \in 1..m /\ n + 2 + (i - (n + 2)) = i
    BY <1>1, <2>1
  <2>3. ASSUME NEW i \in 1..Len(text) PROVE text[i] # "comma" /\ text[i] # "equals"
    <3>1. CASE i = n + 1 \/ i = n + 2
      BY <2>1, <3>1
    <3>2. CASE i \in 1..n
      BY <1>2, <2>1, <3>2
    <3>3. CASE i - (n + 2) \in 1..m /\ n + 2 + (i - (n + 2)) = i
      <4>1. text[i] = value[i - (n + 2)]
        BY <2>1, <3>3
      <4> QED
        BY <1>2, <3>3, <4>1
    <3> QED
      BY <2>2, <3>1, <3>2, <3>3
  <2>4. /\ text[1] # "blank" /\ text[n + 1] # "blank" /\ text # key
        /\ \A i \in 1..n : text[i] # "colon"
    <3>1. 1 \in 1..n /\ Len(text) # n
      BY <1>1, <2>1
    <3> QED
      BY <1>2, <1>4, <2>1, <3>1
  \* The term, which is without the last blank if there is no value.
  <2> DEFINE term == Trim(text)
             rest == SubSeq(term, n + 2, Len(term))
  <2>5. /\ term \in Seq(Char) /\ Len(term) \in n + 1..Len(text)
        /\ \A i \in 1..Len(term) : term[i] = text[i]
        /\ Trim(rest) = value
    <3>1. CASE m = 0
      <4>1. term = SubSeq(text, 1, n + 1)
        <5>1. /\ 1 \in 1..Len(text) /\ n + 1 \in 1..Len(text)
              /\ \A i \in 1..Len(text) : i < 1 \/ n + 1 < i => text[i] = "blank"
          BY <1>1, <2>1, <3>1
        <5> QED
          BY <2>1, <2>4, <5>1, TrimBounds
      <4>2. /\ term \in Seq(Char) /\ Len(term) = n + 1
            /\ \A i \in 1..n + 1 : term[i] = text[i]
        BY <1>1, <2>1, <3>1, <4>1, SubSeqProperties
      <4> HIDE DEF term
      <4>3. rest \in Seq(Char) /\ Len(rest) = 0
        BY <1>1, <4>2, SubSeqProperties
      <4> HIDE DEF rest
      <4>4. rest = <<>> /\ value = <<>>
        BY <1>1, <1>4, <3>1, <4>3, EmptySeq
      <4> QED
        BY <1>1, <1>5, <2>1, <3>1, <4>2, <4>4
    <3>2. CASE m # 0
      <4>1. term = text
        <5>1. 1 \in 1..Len(text) /\ Len(text) = n + 2 + m /\ m \in 1..m
          BY <1>1, <2>1, <3>2
        <5>2. text[Len(text)] # "blank"
          BY <1>2, <2>1, <5>1
        <5> QED
          BY <2>1, <2>4, <5>2, TrimSame
      <4> HIDE DEF term
      <4>2. /\ rest \in Seq(Char) /\ Len(rest) = m + 1
            /\ \A i \in 1..m + 1 : rest[i] = text[n + 2 + i - 1]
        BY <1>1, <2>1, <4>1, SubSeqProperties
      <4> HIDE DEF rest
      <4>3. rest[1] = "blank" /\ \A i \in 1..m : rest[1 + i] = value[i]
        <5>1. 1 \in 1..m + 1 /\ n + 2 + 1 - 1 = n + 2
          BY <1>1
        <5>2. ASSUME NEW i \in 1..m PROVE 1 + i \in 1..m + 1 /\ n + 2 + (1 + i) - 1 = n + 2 + i
          BY <1>1
        <5> QED
          BY <2>1, <4>2, <5>1, <5>2
      <4>4. SubSeq(rest, 1 + 1, 1 + m) = value
        BY <1>1, <1>4, <4>2, <4>3, PartIs
      <4>5. Trim(rest) = SubSeq(rest, 2, m + 1)
        <5>1. 1 \in 1..m /\ m \in 1..m /\ 1 + 1 = 2 /\ 1 + m = m + 1
          BY <1>1, <3>2
        <5>2. rest[2] # "blank" /\ rest[m + 1] # "blank"
          BY <1>2, <4>3, <5>1
        <5>3. /\ 2 \in 1..Len(rest) /\ m + 1 \in 2..Len(rest)
              /\ \A i \in 1..Len(rest) : i < 2 \/ m + 1 < i => rest[i] = "blank"
          BY <1>1, <3>2, <4>2, <4>3
        <5> QED
          BY <4>2, <5>2, <5>3, TrimBounds
      <4>6. SubSeq(rest, 2, m + 1) = value
        BY <1>1, <4>4
      <4> QED
        BY <1>1, <2>1, <4>1, <4>5, <4>6
    <3> QED
      BY <3>1, <3>2
  <2> HIDE DEF term
  <2>6. /\ n \in 0..Len(term) - 1 /\ n + 1 \in DOMAIN term /\ term # <<>>
        /\ term[n + 1] = "colon" /\ \A i \in 1..n : term[i] # "colon" /\ term[i] = key[i]
        /\ \A i \in DOMAIN term : term[i] # "equals"
    <3>1. /\ n \in 0..Len(term) - 1 /\ n + 1 \in 1..Len(term) /\ DOMAIN term = 1..Len(term)
          /\ 1..n \subseteq 1..Len(term) /\ 1..Len(term) \subseteq 1..Len(text)
      BY <1>1, <2>1, <2>5
    <3>2. term # <<>>
      BY <3>1
    <3> QED
      BY <2>1, <2>3, <2>4, <2>5, <3>1, <3>2
  <2>7. SubSeq(term, 1, n) = key
    <3>1. SubSeq(term, 0 + 1, 0 + n) = key
      BY <1>1, <1>4, <2>5, <2>6, PartIs
    <3> QED
      BY <1>1, <3>1
  <2>8. Split(term, "colon") = [key |-> Trim(key), value |-> Trim(rest)]
    BY <2>5, <2>6, <2>7, SplitsAt
  <2>9. ParseLabelFilterTerm(term) = [key |-> key, value |-> value]
    BY <1>5, <2>5, <2>6, <2>8 DEF ParseLabelFilterTerm, Marked
  <2>10. LabelsMatch(p, text) <=>
           key \in DOMAIN p.labels /\ (value = <<>> \/ p.labels[key] = value)
    <3>1. /\ Trim(text) # <<>>
          /\ ParseLabelFilterTerm(Trim(text)) = [key |-> key, value |-> value]
          /\ \A i \in 1..Len(text) : text[i] # "comma"
      BY <2>3, <2>6, <2>9 DEF term
    <3>2. key # <<>> /\ text \in Seq(Char)
      BY <1>4, <2>1
    <3> HIDE DEF term
    <3> QED
      BY <3>1, <3>2, OneTerm
  <2> QED
    BY <2>4, <2>10 DEF value
<1> QED
  BY <1>6, <1>7, <1>8 DEF Suggested, value
===============================================================================
