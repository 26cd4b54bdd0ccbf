-------------------------------- MODULE Route --------------------------------
(***************************************************************************)
(* Which context and resource the page shows, and the browser's history    *)
(* (useViewRoute.ts, routing.ts, the two selects of AppHeader.tsx).        *)
(*                                                                         *)
(* A path is the sequence of its segments. A change of the view by a       *)
(* select or by popstate is a discrete event: React commits it and runs    *)
(* the effects of the commit before anything else happens, so that the     *)
(* view and its path change in one step. useViewRoute's two refs live on   *)
(* between the steps: handlingPopState says that the change under way came *)
(* from the browser, so that it must not become an entry of the history.   *)
(*                                                                         *)
(* Operators whose name begins with Bug are mutated forms of the operator  *)
(* that follows them: each shows that some property detects the fault.     *)
(***************************************************************************)
EXTENDS Table, Naturals, Sequences, FiniteSets

CONSTANTS Context,       \* names of contexts that a path or a select may hold
          ShownResource, \* the resources that users of the model select
          FirstPath,     \* the paths at which the page may be loaded
          MaxHistory     \* bound on the length of the browser's history

ASSUME RouteAssumption == "" \notin Context /\ ShownResource \subseteq Resource

VARIABLES hist,             \* the paths of the browser's history entries
          pos,              \* the current one
          view,             \* useViewRoute's ctx and resource
          handlingPopState, \* handlingPopStateRef.current
          trail,            \* history variable: the views the user went through,
                            \*   as long as the browser ought to know them
          idlePop           \* history variable: the last change of the entry
                            \*   was a popstate that left the view as it is
routeVars == <<hist, pos, view, handlingPopState, trail, idlePop>>

View == [ctx : Context \cup {""}, resource : ShownResource \cup {DefaultResource}]

-----------------------------------------------------------------------------
\* A context that is no valid encoding counts as none (safeDecodePathSegment).
ParseViewRoute(path) ==
  IF path = <<>> \/ Head(path) # "view"
  THEN [ctx |-> "", resource |-> DefaultResource]
  ELSE [ctx |-> IF Len(path) > 1 /\ path[2] \in Context THEN path[2] ELSE "",
        resource |-> IF Len(path) > 2 /\ SupportedResource(path[3])
                     THEN path[3] ELSE DefaultResource]

ViewRoutePath(v) ==
  IF v.ctx = "" THEN <<>>
  ELSE <<"view", v.ctx,
         IF SupportedResource(v.resource) THEN v.resource ELSE DefaultResource>>

\* The page is loaded: the effect of the first commit makes the path canonical.
RouteInit ==
  \E path \in FirstPath :
    /\ view = ParseViewRoute(path)
    /\ hist = <<ViewRoutePath(view)>>
    /\ pos = 1
    /\ handlingPopState = FALSE
    /\ trail = hist
    /\ idlePop = FALSE

Visited == SubSeq(hist, 1, pos)

\* pushState drops what was ahead of the entry; replaceState keeps it.
Paths(path) ==
  IF path = hist[pos] THEN hist
  ELSE IF ~handlingPopState THEN Append(Visited, path)
  ELSE [hist EXCEPT ![pos] = path]

\* The effect of a change of ctx or resource, after a select.
RouteEffect(v) ==
  LET path == ViewRoutePath(v)
  IN  /\ hist' = Paths(path)
      /\ pos' = IF path = hist[pos] \/ handlingPopState THEN pos ELSE pos + 1
      /\ handlingPopState' = FALSE

SelectView(v) ==
  /\ v # view
  /\ v.ctx = view.ctx \/ v.resource = view.resource
  /\ pos < MaxHistory
  /\ view' = v
  /\ RouteEffect(v)
  /\ trail' = IF ViewRoutePath(v) = hist[pos] \/ trail = <<>> THEN trail
              ELSE IF idlePop THEN <<>>
              ELSE Append(SubSeq(trail, 1, pos), ViewRoutePath(v))
  /\ idlePop' = FALSE

\* The browser goes to another entry, and onPopState runs. When the view stays
\* as it is, React renders nothing and no effect runs.
BugHandled(v) == TRUE
Handled(v) == v = view

PopState(n) ==
  /\ n \in DOMAIN hist \ {pos}
  /\ pos' = n
  /\ view' = ParseViewRoute(hist[n])
  /\ handlingPopState' = Handled(view')
  /\ idlePop' = (view' = view)
  /\ UNCHANGED <<hist, trail>>

-----------------------------------------------------------------------------
\* The address bar names the view on the page (useViewRoute.ts:22-33), and the
\* browser's history is the views the user went through, so that going back leads
\* to where the user was. The one way to lose an entry is to change the view right
\* after a popstate that did not change it (useViewRoute.ts:14 and 25).
HistoryIsTrail ==
  /\ hist[pos] = ViewRoutePath(view)
  /\ trail # <<>> => hist = trail
=============================================================================
