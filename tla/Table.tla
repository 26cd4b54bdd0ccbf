-------------------------------- MODULE Table --------------------------------
(***************************************************************************)
(* What the front end computes from a Kubernetes object: the registry of   *)
(* resources (resourceRegistry.ts, resourceColumns.tsx), an object's       *)
(* status, readiness and restarts, the filters above the table with the    *)
(* values they suggest (resourceFilters.ts, ResourceFilters.tsx), and the  *)
(* order of the rows (resourceSort.ts).                                    *)
(*                                                                         *)
(* An object is a record of all the fields that are read; one that an      *)
(* object lacks has the value that the code falls back on. A name is a     *)
(* sequence of letters, because a filter looks for a part of it. The label *)
(* filter is a text, and so are an object's labels and their values: a     *)
(* sequence of words, blanks and the marks comma, = and colon, none of     *)
(* which a label has. Upper case, and the blanks around the name and the   *)
(* status that are looked for, which the filters drop, are left out.       *)
(*                                                                         *)
(* Operators whose name begins with Bug are mutated forms of the operator  *)
(* that follows them: each shows that some property detects the fault.     *)
(***************************************************************************)
EXTENDS Naturals, Sequences
LOCAL INSTANCE SequencesExt
LOCAL INSTANCE Functions

-----------------------------------------------------------------------------
(* The registry.                                                           *)

ColumnsOf == [
  pods |-> {"name", "ready", "status", "restarts", "age", "node"},
  deployments |-> {"name", "ready", "updated", "available", "age"},
  statefulsets |-> {"name", "ready", "age"},
  replicasets |-> {"name", "desired", "current", "ready", "age"},
  services |-> {"name", "type", "clusterIp", "externalIp", "ports", "age"},
  jobs |-> {"name", "status", "completions", "duration", "age"},
  cronjobs |-> {"name", "schedule", "timezone", "suspend", "active",
                "lastSchedule", "age"},
  hpas |-> {"name", "reference", "targets", "minPods", "maxPods", "replicas", "age"},
  configmaps |-> {"name", "data", "age"},
  secrets |-> {"name", "type", "data", "age"},
  serviceaccounts |-> {"name", "secrets", "age"},
  poddisruptionbudgets |-> {"name", "minAvailable", "maxUnavailable",
                            "allowedDisruptions", "age"},
  networkpolicies |-> {"name", "podSelector", "age"},
  virtualservices |-> {"name", "gateways", "hosts", "age"},
  events |-> {"lastSeen", "type", "reason", "object", "message"},
  helmreleases |-> {"name", "namespace", "status", "chart", "appVersion",
                    "revision", "updated"}]

Resource == DOMAIN ColumnsOf
DefaultResource == "pods"
SupportedResource(r) == r \in Resource

\* The registry's "supports", as the set of resources that have each feature.
Supports == [
  events |-> Resource \ {"events", "helmreleases"},
  logs |-> {"pods", "deployments"},
  history |-> {"helmreleases"},
  statusFilter |-> {"pods", "deployments", "statefulsets", "jobs", "events",
                    "helmreleases"}]

\* The tabs of the drawer over an object of the resource.
TabsOffered(r) == {"yaml"} \cup {t \in {"events", "logs", "history"} : r \in Supports[t]}

-----------------------------------------------------------------------------
(* Status, readiness, restarts. A container's state is its kind and the    *)
(* reason given, which may be missing.                                     *)

Ready(o) == SelectSeq(o.statuses, LAMBDA s : s.ready)
Total(o) == IF o.statuses # <<>> THEN Len(o.statuses) ELSE o.containers

\* The reason of the first container that waits, or is terminated.
FirstReason(o, state) ==
  LET In == SelectSeq(o.statuses, LAMBDA s : s.state = state)
  IN  IF In = <<>> THEN "" ELSE Head(In).reason

Or(a, b) == IF a # "" THEN a ELSE b

PodStatus(o) == Or(FirstReason(o, "waiting"),
                   Or(FirstReason(o, "terminated"), o.phase))

JobStatus(o) == CASE o.succeeded > 0 -> "Complete"
                  [] o.succeeded = 0 /\ o.failed > 0 -> "Failed"
                  [] o.succeeded = 0 /\ o.failed = 0 /\ o.active > 0 -> "Running"
                  [] OTHER -> ""

Replicated == {"deployments", "statefulsets"}

\* A ready count that is not there counts as none, and is no status.
IsReady(r, o) ==
  CASE r = "pods" -> Total(o) > 0 /\ Len(Ready(o)) = Total(o)
    [] r \in Replicated -> o.readyReplicas >= o.replicas
    [] OTHER -> TRUE

ResourceStatus(r, o) ==
  CASE r = "pods" -> PodStatus(o)
    [] r = "jobs" -> JobStatus(o)
    [] r \in Replicated -> IF IsReady(r, o) THEN "Ready" ELSE "NotReady"
    [] OTHER -> o.status

\* The restarts of init and ephemeral containers, o.others, count as well.
PodRestartCount(o) ==
  FoldFunction(LAMBDA s, n : s.restarts + n, 0, o.statuses \o o.others)

-----------------------------------------------------------------------------
(* Filters.                                                                *)

EmptyFilters == [name |-> <<>>, status |-> "", labels |-> <<>>,
                 restartsOnly |-> FALSE, notReadyOnly |-> FALSE]

\* trim: without the blanks at both ends.
Trim(text) ==
  LET Words == {i \in DOMAIN text : text[i] # "blank"}
      first == CHOOSE i \in Words : \A j \in Words : i <= j
      last == CHOOSE i \in Words : \A j \in Words : j <= i
  IN  IF Words = {} THEN <<>> ELSE SubSeq(text, first, last)

\* "Clear filters" is offered: a label filter of blanks alone does not count.
HasActiveFilters(f) == [f EXCEPT !.labels = Trim(@)] # EmptyFilters

HasPart(whole, part) ==
  \E i \in 0..Len(whole) : IsPrefix(part, SubSeq(whole, i + 1, Len(whole)))

\* What a text holds before, between and after its commas.
Pieces(text) ==
  LET Bounds == (1..Len(text) + 1) \X (0..Len(text))
      IsPiece(b) == /\ b[1] <= b[2] + 1 /\ \A i \in b[1]..b[2] : text[i] # "comma"
                    /\ b[1] = 1 \/ text[b[1] - 1] = "comma"
                    /\ b[2] = Len(text) \/ text[b[2] + 1] = "comma"
  IN  {SubSeq(text, b[1], b[2]) : b \in {c \in Bounds : IsPiece(c)}}
TermsOf(text) == {Trim(piece) : piece \in Pieces(text)} \ {<<>>}

\* A term is split where it first has the mark.
Split(term, mark) ==
  LET place == CHOOSE i \in DOMAIN term : term[i] = mark /\ \A j \in 1..i - 1 : term[j] # mark
  IN  [key |-> Trim(SubSeq(term, 1, place - 1)),
       value |-> Trim(SubSeq(term, place + 1, Len(term)))]

\* A = comes before a colon, wherever the two are; a term with neither is a key.
\* No value and an empty one are the same to labelsMatch.
Marked(term, mark) == \E i \in DOMAIN term : term[i] = mark
ParseLabelFilterTerm(term) ==
  CASE Marked(term, "equals") -> Split(term, "equals")
    [] ~Marked(term, "equals") /\ Marked(term, "colon") -> Split(term, "colon")
    [] OTHER -> [key |-> Trim(term), value |-> <<>>]

LabelsMatch(o, text) ==
  \A term \in TermsOf(text) :
    LET t == ParseLabelFilterTerm(term)
    IN  t.key # <<>> => /\ t.key \in DOMAIN o.labels
                        /\ t.value # <<>> => o.labels[t.key] = t.value

\* A pod that has done its work is not ready and needs no attention.
NeedsAttention(r, o) == ~IsReady(r, o) /\ ~(r = "pods" /\ o.phase = "Succeeded")

MatchesFilters(r, o, f) ==
  /\ f.name # <<>> => HasPart(o.name, f.name)
  /\ f.status # "" => ResourceStatus(r, o) = f.status
  /\ LabelsMatch(o, f.labels)
  /\ f.restartsOnly /\ r = "pods" => PodRestartCount(o) # 0
  /\ f.notReadyOnly /\ r \in Replicated \cup {"pods"} => NeedsAttention(r, o)

\* The controls above the table that the resource has.
ControlsOf(r) ==
  {"name", "labels"}
    \cup (IF r \in Supports.statusFilter THEN {"status"} ELSE {})
    \cup (IF r = "pods" THEN {"restartsOnly"} ELSE {})
    \cup (IF r \in Replicated \cup {"pods"} THEN {"notReadyOnly"} ELSE {})

\* What the label filter suggests, without the limit of 300.
Suggested(key, value) == {key, key \o <<"equals">> \o value, key \o <<"colon", "blank">> \o value}
LabelSuggestions(objects) ==
  UNION {UNION {Suggested(k, o.labels[k]) : k \in DOMAIN o.labels} : o \in objects}

-----------------------------------------------------------------------------
(* Sorting: what a click on a header asks for next.                        *)

NoSort == [column |-> "", direction |-> ""]

NextSort(sort, column) ==
  IF sort.column # column THEN [column |-> column, direction |-> "asc"]
  ELSE IF sort.direction = "asc" THEN [column |-> column, direction |-> "desc"]
  ELSE NoSort
=============================================================================
