----------------------------- MODULE DetailsProofs -----------------------------
(***************************************************************************)
(* Proofs about the drawer's tabs, for any objects, events and bounds. The *)
(* first part is about the pure functions of YamlEditor, for texts of any  *)
(* length over any characters: what documentChange replaces is exactly     *)
(* what turns the old text into the new one. The loops that count equal    *)
(* characters are CHOOSEs in the model; the lemmas show that what is       *)
(* chosen exists. The second part is about Details: an inductive invariant *)
(* ties the stream and the fetch of the two hooks to what is drawn, and    *)
(* what the stream was told to the server's entry.                         *)
(***************************************************************************)
EXTENDS Details, SequenceTheorems, WellFoundedInduction, TLAPS

-----------------------------------------------------------------------------
(* The editor's change.                                                    *)

\* A loop that counts up to n while i is not in Stop ends somewhere.
LEMMA LoopEnds ==
  ASSUME NEW n \in Nat, NEW Stop
  PROVE  \E k \in 0..n : /\ \A i \in 0..k - 1 : i \notin Stop
                         /\ k < n => k \in Stop
<1> DEFINE Ends == {k \in 0..n : k < n => k \in Stop}
<1>1. Ends \subseteq Nat /\ n \in Ends
  OBVIOUS
<1>2. PICK k \in Ends : \A i \in Ends : ~(<<i, k>> \in OpToRel(<, Nat))
  <2> HIDE DEF Ends
  <2> QED
    BY <1>1, WFMin, NatLessThanWellFounded
<1>3. \A i \in 0..k - 1 : i \notin Stop
  <2>1. SUFFICES ASSUME NEW i \in 0..k - 1, i \in Stop PROVE FALSE
    OBVIOUS
  <2>2. k \in 0..n /\ i \in 0..n /\ i \in Nat /\ k \in Nat /\ i < k
    OBVIOUS
  <2>3. i \in Ends
    BY <2>1, <2>2
  <2>4. <<i, k>> \in OpToRel(<, Nat)
    BY <2>2 DEF OpToRel
  <2> QED
    BY <1>2, <2>3, <2>4
<1> QED
  BY <1>2, <1>3

\* The shorter of two texts (documentChange's loop conditions).
LEMMA ShorterType ==
  ASSUME NEW S, NEW p \in Seq(S), NEW q \in Seq(S)
  PROVE  Shorter(p, q) \in Nat /\ Shorter(p, q) <= Len(p) /\ Shorter(p, q) <= Len(q)
  BY DEF Shorter

\* What the first loop of documentChange leaves in "from".
LEMMA FrontIsCommon ==
  ASSUME NEW S, NEW p \in Seq(S), NEW q \in Seq(S)
  PROVE  LET k == CommonFront(p, q)
         IN  /\ k \in 0..Shorter(p, q)
             /\ \A i \in 1..k : p[i] = q[i]
             /\ k < Shorter(p, q) => p[k + 1] # q[k + 1]
<1> DEFINE n == Shorter(p, q)
           Stop == {i \in Nat : p[i + 1] # q[i + 1]}
<1>1. n \in Nat
  BY ShorterType
<1>2. PICK k \in 0..n : /\ \A i \in 0..k - 1 : i \notin Stop
                        /\ k < n => k \in Stop
  <2> HIDE DEF n, Stop
  <2> QED BY <1>1, LoopEnds
<1>3. \A i \in 1..k : p[i] = q[i]
  <2>1. SUFFICES ASSUME NEW i \in 1..k PROVE p[i] = q[i]
    OBVIOUS
  <2>2. i - 1 \in 0..k - 1 /\ i - 1 \in Nat /\ (i - 1) + 1 = i
    BY <1>1
  <2>3. i - 1 \notin Stop
    BY <1>2, <2>2
  <2> QED
    BY <2>2, <2>3
<1>4. k < n => p[k + 1] # q[k + 1]
  BY <1>2
<1>5. \E m \in 0..Shorter(p, q) : /\ \A i \in 1..m : p[i] = q[i]
                                  /\ m < Shorter(p, q) => p[m + 1] # q[m + 1]
  BY <1>2, <1>3, <1>4
<1> QED
  BY <1>5 DEF CommonFront

\* What the second loop counts: it stays behind the first.
LEMMA BackIsCommon ==
  ASSUME NEW S, NEW p \in Seq(S), NEW q \in Seq(S), NEW front \in 0..Shorter(p, q)
  PROVE  LET k == CommonBack(p, q, front)
         IN  /\ k \in 0..Shorter(p, q) - front
             /\ \A i \in 0..k - 1 : p[Len(p) - i] = q[Len(q) - i]
             /\ k < Shorter(p, q) - front => p[Len(p) - k] # q[Len(q) - k]
<1> DEFINE n == Shorter(p, q) - front
           Stop == {i \in Nat : p[Len(p) - i] # q[Len(q) - i]}
<1>1. n \in Nat
  BY ShorterType
<1>2. PICK k \in 0..n : /\ \A i \in 0..k - 1 : i \notin Stop
                        /\ k < n => k \in Stop
  <2> HIDE DEF n, Stop
  <2> QED BY <1>1, LoopEnds
<1>3. /\ \A i \in 0..k - 1 : p[Len(p) - i] = q[Len(q) - i]
      /\ k < n => p[Len(p) - k] # q[Len(q) - k]
  BY <1>2
<1>4. \E m \in 0..Shorter(p, q) - front :
        /\ \A i \in 0..m - 1 : p[Len(p) - i] = q[Len(q) - i]
        /\ m < Shorter(p, q) - front => p[Len(p) - m] # q[Len(q) - m]
  BY <1>2, <1>3
<1> QED
  BY <1>4 DEF CommonBack

\* Applying documentChange (YamlEditor.tsx:56-68) to the old text gives the new one.
THEOREM ChangeMakesNext ==
  ASSUME NEW S, NEW p \in Seq(S), NEW q \in Seq(S)
  PROVE  Splice(p, DocumentChange(p, q)) = q
<1> DEFINE f == CommonFront(p, q)
           b == CommonBack(p, q, f)
           n == Shorter(p, q)
<1>1. /\ n \in Nat /\ n <= Len(p) /\ n <= Len(q)
      /\ Len(p) \in Nat /\ Len(q) \in Nat
  BY ShorterType
<1>2. f \in 0..n /\ \A i \in 1..f : p[i] = q[i]
  BY FrontIsCommon
<1>3. b \in 0..n - f /\ \A i \in 0..b - 1 : p[Len(p) - i] = q[Len(q) - i]
  BY <1>2, BackIsCommon
<1> HIDE DEF f, b, n
<1>4. SubSeq(p, 1, f) = SubSeq(q, 1, f)
  BY <1>1, <1>2
<1>5. SubSeq(p, Len(p) - b + 1, Len(p)) = SubSeq(q, Len(q) - b + 1, Len(q))
  <2>1. \A i \in 1..b : p[Len(p) - b + 1 + i - 1] = q[Len(q) - b + 1 + i - 1]
    <3>1. SUFFICES ASSUME NEW i \in 1..b
                   PROVE  p[Len(p) - b + 1 + i - 1] = q[Len(q) - b + 1 + i - 1]
      OBVIOUS
    <3>2. /\ b - i \in 0..b - 1
          /\ Len(p) - (b - i) = Len(p) - b + 1 + i - 1
          /\ Len(q) - (b - i) = Len(q) - b + 1 + i - 1
      BY <1>1, <1>2, <1>3
    <3>3. p[Len(p) - (b - i)] = q[Len(q) - (b - i)]
      BY <1>3, <3>2
    <3> QED
      BY <3>2, <3>3
  <2>2. LET t == SubSeq(p, Len(p) - b + 1, Len(p))
        IN  t \in Seq(S) /\ Len(t) = b /\ \A i \in 1..b : t[i] = p[Len(p) - b + 1 + i - 1]
    BY <1>1, <1>2, <1>3, SubSeqProperties
  <2>3. LET t == SubSeq(q, Len(q) - b + 1, Len(q))
        IN  t \in Seq(S) /\ Len(t) = b /\ \A i \in 1..b : t[i] = q[Len(q) - b + 1 + i - 1]
    BY <1>1, <1>2, <1>3, SubSeqProperties
  <2> QED
    BY <2>1, <2>2, <2>3, SeqEqual
<1>6. SubSeq(q, 1, f) \o SubSeq(q, f + 1, Len(q) - b) = SubSeq(q, 1, Len(q) - b)
  <2>1. 1 \in 1..Len(q) + 1 /\ f \in 1 - 1..Len(q) /\ Len(q) - b \in f..Len(q)
    BY <1>1, <1>2, <1>3
  <2> QED
    BY <2>1, ConcatAdjacentSubSeq
<1>7. SubSeq(q, 1, Len(q) - b) \o SubSeq(q, Len(q) - b + 1, Len(q)) = SubSeq(q, 1, Len(q))
  <2>1. 1 \in 1..Len(q) + 1 /\ Len(q) - b \in 1 - 1..Len(q) /\ Len(q) \in Len(q) - b..Len(q)
    BY <1>1, <1>2, <1>3
  <2> QED
    BY <2>1, ConcatAdjacentSubSeq
<1>8. SubSeq(q, 1, Len(q)) = q
  BY SubSeqFull
<1> QED
  BY <1>4, <1>5, <1>6, <1>7, <1>8 DEF Splice, DocumentChange, f, b

\* The change is as short as one change can be: what is replaced and what replaces it
\* begin with different characters, and end with different ones.
THEOREM ChangeIsTight ==
  ASSUME NEW S, NEW p \in Seq(S), NEW q \in Seq(S)
  PROVE  LET c == DocumentChange(p, q)
         IN  c.from < c.to /\ c.from < Len(q) - (Len(p) - c.to)
               => /\ p[c.from + 1] # q[c.from + 1]
                  /\ p[c.to] # q[Len(q) - (Len(p) - c.to)]
<1> DEFINE f == CommonFront(p, q)
           b == CommonBack(p, q, f)
           n == Shorter(p, q)
<1>1. /\ n \in Nat /\ n <= Len(p) /\ n <= Len(q) /\ n \in {Len(p), Len(q)}
      /\ Len(p) \in Nat /\ Len(q) \in Nat
  BY ShorterType DEF Shorter
<1>2. f \in 0..n /\ (f < n => p[f + 1] # q[f + 1])
  BY FrontIsCommon
<1>3. b \in 0..n - f /\ (b < n - f => p[Len(p) - b] # q[Len(q) - b])
  BY <1>2, BackIsCommon
<1>4. DocumentChange(p, q).from = f /\ DocumentChange(p, q).to = Len(p) - b
  BY DEF DocumentChange
<1> HIDE DEF f, b, n
<1>5. Len(p) - (Len(p) - b) = b
  BY <1>1, <1>2, <1>3
<1>6. SUFFICES ASSUME f < Len(p) - b, f < Len(q) - b
               PROVE  p[f + 1] # q[f + 1] /\ p[Len(p) - b] # q[Len(q) - b]
  BY <1>4, <1>5
<1>7. f < n /\ b < n - f
  BY <1>1, <1>2, <1>3, <1>6
<1> QED
  BY <1>2, <1>3, <1>7

-----------------------------------------------------------------------------
(* Types and invariants.                                                   *)

Place == Key \cup {NoKey}

Told == [type : {"ADDED", "DELETED"}, object : Event]
          \cup [type : {"SNAPSHOT"}, objects : SUBSET Event]
          \cup [type : {"SYNCED", "ERROR"}]

Runs == {"new", "none", "listing", "starting", "watching", "returning"}

PageState == [items : [Key -> Nat], key : Place, tab : {"yaml", "events", "history"}]
EventsState == [events : SUBSET Event, loading : BOOLEAN, error : {"", "server", "interrupted"}]
StreamState == [for : Place, conn : {"closed", "connecting", "creating", "open"},
                queue : Seq(Told), timer : BOOLEAN, told : BOOLEAN]
HistoryState == [of : Place, revision : Nat, loading : BOOLEAN, error : {"", "failed"}]
FetchState == [for : Place, revision : Nat, stage : {"none", "sent", "read", "failed"}]

DetailsTypeOK ==
  /\ resource \in Resource /\ truth \in [Key -> Nat]
  /\ run \in Runs /\ cache \subseteq Event /\ refused \in BOOLEAN
  /\ page \in PageState /\ drawn \in PageState
  /\ ev \in EventsState /\ evDrawn \in EventsState
  /\ stream \in StreamState
  /\ hi \in HistoryState /\ hiDrawn \in HistoryState
  /\ fetch \in FetchState

\* The cluster is ahead of the page, and the page of its picture, until the object is
\* deleted, which it stays.
Ahead(k) ==
  /\ page.items[k] > 0 => 0 < drawn.items[k] /\ drawn.items[k] <= page.items[k]
  /\ truth[k] > 0 => 0 < page.items[k] /\ page.items[k] <= truth[k]

\* Between two commits a selection can only be lost.
InStep == (\A k \in Key : Ahead(k)) /\ page.key \in {drawn.key, NoKey}

\* The stream is that of the object that is drawn, and so is what it told.
ToldOfSelection ==
  /\ stream.for = EventsOf(drawn)
  /\ stream.conn # "closed" => stream.for # NoKey
  /\ stream.conn # "open" => stream.queue = <<>>
  /\ \A e \in ev.events : stream.for # NoKey /\ EventMatches(e, Subject[stream.for])
  /\ HasItem(drawn) /\ drawn.tab = "events" =>
       \A e \in evDrawn.events : EventMatches(e, Subject[drawn.key])

\* A message that says whether there is an event, and what it says.
Says(m, e) == m.type = "SNAPSHOT" \/ (m.type \in {"ADDED", "DELETED"} /\ m.object = e)
Gives(m, e) == m.type = "ADDED" \/ (m.type = "SNAPSHOT" /\ e \in m.objects)

\* The last message under way that speaks of an event is right about it; what the tab
\* has of an event that none speaks of is right, once it was sent a snapshot.
UpToDate(e) ==
  LET q == stream.queue
  IN  /\ \A i \in 1..Len(q) :
           Says(q[i], e) /\ (\A j \in i + 1..Len(q) : ~Says(q[j], e))
             => (Gives(q[i], e) <=> e \in cache)
      /\ stream.told /\ (\A i \in 1..Len(q) : ~Says(q[i], e))
           => (e \in ev.events <=> e \in Matching(stream.for, cache))

EventsFollow == stream.conn = "open" => \A e \in Event : UpToDate(e)

\* While the entry is refused it is not watched, and the error is the last thing that
\* the tab was told or will be.
RefusalTold ==
  refused =>
    /\ run \in {"returning", "none", "listing"}
    /\ stream.conn = "open" /\ stream.told
         => IF stream.queue = <<>> THEN ev.error = "server"
            ELSE stream.queue[Len(stream.queue)].type = "ERROR"

\* The fetch is for what is drawn, and so is what was fetched; it is recent enough.
FetchedForSelection ==
  LET for == HistoryOf(drawn)
  IN  /\ hi.of \in {NoKey, for.key}
      /\ fetch.stage # "none" => fetch.for = for.key /\ for.key # NoKey
      /\ HasItem(drawn) /\ drawn.tab = "history" => hiDrawn.of \in {NoKey, drawn.key}
      /\ fetch.stage = "read" => fetch.revision >= for.revision
      /\ for.key # NoKey /\ ~hi.loading /\ hi.error = "" => hi.revision >= for.revision

DetailsInv ==
  /\ DetailsTypeOK /\ InStep
  /\ ToldOfSelection /\ EventsFollow /\ RefusalTold
  /\ FetchedForSelection

-----------------------------------------------------------------------------
(* What the steps do to the records.                                       *)

\* A page that is changed in some of its fields.
LEMMA PageFields ==
  ASSUME NEW p \in PageState
  PROVE  p.items \in [Key -> Nat] /\ p.key \in Place /\ p.tab \in {"yaml", "events", "history"}
  BY DEF PageState

\* A click on a row, or on Close.
LEMMA PageSelects ==
  ASSUME NEW p \in PageState, NEW q, NEW k, NEW t, q = [p EXCEPT !.key = k, !.tab = t]
  PROVE  q = [items |-> p.items, key |-> k, tab |-> t]
  BY DEF PageState

\* A click on a tab.
LEMMA PageTabs ==
  ASSUME NEW p \in PageState, NEW q, NEW t, q = [p EXCEPT !.tab = t]
  PROVE  q = [items |-> p.items, key |-> p.key, tab |-> t]
  BY DEF PageState

\* A message about an object's version.
LEMMA PageItems ==
  ASSUME NEW p \in PageState, NEW q, NEW f, q = [p EXCEPT !.items = f]
  PROVE  q = [items |-> f, key |-> p.key, tab |-> p.tab]
  BY DEF PageState

\* Pages are what has their fields.
LEMMA PageStates ==
  \A f \in [Key -> Nat], k \in Place, t \in {"yaml", "events", "history"} :
    [items |-> f, key |-> k, tab |-> t] \in PageState
  BY DEF PageState

\* Every click and every render is a commit of a page with the same objects that is
\* either at its YAML or selects what the queued page does.
LEMMA Commits ==
  ASSUME DetailsTypeOK, UserClicks \/ Render
  PROVE  \E next \in PageState :
           /\ Commit(next)
           /\ next.items = page.items
           /\ next.tab = "yaml" \/ next.key = page.key
<1>1. page \in PageState /\ NoKey \in Place
  BY DEF DetailsTypeOK, Place
<1>2. CASE Render
  BY <1>1, <1>2 DEF Render
<1>3. ASSUME NEW k \in Key, RowClick(k) PROVE \E next \in PageState :
           /\ Commit(next)
           /\ next.items = page.items
           /\ next.tab = "yaml" \/ next.key = page.key
  <2> DEFINE key == IF page.key = k THEN NoKey ELSE k
             q == [page EXCEPT !.key = key, !.tab = "yaml"]
             next == [items |-> page.items, key |-> key, tab |-> "yaml"]
  <2>1. key \in Place
    BY DEF Place
  <2>2. next \in PageState
    BY <1>1, <2>1, PageFields, PageStates
  <2>3. Commit(q)
    BY <1>3 DEF RowClick
  <2>4. q = [page EXCEPT !.key = key, !.tab = "yaml"]
    OBVIOUS
  <2> HIDE DEF q, key
  <2>5. q = next
    BY <1>1, <2>4, PageSelects
  <2> QED
    BY <2>2, <2>3, <2>5
<1>4. CASE CloseClick
  <2> DEFINE q == [page EXCEPT !.key = NoKey, !.tab = "yaml"]
             next == [items |-> page.items, key |-> NoKey, tab |-> "yaml"]
  <2>1. next \in PageState
    BY <1>1, PageFields, PageStates
  <2>2. Commit(q)
    BY <1>4 DEF CloseClick
  <2>3. q = [page EXCEPT !.key = NoKey, !.tab = "yaml"]
    OBVIOUS
  <2> HIDE DEF q
  <2>4. q = next
    BY <1>1, <2>3, PageSelects
  <2> QED
    BY <2>1, <2>2, <2>4
<1>5. ASSUME NEW t \in {"yaml", "events", "history"}, TabClick(t) PROVE \E next \in PageState :
           /\ Commit(next)
           /\ next.items = page.items
           /\ next.tab = "yaml" \/ next.key = page.key
  <2> DEFINE q == [page EXCEPT !.tab = t]
             next == [items |-> page.items, key |-> page.key, tab |-> t]
  <2>1. next \in PageState
    BY <1>1, PageFields, PageStates
  <2>2. Commit(q)
    BY <1>5 DEF TabClick
  <2>3. q = [page EXCEPT !.tab = t]
    OBVIOUS
  <2> HIDE DEF q
  <2>4. q = next
    BY <1>1, <2>3, PageTabs
  <2> QED
    BY <2>1, <2>2, <2>4
<1> QED
  BY <1>2, <1>3, <1>4, <1>5 DEF UserClicks

\* A message about an object changes its version and loses the selection at most.
LEMMA Receives ==
  ASSUME DetailsTypeOK, NEW k \in Key, PageReceives(k)
  PROVE  /\ page' \in PageState
         /\ page'.items = [page.items EXCEPT ![k] = page'.items[k]]
         /\ \/ page.items[k] < truth[k] /\ page'.items[k] = page.items[k] + 1
            \/ truth[k] = 0 /\ page'.items[k] = 0
         /\ page'.key \in {page.key, NoKey}
         /\ UNCHANGED <<serverVars, drawn, editor, evDrawn, hiDrawn, eventVars, historyVars>>
<1>1. /\ page \in PageState /\ NoKey \in Place
      /\ page.items \in [Key -> Nat] /\ page.key \in Place /\ page.items[k] \in Nat
      /\ page.tab \in {"yaml", "events", "history"}
  BY DEF DetailsTypeOK, Place, PageState
<1>2. UNCHANGED <<serverVars, drawn, editor, evDrawn, hiDrawn, eventVars, historyVars>>
  BY DEF PageReceives
<1>3. CASE page.items[k] < truth[k] /\ page' = [page EXCEPT !.items[k] = @ + 1]
  <2> DEFINE f == [page.items EXCEPT ![k] = page.items[k] + 1]
  <2>1. f \in [Key -> Nat] /\ f[k] = page.items[k] + 1
    BY <1>1
  <2>2. page' = [page EXCEPT !.items = f]
    BY <1>3
  <2>3. page' = [items |-> f, key |-> page.key, tab |-> page.tab]
    BY <1>1, <2>1, <2>2, PageItems
  <2>4. page' \in PageState /\ page'.items = f /\ page'.key = page.key
    BY <1>1, <2>1, <2>3, PageStates
  <2> QED
    BY <1>2, <1>3, <2>1, <2>4
<1>4. CASE /\ truth[k] = 0
           /\ page' = [page EXCEPT !.items[k] = 0,
                                   !.key = IF @ = k THEN NoKey ELSE @,
                                   !.tab = IF page.key = k THEN "yaml" ELSE @]
  <2> DEFINE f == [page.items EXCEPT ![k] = 0]
             key == IF page.key = k THEN NoKey ELSE page.key
             t == IF page.key = k THEN "yaml" ELSE page.tab
  <2>1. f \in [Key -> Nat] /\ f[k] = 0 /\ key \in Place
        /\ t \in {"yaml", "events", "history"}
    BY <1>1
  <2>2. page' = [page EXCEPT !.items = f, !.key = key, !.tab = t]
    BY <1>4
  <2>5. /\ key \in {page.key, NoKey}
        /\ f = [page.items EXCEPT ![k] = 0]
    OBVIOUS
  <2> HIDE DEF f, key, t
  <2>3. page' = [items |-> f, key |-> key, tab |-> t]
    BY <1>1, <2>2 DEF PageState
  <2>4. page' \in PageState /\ page'.items = f /\ page'.key = key
    BY <2>1, <2>3, PageStates
  <2> QED
    BY <1>2, <1>4, <2>1, <2>4, <2>5
<1> QED
  BY <1>3, <1>4 DEF PageReceives

\* A fetch that failed leaves what the history has.
LEMMA HistoryFails ==
  ASSUME NEW s \in HistoryState, NEW q, q = [s EXCEPT !.loading = FALSE, !.error = "failed"]
  PROVE  q = [of |-> s.of, revision |-> s.revision, loading |-> FALSE, error |-> "failed"]
  BY DEF HistoryState

\* The timer is not about the connection.
LEMMA StreamTimer ==
  ASSUME NEW s \in StreamState, NEW q, q = [s EXCEPT !.timer = FALSE]
  PROVE  /\ q \in StreamState /\ q.for = s.for /\ q.conn = s.conn
         /\ q.queue = s.queue /\ q.told = s.told
  BY DEF StreamState

\* An answer of the storage.
LEMMA FetchAnswered ==
  ASSUME NEW s \in FetchState, NEW q, NEW r \in Nat,
         \/ q = [s EXCEPT !.stage = "read", !.revision = r]
  PROVE  q \in FetchState /\ q.for = s.for /\ q.stage = "read" /\ q.revision = r
  BY DEF FetchState

\* An answer that is a failure.
LEMMA FetchFails ==
  ASSUME NEW s \in FetchState, NEW q, q = [s EXCEPT !.stage = "failed"]
  PROVE  q \in FetchState /\ q.for = s.for /\ q.stage = "failed"
  BY DEF FetchState

\* What the effects of a commit begin with.
LEMMA Begins ==
  /\ NoEvents \in EventsState /\ NoHistory \in HistoryState
  /\ Closed \in StreamState /\ NoFetch \in FetchState
  /\ \A k : NewEvents(k) \in EventsState /\ NewEvents(k).events = {}
  /\ \A k \in Place : StreamFor(k) \in StreamState
<1>1. NoEvents \in EventsState /\ NoHistory \in HistoryState
  BY DEF NoEvents, NoHistory, EventsState, HistoryState, Place
<1>2. Closed \in StreamState /\ NoFetch \in FetchState
  BY DEF Closed, StreamTo, NoFetch, StreamState, FetchState, Place
<1>3. ASSUME NEW k PROVE NewEvents(k) \in EventsState /\ NewEvents(k).events = {}
  <2> DEFINE loading == k # NoKey
  <2>1. NewEvents(k) = [NoEvents EXCEPT !.loading = loading] /\ loading \in BOOLEAN
    BY DEF NewEvents
  <2> HIDE DEF loading
  <2> QED
    BY <2>1 DEF EventsState, NoEvents
<1>4. ASSUME NEW k \in Place PROVE StreamFor(k) \in StreamState
  BY DEF StreamFor, StreamTo, StreamState
<1> QED
  BY <1>1, <1>2, <1>3, <1>4

-----------------------------------------------------------------------------
(* The initial states, and a commit.                                       *)

\* The invariant holds initially: nothing is selected.
LEMMA InitInv == DetailsInit => DetailsInv
<1> SUFFICES ASSUME DetailsInit PROVE DetailsInv
  OBVIOUS
<1>1. /\ page = [items |-> truth, key |-> NoKey, tab |-> "yaml"] /\ drawn = page
      /\ truth \in [Key -> Nat] /\ page \in PageState /\ NoKey \in Place
      /\ \A k \in Key : truth[k] = 1
  BY PageStates DEF DetailsInit, Place
<1>2. /\ ev.events = {} /\ evDrawn = ev
      /\ stream.for = NoKey /\ stream.conn = "closed" /\ stream.queue = <<>>
      /\ hi.of = NoKey /\ hiDrawn = hi /\ fetch.stage = "none" /\ ~refused
  BY DEF DetailsInit, NoEvents, Closed, StreamTo, NoHistory, NoFetch
<1>3. /\ page.items = truth /\ page.key = NoKey /\ ~HasItem(drawn)
  BY <1>1 DEF HasItem
<1>4. DetailsTypeOK
  BY <1>1, Begins DEF DetailsInit, DetailsTypeOK, Runs
<1>5. InStep
  BY <1>1, <1>3 DEF InStep, Ahead
<1>6. EventsOf(drawn) = NoKey /\ HistoryOf(drawn).key = NoKey
  BY <1>3 DEF EventsOf, HistoryOf
<1>7. ToldOfSelection
  BY <1>2, <1>3, <1>6 DEF ToldOfSelection
<1>8. FetchedForSelection
  BY <1>2, <1>3, <1>6 DEF FetchedForSelection
<1> QED
  BY <1>2, <1>4, <1>5, <1>7, <1>8 DEF DetailsInv, EventsFollow, RefusalTold

\* The hooks depend on the selected object, where there is one.
LEMMA Dependencies ==
  ASSUME NEW p \in PageState
  PROVE  /\ HasItem(p) => p.key \in Key
         /\ EventsOf(p) \in {NoKey, p.key} /\ EventsOf(p) \in Place
         /\ EventsOf(p) # NoKey => HasItem(p)
         /\ HistoryOf(p).key \in {NoKey, p.key} /\ HistoryOf(p).key \in Place
         /\ HistoryOf(p).key # NoKey =>
              /\ HasItem(p) /\ HistoryOf(p).key = p.key
              /\ HistoryOf(p).revision = Revision(p.items[p.key])
<1>1. p.key \in Place /\ NoKey \in Place
  BY DEF PageState, Place
<1>2. CASE HasItem(p) /\ resource = "helmreleases" /\ p.tab = "history"
  <2>1. HistoryOf(p) = [key |-> p.key, revision |-> Revision(VersionOf(p))]
    BY <1>2 DEF HistoryOf
  <2>2. VersionOf(p) = p.items[p.key]
    BY <1>2 DEF VersionOf
  <2> QED
    BY <1>1, <1>2, <2>1, <2>2 DEF HasItem, EventsOf, Place
<1>3. CASE ~(HasItem(p) /\ resource = "helmreleases" /\ p.tab = "history")
  <2>1. HistoryOf(p) = [key |-> NoKey]
    BY <1>3 DEF HistoryOf
  <2> QED
    BY <1>1, <2>1 DEF HasItem, EventsOf, Place
<1> QED
  BY <1>2, <1>3

\* The effects of a commit, by the hook whose they are.
LEMMA EventsEffects ==
  ASSUME DetailsTypeOK, EventsEffect, drawn' \in PageState, UNCHANGED resource
  PROVE  /\ ev' \in EventsState /\ stream' \in StreamState
         /\ \/ EventsOf(drawn') = EventsOf(drawn) /\ UNCHANGED eventVars
            \/ /\ ev'.events = {} /\ stream'.for = EventsOf(drawn') /\ stream'.queue = <<>>
               /\ stream'.conn \in {"closed", "connecting"}
               /\ stream'.conn # "closed" => stream'.for # NoKey
<1> DEFINE k == EventsOf(drawn')
<1>1. k \in Place
  BY Dependencies DEF EventsOf, HasItem
<1>2. CASE k = EventsOf(drawn)
  BY <1>2 DEF EventsEffect, eventVars, DetailsTypeOK
<1>3. CASE k # EventsOf(drawn)
  <2>1. ev' = NewEvents(k) /\ stream' = IF k = NoKey THEN Closed ELSE StreamFor(k)
    BY <1>3 DEF EventsEffect
  <2>2. ev' \in EventsState /\ stream' \in StreamState /\ ev'.events = {}
    BY <1>1, <2>1, Begins
  <2>3. CASE k = NoKey
    BY <2>1, <2>2, <2>3 DEF Closed, StreamTo
  <2>4. CASE k # NoKey
    BY <2>1, <2>2, <2>4 DEF StreamFor, StreamTo
  <2> QED
    BY <2>3, <2>4
<1> QED
  BY <1>2, <1>3

\* The effect of useHelmHistory: nothing, or another fetch or none.
LEMMA HistoryEffects ==
  ASSUME DetailsTypeOK, HistoryEffect, drawn' \in PageState, UNCHANGED resource
  PROVE  /\ hi' \in HistoryState /\ fetch' \in FetchState
         /\ \/ /\ HistoryOf(drawn') = HistoryOf(drawn) /\ drawn'.tab = drawn.tab
               /\ UNCHANGED historyVars
            \/ LET for == HistoryOf(drawn')
               IN  /\ hi'.of = NoKey /\ hi'.loading = (for.key # NoKey)
                   /\ fetch'.stage \in {"none", "sent"}
                   /\ fetch'.stage # "none" => fetch'.for = for.key /\ for.key # NoKey
<1> DEFINE for == HistoryOf(drawn')
<1>1. for.key \in Place
  BY Dependencies DEF HistoryOf, HasItem
<1>2. CASE for = HistoryOf(drawn) /\ drawn'.tab = drawn.tab
  BY <1>2 DEF HistoryEffect, historyVars, DetailsTypeOK
<1>3. CASE for # HistoryOf(drawn) \/ drawn'.tab # drawn.tab
  <2> DEFINE loading == for.key # NoKey
             key == for.key
  <2>1. /\ hi' = [NoHistory EXCEPT !.loading = loading] /\ loading \in BOOLEAN
        /\ fetch' = IF key = NoKey THEN NoFetch
                    ELSE [NoFetch EXCEPT !.for = key, !.stage = "sent"]
        /\ loading <=> key # NoKey
    BY <1>3 DEF HistoryEffect
  <2>2. loading = (for.key # NoKey) /\ key = for.key /\ key \in Place
    BY <1>1
  <2> HIDE DEF loading, key
  <2>3. hi' = [of |-> NoKey, revision |-> 0, loading |-> loading, error |-> ""]
    BY <2>1 DEF NoHistory
  <2>7. hi' \in HistoryState /\ hi'.of = NoKey
    <3>1. CASE loading
      <4>1. hi' = [of |-> NoKey, revision |-> 0, loading |-> TRUE, error |-> ""]
        BY <2>1, <2>3, <3>1
      <4> QED
        BY <4>1 DEF HistoryState, Place
    <3>2. CASE ~loading
      <4>1. hi' = [of |-> NoKey, revision |-> 0, loading |-> FALSE, error |-> ""]
        BY <2>1, <2>3, <3>2
      <4> QED
        BY <4>1 DEF HistoryState, Place
    <3> QED
      BY <3>1, <3>2
  <2>8. hi'.loading = loading
    BY <2>3, Zenon
  <2>4. hi' \in HistoryState /\ hi'.of = NoKey /\ hi'.loading = loading
    BY <2>7, <2>8
  <2>5. CASE key = NoKey
    <3>1. fetch' = NoFetch
      BY <2>1, <2>5
    <3>2. fetch' \in FetchState /\ fetch'.stage = "none"
      BY <3>1, Begins DEF NoFetch
    <3> QED
      BY <2>2, <2>4, <3>2
  <2>6. CASE key # NoKey
    <3>1. fetch' = [for |-> key, revision |-> 0, stage |-> "sent"]
      BY <2>1, <2>6 DEF NoFetch
    <3>2. fetch' \in FetchState /\ fetch'.stage = "sent" /\ fetch'.for = key
      BY <2>2, <3>1 DEF FetchState
    <3> QED
      BY <2>2, <2>4, <2>6, <3>2
  <2> QED
    BY <2>5, <2>6
<1> QED
  BY <1>2, <1>3

\* A commit keeps the invariant: what is drawn of a tab was told or fetched for the
\* object that was selected before, which is the one selected now or was lost.
LEMMA CommitKeeps ==
  ASSUME DetailsInv, NEW next \in PageState, Commit(next), next.items = page.items,
         next.tab = "yaml" \/ next.key = page.key
  PROVE  DetailsInv'
<1>1. /\ page' = next /\ drawn' = next /\ evDrawn' = ev /\ hiDrawn' = hi
      /\ EventsEffect /\ HistoryEffect /\ UNCHANGED serverVars
      /\ drawn' \in PageState
  BY DEF Commit
<1>2. UNCHANGED <<resource, truth, run, cache, refused>>
  BY <1>1 DEF serverVars, clusterVars, entryVars
<1>3. /\ DetailsTypeOK /\ drawn \in PageState /\ page \in PageState
      /\ drawn.items \in [Key -> Nat] /\ page.items \in [Key -> Nat]
      /\ next.items \in [Key -> Nat]
  BY DEF DetailsInv, DetailsTypeOK, PageState
<1>4. /\ EventsOf(drawn)' = EventsOf(drawn') /\ HistoryOf(drawn)' = HistoryOf(drawn')
      /\ HasItem(drawn)' = HasItem(drawn')
  BY <1>2 DEF EventsOf, HistoryOf, HasItem, VersionOf
<1>5. HasItem(drawn') /\ drawn'.tab # "yaml" => HasItem(drawn) /\ drawn.key = drawn'.key
  BY <1>1, <1>3, Dependencies DEF DetailsInv, InStep, Ahead, HasItem
<1>6. DetailsTypeOK'
  <2>1. ev' \in EventsState /\ stream' \in StreamState
    BY <1>1, <1>2, <1>3, EventsEffects
  <2>2. hi' \in HistoryState /\ fetch' \in FetchState
    BY <1>1, <1>2, <1>3, HistoryEffects
  <2> QED
    BY <1>1, <1>2, <1>3, <2>1, <2>2 DEF DetailsTypeOK
<1>7. InStep'
  BY <1>1, <1>2, <1>3 DEF DetailsInv, InStep, Ahead
<1>8. ToldOfSelection'
  <2>1. \/ EventsOf(drawn') = EventsOf(drawn) /\ UNCHANGED <<ev, stream>>
        \/ /\ ev'.events = {} /\ stream'.for = EventsOf(drawn') /\ stream'.queue = <<>>
           /\ stream'.conn \in {"closed", "connecting"}
           /\ stream'.conn # "closed" => stream'.for # NoKey
    BY <1>1, <1>2, <1>3, EventsEffects DEF eventVars
  <2>2. ASSUME HasItem(drawn'), drawn'.tab = "events", NEW e \in evDrawn'.events
        PROVE  EventMatches(e, Subject[drawn'.key])
    <3>1. stream.for # NoKey /\ EventMatches(e, Subject[stream.for])
      BY <1>1, <2>2 DEF DetailsInv, ToldOfSelection
    <3>2. stream.for = drawn.key
      BY <1>3, <3>1, Dependencies DEF DetailsInv, ToldOfSelection
    <3> QED
      BY <1>5, <2>2, <3>1, <3>2
  <2>3. CASE EventsOf(drawn') = EventsOf(drawn) /\ UNCHANGED <<ev, stream>>
    BY <1>4, <2>2, <2>3 DEF DetailsInv, ToldOfSelection
  <2>4. CASE /\ ev'.events = {} /\ stream'.for = EventsOf(drawn') /\ stream'.queue = <<>>
             /\ stream'.conn \in {"closed", "connecting"}
             /\ stream'.conn # "closed" => stream'.for # NoKey
    BY <1>4, <2>2, <2>4 DEF ToldOfSelection
  <2> QED
    BY <2>1, <2>3, <2>4
<1>9. EventsFollow' /\ RefusalTold'
  <2>1. CASE UNCHANGED <<ev, stream>>
    BY <1>2, <2>1 DEF DetailsInv, EventsFollow, UpToDate, Matching, RefusalTold
  <2>2. CASE stream'.conn \in {"closed", "connecting"}
    BY <1>2, <2>2 DEF DetailsInv, EventsFollow, RefusalTold
  <2> QED
    BY <1>1, <1>2, <1>3, <2>1, <2>2, EventsEffects DEF eventVars
<1>10. FetchedForSelection'
  <2> DEFINE for == HistoryOf(drawn')
  <2>1. HasItem(drawn') /\ drawn'.tab = "history" => hiDrawn'.of \in {NoKey, drawn'.key}
    BY <1>1, <1>3, <1>5, Dependencies DEF DetailsInv, FetchedForSelection
  <2>2. CASE for = HistoryOf(drawn) /\ UNCHANGED <<hi, fetch>>
    <3>1. /\ hi.of \in {NoKey, for.key}
          /\ fetch.stage # "none" => fetch.for = for.key /\ for.key # NoKey
          /\ fetch.stage = "read" => fetch.revision >= for.revision
          /\ for.key # NoKey /\ ~hi.loading /\ hi.error = "" => hi.revision >= for.revision
      BY <2>2 DEF DetailsInv, FetchedForSelection
    <3> HIDE DEF for
    <3> QED
      BY <1>4, <2>1, <2>2, <3>1 DEF FetchedForSelection, for
  <2>3. CASE /\ hi'.of = NoKey /\ hi'.loading = (for.key # NoKey)
             /\ fetch'.stage \in {"none", "sent"}
             /\ fetch'.stage # "none" => fetch'.for = for.key /\ for.key # NoKey
    BY <1>4, <2>1, <2>3 DEF FetchedForSelection
  <2> QED
    BY <1>1, <1>2, <1>3, <2>2, <2>3, HistoryEffects DEF historyVars
<1> QED
  BY <1>6, <1>7, <1>8, <1>9, <1>10 DEF DetailsInv

-----------------------------------------------------------------------------
(* Steps that no hook takes part in, and those of the fetch.               *)

\* The editor is no part of the invariant.
LEMMA EditorKeeps ==
  ASSUME DetailsInv,
         UNCHANGED <<serverVars, page, drawn, evDrawn, hiDrawn, eventVars, historyVars>>
  PROVE  DetailsInv'
<1>1. /\ UNCHANGED <<resource, truth, run, cache, refused, page, drawn>>
      /\ UNCHANGED <<ev, evDrawn, stream, hi, hiDrawn, fetch>>
  BY DEF serverVars, clusterVars, entryVars, eventVars, historyVars
<1>2. DetailsTypeOK' /\ InStep'
  BY <1>1 DEF DetailsInv, DetailsTypeOK, InStep, Ahead
<1>3. ToldOfSelection'
  BY <1>1 DEF DetailsInv, ToldOfSelection, EventsOf, HasItem
<1>4. EventsFollow' /\ RefusalTold'
  BY <1>1 DEF DetailsInv, EventsFollow, UpToDate, Matching, RefusalTold
<1>5. FetchedForSelection'
  BY <1>1 DEF DetailsInv, FetchedForSelection, HistoryOf, HasItem, VersionOf
<1> QED
  BY <1>2, <1>3, <1>4, <1>5 DEF DetailsInv

\* The hooks look at what is drawn, not at the cluster's objects or the queued page.
LEMMA ObjectsKeep ==
  ASSUME DetailsInv, NEW k \in Key, ObjectChanges(k) \/ PageReceives(k)
  PROVE  DetailsInv'
<1>1. /\ UNCHANGED <<resource, run, cache, refused, drawn>>
      /\ UNCHANGED <<ev, evDrawn, stream, hi, hiDrawn, fetch>>
  BY DEF ObjectChanges, PageReceives, serverVars, clusterVars, entryVars, pageVars, eventVars,
         historyVars
<1>2. /\ DetailsTypeOK /\ page.items \in [Key -> Nat] /\ drawn.items \in [Key -> Nat]
      /\ truth \in [Key -> Nat]
  BY DEF DetailsInv, DetailsTypeOK, PageState
<1>3. page' \in PageState /\ truth' \in [Key -> Nat] /\ InStep'
  <2>1. CASE ObjectChanges(k)
    <3>1. UNCHANGED page /\ truth' \in [Key -> Nat]
      BY <1>2, <2>1 DEF ObjectChanges, pageVars
    <3>2. /\ truth[k] > 0 /\ truth[k] = page.items[k]
          /\ truth'[k] = truth[k] + 1 \/ truth'[k] = 0
          /\ \A l \in Key : l # k => truth'[l] = truth[l]
      BY <1>2, <2>1 DEF ObjectChanges
    <3>3. ASSUME NEW l \in Key PROVE Ahead(l)'
      <4>1. Ahead(l)
        BY DEF DetailsInv, InStep
      <4> QED
        BY <1>1, <1>2, <3>1, <3>2, <4>1 DEF Ahead
    <3> QED
      BY <1>1, <1>2, <3>1, <3>3 DEF DetailsInv, DetailsTypeOK, InStep
  <2>2. CASE PageReceives(k)
    <3>1. /\ page' \in PageState /\ UNCHANGED truth
          /\ page'.items = [page.items EXCEPT ![k] = page'.items[k]]
          /\ \/ page.items[k] < truth[k] /\ page'.items[k] = page.items[k] + 1
             \/ truth[k] = 0 /\ page'.items[k] = 0
          /\ page'.key \in {page.key, NoKey}
      BY <1>2, <2>2, Receives DEF serverVars, clusterVars
    <3>2. \A l \in Key : l # k => page'.items[l] = page.items[l]
      BY <1>2, <3>1
    <3>3. ASSUME NEW l \in Key PROVE Ahead(l)'
      <4>1. Ahead(l)
        BY DEF DetailsInv, InStep
      <4> QED
        BY <1>1, <1>2, <3>1, <3>2, <4>1 DEF Ahead
    <3> QED
      BY <1>1, <1>2, <3>1, <3>3 DEF DetailsInv, InStep
  <2> QED
    BY <2>1, <2>2
<1>4. DetailsTypeOK'
  BY <1>1, <1>2, <1>3 DEF DetailsTypeOK
<1>5. ToldOfSelection'
  BY <1>1 DEF DetailsInv, ToldOfSelection, EventsOf, HasItem
<1>6. EventsFollow' /\ RefusalTold'
  BY <1>1 DEF DetailsInv, EventsFollow, UpToDate, Matching, RefusalTold
<1>7. FetchedForSelection'
  BY <1>1 DEF DetailsInv, FetchedForSelection, HistoryOf, HasItem, VersionOf
<1> QED
  BY <1>3, <1>4, <1>5, <1>6, <1>7 DEF DetailsInv

\* A later version does not have an earlier revision.
LEMMA RevisionGrows == \A m, n \in Nat : m <= n => Revision(m) <= Revision(n) /\ Revision(m) \in Nat
  BY DEF Revision

\* The server reads the storage after the fetch was sent: it has the revision of the
\* release that is drawn, or a later one.
LEMMA AnswersKeep ==
  ASSUME DetailsInv, ServerAnswers \/ AnswerArrives
  PROVE  DetailsInv'
<1>1. UNCHANGED <<resource, truth, run, cache, refused, page, drawn, ev, evDrawn, stream, hiDrawn>>
  BY DEF ServerAnswers, AnswerArrives, serverVars, clusterVars, entryVars, pageVars, eventVars
<1>2. /\ DetailsTypeOK /\ InStep /\ FetchedForSelection
      /\ fetch \in FetchState /\ hi \in HistoryState /\ drawn \in PageState
      /\ truth \in [Key -> Nat] /\ page.items \in [Key -> Nat] /\ drawn.items \in [Key -> Nat]
  BY DEF DetailsInv, DetailsTypeOK, PageState
<1>3. InStep' /\ ToldOfSelection' /\ EventsFollow' /\ RefusalTold'
  BY <1>1 DEF DetailsInv, InStep, Ahead, ToldOfSelection, EventsOf, HasItem, EventsFollow,
              UpToDate, Matching, RefusalTold
<1> DEFINE for == HistoryOf(drawn)
<1>4. HistoryOf(drawn)' = for /\ HasItem(drawn)' = HasItem(drawn)
  BY <1>1 DEF HistoryOf, HasItem, VersionOf
<1>5. /\ hi.of \in {NoKey, for.key}
      /\ fetch.stage # "none" => fetch.for = for.key /\ for.key # NoKey
      /\ HasItem(drawn) /\ drawn.tab = "history" => hiDrawn.of \in {NoKey, drawn.key}
      /\ fetch.stage = "read" => fetch.revision >= for.revision
      /\ for.key # NoKey /\ ~hi.loading /\ hi.error = "" => hi.revision >= for.revision
  BY <1>2 DEF FetchedForSelection
<1>6. CASE ServerAnswers
  <2>1. fetch.stage = "sent" /\ UNCHANGED hi
    BY <1>6 DEF ServerAnswers
  <2>2. CASE /\ truth[fetch.for] > 0
             /\ fetch' = [fetch EXCEPT !.stage = "read", !.revision = Revision(truth[fetch.for])]
    <3>1. /\ HasItem(drawn) /\ for.key = drawn.key /\ for.key = fetch.for /\ drawn.key \in Key
          /\ for.revision = Revision(drawn.items[drawn.key])
      BY <1>2, <1>5, <2>1, Dependencies
    <3>2. /\ drawn.items[drawn.key] <= truth[fetch.for]
          /\ drawn.items[drawn.key] \in Nat /\ truth[fetch.for] \in Nat
      BY <1>2, <2>2, <3>1 DEF InStep, Ahead
    <3> DEFINE r == Revision(truth[fetch.for])
    <3>8. r \in Nat /\ Revision(drawn.items[drawn.key]) \in Nat
          /\ Revision(drawn.items[drawn.key]) <= r
      BY <3>2, RevisionGrows
    <3>3. r \in Nat /\ for.revision <= r /\ for.revision \in Nat
      BY <3>1, <3>8
    <3>4. fetch' = [fetch EXCEPT !.stage = "read", !.revision = r]
      BY <2>2
    <3> HIDE DEF r
    <3>5. fetch' \in FetchState /\ fetch'.for = fetch.for /\ fetch'.stage = "read"
          /\ fetch'.revision = r
      BY <1>2, <3>3, <3>4 DEF FetchState
    <3>6. fetch'.revision >= for.revision
      BY <3>3, <3>5
    <3> HIDE DEF for
    <3>7. FetchedForSelection'
      BY <1>1, <1>4, <1>5, <2>1, <3>5, <3>6 DEF FetchedForSelection
    <3> QED
      BY <1>1, <1>2, <1>3, <2>1, <3>5, <3>7 DEF DetailsInv, DetailsTypeOK
  <2>3. CASE fetch' = [fetch EXCEPT !.stage = "failed"]
    <3>1. fetch' \in FetchState /\ fetch'.for = fetch.for /\ fetch'.stage = "failed"
      BY <1>2, <2>3, FetchFails
    <3> HIDE DEF for
    <3>2. FetchedForSelection'
      BY <1>1, <1>4, <1>5, <2>1, <3>1 DEF FetchedForSelection
    <3> QED
      BY <1>1, <1>2, <1>3, <2>1, <3>1, <3>2 DEF DetailsInv, DetailsTypeOK
  <2> QED
    BY <1>6, <2>2, <2>3 DEF ServerAnswers
<1>7. CASE AnswerArrives
  <2>1. fetch' \in FetchState /\ fetch'.stage = "none"
    BY <1>7, Begins DEF AnswerArrives, NoFetch
  <2>2. CASE fetch.stage = "failed"
    <3>1. hi' = [of |-> hi.of, revision |-> hi.revision, loading |-> FALSE, error |-> "failed"]
      <4>1. hi' = [hi EXCEPT !.loading = FALSE, !.error = "failed"]
        BY <1>7, <2>2 DEF AnswerArrives
      <4> QED
        BY <1>2, <4>1, HistoryFails
    <3>2. hi' \in HistoryState /\ hi'.of = hi.of /\ hi'.error = "failed"
      BY <1>2, <3>1 DEF HistoryState
    <3> HIDE DEF for
    <3>3. FetchedForSelection'
      BY <1>1, <1>4, <1>5, <2>1, <3>2 DEF FetchedForSelection
    <3> QED
      BY <1>1, <1>2, <1>3, <2>1, <3>2, <3>3 DEF DetailsInv, DetailsTypeOK
  <2>3. CASE fetch.stage = "read"
    <3>1. hi' = [of |-> fetch.for, revision |-> fetch.revision, loading |-> FALSE, error |-> ""]
      BY <1>7, <2>3 DEF AnswerArrives
    <3>2. hi' \in HistoryState /\ hi'.of = fetch.for /\ hi'.revision = fetch.revision
      BY <1>2, <3>1 DEF HistoryState, FetchState
    <3> HIDE DEF for
    <3>3. FetchedForSelection'
      BY <1>1, <1>4, <1>5, <2>1, <2>3, <3>2 DEF FetchedForSelection
    <3> QED
      BY <1>1, <1>2, <1>3, <2>1, <3>2, <3>3 DEF DetailsInv, DetailsTypeOK
  <2> QED
    BY <1>7, <2>2, <2>3 DEF AnswerArrives
<1> QED
  BY <1>6, <1>7

-----------------------------------------------------------------------------
(* The stream of events.                                                   *)

\* What a step of the stream or of the entry has to show.
LEMMA StreamKeeps ==
  ASSUME DetailsInv, StreamSteps,
         run' \in Runs, cache' \subseteq Event, refused' \in BOOLEAN,
         ev' \in EventsState, ev'.events = ev.events,
         stream' \in StreamState, stream'.for = stream.for,
         stream'.conn # "closed" => stream.for # NoKey,
         stream'.conn # "open" => stream'.queue = <<>>,
         EventsFollow', RefusalTold'
  PROVE  DetailsInv'
<1>1. UNCHANGED <<resource, truth, page, drawn, evDrawn, hi, hiDrawn, fetch>>
  BY DEF StreamSteps, pageVars, historyVars
<1>2. DetailsTypeOK' /\ InStep' /\ FetchedForSelection'
  BY <1>1 DEF DetailsInv, DetailsTypeOK, InStep, Ahead, FetchedForSelection, HistoryOf, HasItem,
              VersionOf
<1>3. ToldOfSelection'
  BY <1>1 DEF DetailsInv, ToldOfSelection, EventsOf, HasItem
<1> QED
  BY <1>2, <1>3 DEF DetailsInv

\* Messages that say what becomes of an event: the last one that speaks of it is right,
\* or none does and it stays as it was.
Silent(ms, e) == \A i \in 1..Len(ms) : ~Says(ms[i], e)
EndsRight(ms, e) ==
  \E i \in 1..Len(ms) : /\ Says(ms[i], e) /\ \A j \in i + 1..Len(ms) : ~Says(ms[j], e)
                        /\ Gives(ms[i], e) <=> e \in cache'
Right(ms, e) == EndsRight(ms, e) \/ (Silent(ms, e) /\ (e \in cache' <=> e \in cache))

\* What a broadcast adds to a stream.
LEMMA Broadcast ==
  ASSUME DetailsInv, NEW ms \in Seq(Told), stream' = Sent(ms)
  PROVE  /\ stream' \in StreamState /\ stream'.for = stream.for /\ stream'.conn = stream.conn
         /\ stream.conn # "open" => stream' = stream
         /\ stream.conn = "open" =>
              /\ stream'.queue = stream.queue \o ms
              /\ stream'.told <=>
                   stream.told \/ \E i \in DOMAIN ms : ms[i].type = "SNAPSHOT"
<1>1. stream \in StreamState /\ stream.queue \in Seq(Told)
  BY DEF DetailsInv, DetailsTypeOK, StreamState
<1>2. CASE stream.conn # "open"
  BY <1>1, <1>2 DEF Sent
<1>3. CASE stream.conn = "open"
  <2> DEFINE x == stream.queue \o ms
             told == stream.told \/ \E i \in DOMAIN ms : ms[i].type = "SNAPSHOT"
  <2>1. x \in Seq(Told) /\ told \in BOOLEAN
    BY <1>1
  <2>2. stream' = [stream EXCEPT !.queue = x, !.told = told]
    BY <1>3 DEF Sent
  <2> HIDE DEF x, told
  <2>3. /\ stream' \in StreamState /\ stream'.for = stream.for /\ stream'.conn = stream.conn
        /\ stream'.queue = x /\ stream'.told = told
    BY <1>1, <2>1, <2>2 DEF StreamState
  <2> QED
    BY <1>3, <2>3 DEF x, told
<1> QED
  BY <1>2, <1>3

\* What was true of an event is true after messages that are right about it.
LEMMA RightKeeps ==
  ASSUME DetailsInv, NEW ms \in Seq(Told), stream' = Sent(ms), UNCHANGED ev,
         stream.conn = "open", NEW e \in Event, Right(ms, e)
  PROVE  UpToDate(e)'
<1> DEFINE q == stream.queue
           x == stream'.queue
<1>1. /\ stream'.for = stream.for /\ x = q \o ms
      /\ stream'.told <=> stream.told \/ \E i \in DOMAIN ms : ms[i].type = "SNAPSHOT"
  BY Broadcast
<1>2. q \in Seq(Told) /\ UpToDate(e)
  BY DEF DetailsInv, DetailsTypeOK, StreamState, EventsFollow
<1>3. /\ Len(x) = Len(q) + Len(ms) /\ Len(q) \in Nat /\ Len(ms) \in Nat
      /\ \A i \in 1..Len(q) : x[i] = q[i]
      /\ \A i \in 1..Len(ms) : x[Len(q) + i] = ms[i]
  BY <1>1, <1>2
<1> HIDE DEF q, x
<1>4. CASE EndsRight(ms, e)
  <2>1. PICK k \in 1..Len(ms) : /\ Says(ms[k], e) /\ \A j \in k + 1..Len(ms) : ~Says(ms[j], e)
                                /\ Gives(ms[k], e) <=> e \in cache'
    BY <1>4 DEF EndsRight
  <2>2. Len(q) + k \in 1..Len(x) /\ x[Len(q) + k] = ms[k]
    BY <1>3
  <2>3. ASSUME NEW i \in 1..Len(x), Says(x[i], e), \A j \in i + 1..Len(x) : ~Says(x[j], e)
        PROVE  i = Len(q) + k
    <3>1. i >= Len(q) + k
      BY <1>3, <2>1, <2>2, <2>3
    <3>2. i - Len(q) \in 1..Len(ms) /\ Len(q) + (i - Len(q)) = i
      BY <1>3, <3>1
    <3>3. Says(ms[i - Len(q)], e)
      BY <1>3, <2>3, <3>2
    <3>4. i - Len(q) \notin k + 1..Len(ms)
      BY <2>1, <3>3
    <3>5. i \in Nat /\ k \in Nat /\ Len(q) \in Nat
      BY <1>3
    <3>6. i <= Len(q) + k
      BY <1>3, <3>2, <3>4, <3>5
    <3> QED
      BY <3>1, <3>5, <3>6
  <2>4. ~\A i \in 1..Len(x) : ~Says(x[i], e)
    BY <2>1, <2>2
  <2> QED
    BY <2>1, <2>2, <2>3, <2>4 DEF UpToDate, x
<1>5. CASE Silent(ms, e) /\ (e \in cache' <=> e \in cache)
  <2>1. ASSUME NEW i \in 1..Len(x), Says(x[i], e) PROVE i \in 1..Len(q) /\ x[i] = q[i]
    <3>1. CASE i > Len(q)
      <4>1. i - Len(q) \in 1..Len(ms) /\ Len(q) + (i - Len(q)) = i
        BY <1>3, <3>1
      <4>2. Says(ms[i - Len(q)], e)
        BY <1>3, <2>1, <4>1
      <4> QED
        BY <1>5, <4>1, <4>2 DEF Silent
    <3>2. CASE ~(i > Len(q))
      BY <1>3, <3>2
    <3> QED
      BY <3>1, <3>2
  <2>2. \A i \in 1..Len(q) : i \in 1..Len(x) /\ x[i] = q[i]
    BY <1>3
  <2>3. ASSUME NEW i \in 1..Len(x), Says(x[i], e), \A j \in i + 1..Len(x) : ~Says(x[j], e)
        PROVE  Gives(x[i], e) <=> e \in cache'
    <3>1. i \in 1..Len(q) /\ x[i] = q[i]
      BY <2>1, <2>3
    <3>2. \A j \in i + 1..Len(q) : ~Says(q[j], e)
      BY <1>3, <2>2, <2>3, <3>1
    <3> QED
      BY <1>2, <1>5, <2>3, <3>1, <3>2 DEF UpToDate, q
  <2>4. ASSUME stream'.told, \A i \in 1..Len(x) : ~Says(x[i], e)
        PROVE  e \in ev.events <=> e \in Matching(stream.for, cache')
    <3>1. \A i \in DOMAIN ms : i \in 1..Len(ms) /\ ms[i].type # "SNAPSHOT"
      BY <1>5 DEF Silent, Says
    <3>2. stream.told
      BY <1>1, <2>4, <3>1
    <3>3. \A i \in 1..Len(q) : ~Says(q[i], e)
      BY <2>2, <2>4
    <3>4. e \in ev.events <=> e \in Matching(stream.for, cache)
      BY <1>2, <3>2, <3>3 DEF UpToDate, q
    <3> QED
      BY <1>5, <3>4 DEF Matching
  <2> QED
    BY <1>1, <2>3, <2>4 DEF UpToDate, Matching, x
<1> QED
  BY <1>4, <1>5 DEF Right

\* The last of some messages after others.
LEMMA LastOfBoth ==
  ASSUME NEW S, NEW q \in Seq(S), NEW ms \in Seq(S), Len(ms) \in Nat \ {0}
  PROVE  q \o ms # <<>> /\ (q \o ms)[Len(q \o ms)] = ms[Len(ms)]
<1>1. /\ q \o ms \in Seq(S) /\ Len(q \o ms) = Len(q) + Len(ms)
      /\ \A i \in 1..Len(q) + Len(ms) :
           (q \o ms)[i] = IF i <= Len(q) THEN q[i] ELSE ms[i - Len(q)]
  BY ConcatProperties
<1>2. /\ Len(q) \in Nat /\ Len(q) + Len(ms) \in 1..Len(q) + Len(ms)
      /\ ~(Len(q) + Len(ms) <= Len(q)) /\ Len(q) + Len(ms) - Len(q) = Len(ms)
      /\ Len(q) + Len(ms) # 0
  OBVIOUS
<1>3. (q \o ms)[Len(q) + Len(ms)] = ms[Len(ms)]
  BY <1>1, <1>2
<1> QED
  BY <1>1, <1>2, <1>3

\* A step of the run keeps the invariant if what it tells is right about every event,
\* and ends with the error while the entry is refused.
LEMMA RunKeeps ==
  ASSUME DetailsInv, NEW next \in Runs, NEW ms \in Seq(Told), RunGoes(next, ms),
         cache' \subseteq Event, refused' \in BOOLEAN,
         \A e \in Event : Right(ms, e),
         refused' => next \in {"returning", "none", "listing"},
         refused' => IF ms = <<>> THEN refused ELSE ms[Len(ms)].type = "ERROR"
  PROVE  DetailsInv'
<1>1. StreamSteps /\ UNCHANGED ev /\ run' = next /\ stream' = Sent(ms)
  BY DEF RunGoes
<1>2. /\ stream' \in StreamState /\ stream'.for = stream.for /\ stream'.conn = stream.conn
      /\ stream.conn # "open" => stream' = stream
      /\ stream.conn = "open" => stream'.queue = stream.queue \o ms
      /\ stream.conn = "open" =>
           (stream'.told <=> stream.told \/ \E i \in DOMAIN ms : ms[i].type = "SNAPSHOT")
  BY <1>1, Broadcast
<1>3. /\ stream.queue \in Seq(Told) /\ ev' \in EventsState /\ ev'.events = ev.events
      /\ stream.conn # "closed" => stream.for # NoKey
      /\ stream.conn # "open" => stream.queue = <<>>
  BY <1>1 DEF DetailsInv, DetailsTypeOK, StreamState, ToldOfSelection
<1>4. EventsFollow'
  BY <1>1, <1>2, RightKeeps DEF EventsFollow
<1>5. RefusalTold'
  <2> SUFFICES ASSUME refused', stream.conn = "open", stream'.told
               PROVE  IF stream'.queue = <<>> THEN ev'.error = "server"
                      ELSE stream'.queue[Len(stream'.queue)].type = "ERROR"
    BY <1>1, <1>2 DEF RefusalTold
  <2>1. CASE ms = <<>>
    <3>1. stream'.queue = stream.queue /\ stream.told /\ refused
      BY <1>2, <1>3, <2>1
    <3>2. IF stream.queue = <<>> THEN ev.error = "server"
          ELSE stream.queue[Len(stream.queue)].type = "ERROR"
      BY <3>1 DEF DetailsInv, RefusalTold
    <3> QED
      BY <1>1, <3>1, <3>2
  <2>2. CASE ms # <<>>
    <3>3. Len(ms) \in Nat \ {0}
      BY <2>2
    <3>4. Len(ms) \in 1..Len(ms)
      BY <3>3
    <3>6. stream'.queue = stream.queue \o ms
      BY <1>2
    <3>7. stream.queue \in Seq(Told)
      BY <1>3
    <3>1. /\ Len(ms) \in 1..Len(ms) /\ Len(stream'.queue) = Len(stream.queue) + Len(ms)
          /\ stream.queue \in Seq(Told)
      BY <3>4, <3>6, <3>7
    <3>2. stream'.queue # <<>> /\ stream'.queue[Len(stream'.queue)] = ms[Len(ms)]
      BY <3>3, <3>6, <3>7, LastOfBoth
    <3>5. ms[Len(ms)].type = "ERROR"
      BY <2>2
    <3> QED
      BY <3>2, <3>5
  <2> QED
    BY <2>1, <2>2
<1> QED
  BY <1>1, <1>2, <1>3, <1>4, <1>5, StreamKeeps

\* A failure, or nothing, says nothing of an event.
LEMMA SaysNothing ==
  ASSUME NEW ms \in {<<>>, <<Error>>}
  PROVE  /\ ms \in Seq(Told) /\ \A e : Silent(ms, e)
         /\ ms # <<>> => ms[Len(ms)].type = "ERROR"
<1>1. Error \in Told /\ Error.type = "ERROR"
  BY DEF Error, Told
<1>2. CASE ms = <<>>
  BY <1>2 DEF Silent
<1>3. CASE ms = <<Error>>
  <2>1. ms \in Seq(Told) /\ Len(ms) = 1 /\ ms[1] = Error
    BY <1>1, <1>3
  <2>2. \A e : ~Says(Error, e)
    BY <1>1 DEF Says
  <2> QED
    BY <1>1, <2>1, <2>2 DEF Silent
<1> QED
  BY <1>2, <1>3

\* A list tells of every event.
LEMMA ListKeeps ==
  ASSUME DetailsInv, ListSucceeds
  PROVE  DetailsInv'
<1> DEFINE snapshot == SnapshotOf(cache')
           ms == <<snapshot, Synced>>
<1>1. cache' \subseteq Event /\ refused' = FALSE /\ RunGoes("starting", ms)
  BY DEF ListSucceeds
<1>2. /\ snapshot \in Told /\ Synced \in Told
      /\ snapshot.type = "SNAPSHOT" /\ snapshot.objects = cache' /\ Synced.type = "SYNCED"
  BY <1>1 DEF Told, SnapshotOf, Synced
<1> HIDE DEF snapshot
<1>3. ms \in Seq(Told) /\ Len(ms) = 2 /\ ms[1] = snapshot /\ ms[2] = Synced
  BY <1>2
<1> HIDE DEF ms
<1>4. ASSUME NEW e \in Event PROVE Right(ms, e)
  <2>1. Says(snapshot, e) /\ ~Says(Synced, e) /\ (Gives(snapshot, e) <=> e \in cache')
    BY <1>2 DEF Says, Gives
  <2>2. 1 \in 1..Len(ms) /\ \A j \in 1 + 1..Len(ms) : j = 2
    BY <1>3
  <2> QED
    BY <1>3, <2>1, <2>2 DEF Right, EndsRight
<1> QED
  BY <1>1, <1>3, <1>4, RunKeeps DEF Runs

\* An event that changes is told, and only that one.
LEMMA DeliversKeeps ==
  ASSUME DetailsInv, NEW e \in Event, WatchDelivers(e)
  PROVE  DetailsInv'
<1>1. cache \subseteq Event /\ run = "watching" /\ UNCHANGED refused /\ refused = FALSE
  BY DEF DetailsInv, DetailsTypeOK, RefusalTold, WatchDelivers
<1>2. PICK m \in Told :
        /\ RunGoes("watching", <<m>>)
        /\ m.type \in {"ADDED", "DELETED"} /\ m.object = e
        /\ m.type = "ADDED" <=> e \in cache'
        /\ cache' \subseteq Event /\ \A x \in Event : x # e => (x \in cache' <=> x \in cache)
  <2>1. CASE e \in cache
    <3> DEFINE m == [type |-> "DELETED", object |-> e]
    <3>1. m \in Told /\ m.type = "DELETED" /\ m.object = e
      BY DEF Told
    <3> QED
      BY <1>1, <2>1, <3>1 DEF WatchDelivers
  <2>2. CASE e \notin cache
    <3> DEFINE m == [type |-> "ADDED", object |-> e]
    <3>1. m \in Told /\ m.type = "ADDED" /\ m.object = e
      BY DEF Told
    <3> QED
      BY <1>1, <2>2, <3>1 DEF WatchDelivers
  <2> QED
    BY <2>1, <2>2
<1> DEFINE ms == <<m>>
<1>3. ms \in Seq(Told) /\ Len(ms) = 1 /\ ms[1] = m /\ RunGoes("watching", ms)
  BY <1>2
<1> HIDE DEF ms
<1>4. ASSUME NEW x \in Event PROVE Right(ms, x)
  <2>1. CASE x = e
    BY <1>2, <1>3, <2>1 DEF Right, EndsRight, Says, Gives
  <2>2. CASE x # e
    BY <1>2, <1>3, <2>2 DEF Right, Silent, Says
  <2> QED
    BY <2>1, <2>2
<1> QED
  BY <1>1, <1>2, <1>3, <1>4, RunKeeps DEF Runs

\* A step that finds nothing new tells at most that something failed.
LEMMA QuietKeeps ==
  ASSUME DetailsInv, NEW next \in Runs, NEW ms \in {<<>>, <<Error>>}, RunGoes(next, ms),
         UNCHANGED cache, refused' \in BOOLEAN,
         refused' => next \in {"returning", "none", "listing"},
         refused' /\ ms = <<>> => refused
  PROVE  DetailsInv'
<1>1. cache' \subseteq Event
  BY DEF DetailsInv, DetailsTypeOK
<1>2. /\ ms \in Seq(Told) /\ \A e \in Event : Right(ms, e)
      /\ ms # <<>> => ms[Len(ms)].type = "ERROR"
  BY SaysNothing DEF Right
<1> QED
  BY <1>1, <1>2, RunKeeps

\* Every step of the run keeps the invariant.
LEMMA RunStepsKeep ==
  ASSUME DetailsInv,
         \/ \E e \in Event : WatchDelivers(e)
         \/ OthersSubscribe \/ IdleStop \/ Returns
         \/ ListSucceeds \/ ListFails \/ Forbidden \/ WatchOpens \/ WatchEnds
  PROVE  DetailsInv'
<1> DEFINE Nothing == <<>>
           Failure == <<Error>>
<1>1. /\ refused \in BOOLEAN
      /\ refused => run \in {"returning", "none", "listing"}
      /\ Nothing \in {<<>>, <<Error>>} /\ Failure \in {<<>>, <<Error>>} /\ Failure # <<>>
  BY DEF DetailsInv, DetailsTypeOK, RefusalTold
<1>2. CASE \E e \in Event : WatchDelivers(e)
  BY <1>2, DeliversKeeps
<1>3. CASE ListSucceeds
  BY <1>3, ListKeeps
<1>4. CASE OthersSubscribe \/ IdleStop \/ Returns
  BY <1>1, <1>4, QuietKeeps DEF OthersSubscribe, IdleStop, Returns, Runs
<1>5. CASE ListFails \/ WatchEnds \/ WatchOpens
  BY <1>1, <1>5, QuietKeeps DEF ListFails, WatchEnds, WatchOpens, Runs
<1>6. CASE Forbidden
  <2>1. RunGoes("returning", Failure) /\ refused' = TRUE /\ UNCHANGED cache
    BY <1>6 DEF Forbidden
  <2>2. "returning" \in Runs
    BY DEF Runs
  <2> HIDE DEF Failure
  <2> QED
    BY <1>1, <2>1, <2>2, QuietKeeps
<1> QED
  BY <1>2, <1>3, <1>4, <1>5, <1>6

\* A page that stores the entry is not told anything yet.
LEMMA CreatesKeeps ==
  ASSUME DetailsInv, Creates
  PROVE  DetailsInv'
<1>1. /\ stream \in StreamState /\ ev \in EventsState
      /\ stream.for # NoKey /\ stream.queue = <<>>
      /\ cache \subseteq Event /\ refused \in BOOLEAN
      /\ run' = "none" /\ StreamSteps /\ UNCHANGED <<cache, refused, ev>>
  BY DEF DetailsInv, DetailsTypeOK, ToldOfSelection, Creates
<1>2. /\ stream' \in StreamState /\ stream'.for = stream.for /\ stream'.conn = "creating"
      /\ stream'.queue = <<>>
  <2>1. stream' = [stream EXCEPT !.conn = "creating"]
    BY DEF Creates
  <2> QED
    BY <1>1, <2>1 DEF StreamState
<1>3. EventsFollow' /\ RefusalTold' /\ run' \in Runs
  BY <1>1, <1>2 DEF EventsFollow, RefusalTold, Runs
<1> QED
  BY <1>1, <1>2, <1>3, StreamKeeps

\* A connection begins with what the entry has, and with its refusal; that of the page
\* that stored it, with nothing.
LEMMA JoinsKeeps ==
  ASSUME DetailsInv, Joins
  PROVE  DetailsInv'
<1> DEFINE told == stream.conn = "connecting"
           last == IF refused THEN Error ELSE Synced
           snapshot == SnapshotOf(cache)
           x == Greeting
<1>1. /\ stream \in StreamState /\ ev \in EventsState /\ stream.for # NoKey
      /\ stream.conn \in {"connecting", "creating"}
      /\ cache \subseteq Event /\ refused \in BOOLEAN /\ run \in Runs
      /\ StreamSteps /\ UNCHANGED <<cache, refused, ev>>
      /\ run' = IF run = "none" THEN "listing" ELSE run
      /\ refused => run \in {"returning", "none", "listing"}
  BY DEF DetailsInv, DetailsTypeOK, ToldOfSelection, RefusalTold, Joins
<1>2. /\ snapshot \in Told /\ snapshot.type = "SNAPSHOT" /\ snapshot.objects = cache
      /\ last \in Told /\ last.type \in {"ERROR", "SYNCED"}
      /\ refused => last.type = "ERROR"
  BY <1>1 DEF Told, SnapshotOf, Error, Synced
<1>3. stream' = [stream EXCEPT !.conn = "open", !.queue = x, !.told = told] /\ told \in BOOLEAN
  BY DEF Joins
<1>4. /\ x \in Seq(Told)
      /\ IF told THEN Len(x) = 2 /\ x[1] = snapshot /\ x[2] = last ELSE x = <<>>
  <2>1. CASE told
    <3>1. x = <<snapshot, last>>
      BY <2>1 DEF Greeting
    <3> HIDE DEF snapshot, last, told, x
    <3> QED
      BY <1>2, <2>1, <3>1
  <2>2. CASE ~told
    BY <1>1, <2>2 DEF Greeting
  <2> QED
    BY <2>1, <2>2
<1> HIDE DEF snapshot, last, told, x
<1>5. /\ stream' \in StreamState /\ stream'.for = stream.for /\ stream'.conn = "open"
      /\ stream'.queue = x /\ stream'.told = told
  BY <1>1, <1>3, <1>4 DEF StreamState
<1>6. ASSUME NEW e \in Event PROVE UpToDate(e)'
  <2>1. CASE told
    <3>1. /\ Says(x[1], e) /\ ~Says(x[2], e)
          /\ Gives(x[1], e) <=> e \in cache
      BY <1>2, <1>4, <2>1 DEF Says, Gives
    <3>5. Len(x) = 2
      BY <1>4, <2>1
    <3>2. 1..Len(x) = {1, 2}
      BY <3>5
    <3>3. \A i \in 1..Len(x) : Says(x[i], e) => (Gives(x[i], e) <=> e \in cache)
      BY <3>1, <3>2
    <3>4. 1 \in 1..Len(x) /\ Says(x[1], e)
      BY <3>1, <3>2
    <3> QED
      BY <1>1, <1>5, <3>3, <3>4 DEF UpToDate
  <2>2. CASE ~told
    BY <1>4, <1>5, <2>2 DEF UpToDate
  <2> QED
    BY <2>1, <2>2
<1>7. EventsFollow'
  BY <1>6 DEF EventsFollow
<1>8. RefusalTold' /\ run' \in Runs
  <2>1. refused' => run' \in {"returning", "none", "listing"}
    BY <1>1
  <2>2. ASSUME refused, told PROVE x # <<>> /\ x[Len(x)].type = "ERROR"
    <3>1. Len(x) = 2 /\ x[2] = last /\ last.type = "ERROR"
      BY <1>2, <1>4, <2>2
    <3> QED
      BY <3>1
  <2> QED
    BY <1>1, <1>5, <2>1, <2>2 DEF RefusalTold, Runs
<1> QED
  BY <1>1, <1>5, <1>7, <1>8, StreamKeeps

\* A connection that is lost takes with it what is under way.
LEMMA InterruptedKeeps ==
  ASSUME DetailsInv, Interrupted
  PROVE  DetailsInv'
<1>1. /\ stream \in StreamState /\ ev \in EventsState /\ stream.for # NoKey
      /\ stream.for \in Place /\ run \in Runs /\ cache \subseteq Event /\ refused \in BOOLEAN
      /\ StreamSteps /\ UNCHANGED <<run, cache, refused>>
  BY DEF DetailsInv, DetailsTypeOK, ToldOfSelection, StreamState, Interrupted, entryVars
<1>2. ev' \in EventsState /\ ev'.events = ev.events
  <2>1. ev' = [ev EXCEPT !.loading = FALSE, !.error = "interrupted"]
    BY DEF Interrupted
  <2> QED
    BY <1>1, <2>1 DEF EventsState
<1>3. /\ stream' \in StreamState /\ stream'.for = stream.for /\ stream'.conn = "connecting"
      /\ stream'.queue = <<>>
  BY <1>1 DEF Interrupted, StreamTo, StreamState
<1>4. EventsFollow' /\ RefusalTold'
  BY <1>1, <1>3 DEF DetailsInv, EventsFollow, RefusalTold
<1> QED
  BY <1>1, <1>2, <1>3, <1>4, StreamKeeps

\* The timer changes no event and no error.
LEMMA TimerKeeps ==
  ASSUME DetailsInv, TimerFires
  PROVE  DetailsInv'
<1>1. /\ stream \in StreamState /\ ev \in EventsState
      /\ run \in Runs /\ cache \subseteq Event /\ refused \in BOOLEAN
      /\ stream.conn # "closed" => stream.for # NoKey
      /\ stream.conn # "open" => stream.queue = <<>>
      /\ StreamSteps /\ UNCHANGED <<run, cache, refused>>
  BY DEF DetailsInv, DetailsTypeOK, ToldOfSelection, TimerFires, entryVars
<1>2. ev' \in EventsState /\ ev'.events = ev.events /\ ev'.error = ev.error
  <2>1. ev' = [ev EXCEPT !.loading = FALSE]
    BY DEF TimerFires
  <2> QED
    BY <1>1, <2>1 DEF EventsState
<1>3. /\ stream' \in StreamState /\ stream'.for = stream.for /\ stream'.conn = stream.conn
      /\ stream'.queue = stream.queue /\ stream'.told = stream.told
  BY <1>1, StreamTimer DEF TimerFires
<1>4. EventsFollow' /\ RefusalTold'
  BY <1>1, <1>2, <1>3 DEF DetailsInv, EventsFollow, UpToDate, Matching, RefusalTold
<1> QED
  BY <1>1, <1>2, <1>3, <1>4, StreamKeeps

\* A message is about the object that is drawn, or is ignored, and what the tab makes
\* of it is what the message gives.
LEMMA Message ==
  ASSUME DetailsInv, Receive, NEW m, m = Head(stream.queue)
  PROVE  /\ stream.conn = "open" /\ stream.for # NoKey /\ m \in Told
         /\ stream' \in StreamState /\ stream'.for = stream.for /\ stream'.conn = "open"
         /\ stream'.queue = Tail(stream.queue) /\ stream'.told = stream.told
         /\ ev' \in EventsState /\ (m.type = "ERROR" => ev'.error = "server")
         /\ \A e : IF Says(m, e)
                   THEN e \in ev'.events <=> Gives(m, e) /\ EventMatches(e, Subject[stream.for])
                   ELSE e \in ev'.events <=> e \in ev.events
<1> DEFINE q == stream.queue
           ignored == /\ m.type \in {"ADDED", "DELETED"}
                      /\ ~EventMatches(m.object, Subject[stream.for])
           events == CASE m.type = "SNAPSHOT" -> SnapshotEvents(m)
                       [] m.type = "ADDED" -> ev.events \cup {m.object}
                       [] m.type = "DELETED" -> ev.events \ {m.object}
                       [] m.type \in {"SYNCED", "ERROR"} -> ev.events
           error == IF m.type = "ERROR" THEN "server" ELSE ""
           timer == stream.timer /\ ignored
<1>1. /\ stream \in StreamState /\ ev \in EventsState /\ q \in Seq(Told) /\ q # <<>>
      /\ ev.events \subseteq Event
  BY DEF DetailsInv, DetailsTypeOK, StreamState, EventsState, Receive
<1>2. stream.conn = "open" /\ stream.for # NoKey
  BY <1>1 DEF DetailsInv, ToldOfSelection
<1>3. m \in Told /\ Tail(q) \in Seq(Told)
  BY <1>1
<1>4. /\ m.type \in {"ADDED", "DELETED", "SNAPSHOT", "SYNCED", "ERROR"}
      /\ m.type \in {"ADDED", "DELETED"} => m.object \in Event
      /\ m.type = "SNAPSHOT" => m.objects \subseteq Event
  BY <1>3 DEF Told
<1>5. /\ stream' = [stream EXCEPT !.queue = Tail(q), !.timer = timer]
      /\ timer \in BOOLEAN
      /\ ignored => ev' = ev
      /\ ~ignored => ev' = [events |-> events, loading |-> FALSE, error |-> error]
  BY DEF Receive
<1>6. /\ stream' \in StreamState /\ stream'.for = stream.for /\ stream'.conn = stream.conn
      /\ stream'.queue = Tail(q) /\ stream'.told = stream.told
  <2> DEFINE x == Tail(q)
  <2>1. x \in Seq(Told) /\ stream' = [stream EXCEPT !.queue = x, !.timer = timer]
    BY <1>3, <1>5
  <2> HIDE DEF x, timer
  <2>2. /\ stream'.for = stream.for /\ stream'.conn = stream.conn /\ stream'.queue = x
        /\ stream' \in StreamState /\ stream'.told = stream.told
    BY <1>1, <1>5, <2>1 DEF StreamState
  <2> QED
    BY <2>2 DEF x
<1>7. CASE ignored
  <2>1. ev' = ev
    BY <1>5, <1>7
  <2>2. \A e : Says(m, e) => e = m.object
    BY <1>7 DEF Says
  <2>3. \A e \in ev.events : EventMatches(e, Subject[stream.for])
    BY DEF DetailsInv, ToldOfSelection
  <2> QED
    BY <1>1, <1>2, <1>3, <1>6, <1>7, <2>1, <2>2, <2>3
<1>8. CASE ~ignored
  <2>1. /\ events \subseteq Event /\ error \in {"", "server"}
        /\ m.type = "ERROR" => error = "server"
    BY <1>1, <1>4 DEF SnapshotEvents, Matching
  <2>2. ev' = [events |-> events, loading |-> FALSE, error |-> error]
    BY <1>5, <1>8
  <2>3. ASSUME NEW e
        PROVE  IF Says(m, e)
               THEN e \in events <=> Gives(m, e) /\ EventMatches(e, Subject[stream.for])
               ELSE e \in events <=> e \in ev.events
    <3>1. CASE m.type = "SNAPSHOT"
      BY <3>1 DEF Says, Gives, SnapshotEvents, Matching
    <3>2. CASE m.type = "ADDED"
      BY <1>8, <3>2 DEF Says, Gives
    <3>3. CASE m.type = "DELETED"
      BY <1>8, <3>3 DEF Says, Gives
    <3>4. CASE m.type \in {"SYNCED", "ERROR"}
      BY <3>4 DEF Says, Gives
    <3> QED
      BY <1>4, <3>1, <3>2, <3>3, <3>4
  <2> HIDE DEF events, error
  <2>4. ev' \in EventsState /\ ev'.events = events /\ ev'.error = error
    BY <2>1, <2>2 DEF EventsState
  <2> QED
    BY <1>2, <1>3, <1>6, <2>1, <2>3, <2>4
<1> QED
  BY <1>7, <1>8

\* The tab makes of a message what the message gives.
LEMMA ReceiveKeeps ==
  ASSUME DetailsInv, Receive
  PROVE  DetailsInv'
<1> DEFINE m == Head(stream.queue)
           q == stream.queue
<1>1. /\ UNCHANGED <<resource, truth, run, cache, refused>>
      /\ UNCHANGED <<page, drawn, evDrawn, hi, hiDrawn, fetch>>
  BY DEF Receive, StreamSteps, entryVars, pageVars, historyVars
<1>2. /\ stream.conn = "open" /\ stream.for # NoKey /\ m \in Told
      /\ stream' \in StreamState /\ stream'.for = stream.for /\ stream'.conn = "open"
      /\ stream'.queue = Tail(stream.queue) /\ stream'.told = stream.told
      /\ ev' \in EventsState /\ (m.type = "ERROR" => ev'.error = "server")
      /\ \A e : IF Says(m, e)
                THEN e \in ev'.events <=> Gives(m, e) /\ EventMatches(e, Subject[stream.for])
                ELSE e \in ev'.events <=> e \in ev.events
  BY Message
<1>3. q \in Seq(Told) /\ q # <<>>
  BY DEF DetailsInv, DetailsTypeOK, StreamState, Receive
<1>4. /\ Len(q) \in Nat \ {0} /\ q[1] = m /\ Len(Tail(q)) = Len(q) - 1
      /\ \A i \in 1..Len(Tail(q)) : Tail(q)[i] = q[i + 1]
  BY <1>3
<1>5. ASSUME NEW e \in Event PROVE UpToDate(e)'
  <2>1. UpToDate(e)
    BY <1>2 DEF DetailsInv, EventsFollow
  <2>2. ASSUME NEW i \in 1..Len(Tail(q)), Says(Tail(q)[i], e),
               \A j \in i + 1..Len(Tail(q)) : ~Says(Tail(q)[j], e)
        PROVE  Gives(Tail(q)[i], e) <=> e \in cache
    <3>1. i + 1 \in 1..Len(q) /\ Tail(q)[i] = q[i + 1]
      BY <1>4
    <3>2. ASSUME NEW j \in i + 1 + 1..Len(q) PROVE ~Says(q[j], e)
      <4>1. j - 1 \in i + 1..Len(Tail(q)) /\ j - 1 \in 1..Len(Tail(q))
        BY <1>4
      <4>2. Tail(q)[j - 1] = q[j - 1 + 1] /\ j - 1 + 1 = j
        BY <1>4, <4>1
      <4> QED
        BY <2>2, <4>1, <4>2
    <3> QED
      BY <2>1, <2>2, <3>1, <3>2 DEF UpToDate
  <2>3. ASSUME stream.told, \A i \in 1..Len(Tail(q)) : ~Says(Tail(q)[i], e)
        PROVE  e \in ev'.events <=> e \in Matching(stream.for, cache)
    <3>1. ASSUME NEW j \in 2..Len(q) PROVE ~Says(q[j], e)
      <4>1. j - 1 \in 1..Len(Tail(q)) /\ j - 1 + 1 = j
        BY <1>4
      <4> QED
        BY <1>4, <2>3, <4>1
    <3>2. CASE Says(m, e)
      <4>1. Gives(m, e) <=> e \in cache
        <5>1. 1 \in 1..Len(q) /\ Says(q[1], e) /\ \A j \in 1 + 1..Len(q) : ~Says(q[j], e)
          BY <1>4, <3>1, <3>2
        <5>2. Gives(q[1], e) <=> e \in cache
          BY <2>1, <5>1 DEF UpToDate
        <5> QED
          BY <1>4, <5>2
      <4> QED
        BY <1>2, <3>2, <4>1 DEF Matching
    <3>3. CASE ~Says(m, e)
      <4>1. \A i \in 1..Len(q) : ~Says(q[i], e)
        <5> SUFFICES ASSUME NEW i \in 1..Len(q) PROVE ~Says(q[i], e)
          OBVIOUS
        <5>1. i = 1 \/ i \in 2..Len(q)
          BY <1>4
        <5> QED
          BY <1>4, <3>1, <3>3, <5>1
      <4>2. e \in ev.events <=> e \in Matching(stream.for, cache)
        BY <2>1, <2>3, <4>1 DEF UpToDate
      <4> QED
        BY <1>2, <3>3, <4>2
    <3> QED
      BY <3>2, <3>3
  <2> QED
    BY <1>1, <1>2, <2>2, <2>3 DEF UpToDate, Matching
<1>6. EventsFollow'
  BY <1>5 DEF EventsFollow
<1>7. ToldOfSelection'
  <2>1. ASSUME NEW e \in ev'.events PROVE EventMatches(e, Subject[stream.for])
    BY <1>2, <2>1 DEF DetailsInv, ToldOfSelection
  <2> QED
    BY <1>1, <1>2, <2>1 DEF DetailsInv, ToldOfSelection, EventsOf, HasItem
<1>8. DetailsTypeOK' /\ InStep' /\ FetchedForSelection'
  BY <1>1, <1>2 DEF DetailsInv, DetailsTypeOK, InStep, Ahead, FetchedForSelection, HistoryOf,
                    HasItem, VersionOf
<1>9. RefusalTold'
  <2> SUFFICES ASSUME refused, stream.told
               PROVE  IF Tail(q) = <<>> THEN ev'.error = "server"
                      ELSE Tail(q)[Len(Tail(q))].type = "ERROR"
    BY <1>1, <1>2 DEF DetailsInv, RefusalTold
  <2>1. q[Len(q)].type = "ERROR"
    <3>1. IF q = <<>> THEN ev.error = "server" ELSE q[Len(q)].type = "ERROR"
      BY <1>2 DEF DetailsInv, RefusalTold
    <3> QED
      BY <1>3, <3>1
  <2>2. CASE Tail(q) = <<>>
    <3>5. Tail(q) \in Seq(Told)
      BY <1>3
    <3>2. Len(Tail(q)) = 0
      BY <2>2, <3>5, EmptySeq
    <3>4. Len(q) \in Nat /\ Len(Tail(q)) = Len(q) - 1
      BY <1>4
    <3>1. Len(q) = 1
      BY <3>2, <3>4
    <3>3. m.type = "ERROR"
      BY <1>4, <2>1, <3>1
    <3> QED
      BY <1>2, <2>2, <3>3
  <2>3. CASE Tail(q) # <<>>
    <3>1. Len(Tail(q)) \in 1..Len(Tail(q)) /\ Len(Tail(q)) + 1 = Len(q)
      BY <1>3, <1>4, <2>3
    <3> QED
      BY <1>4, <2>1, <2>3, <3>1
  <2> QED
    BY <2>2, <2>3
<1> QED
  BY <1>6, <1>7, <1>8, <1>9 DEF DetailsInv

-----------------------------------------------------------------------------
(* The theorems.                                                           *)

\* The invariant is inductive.
LEMMA Inductive == DetailsInv /\ [Next]_vars => DetailsInv'
<1> SUFFICES ASSUME DetailsInv, [Next]_vars PROVE DetailsInv'
  OBVIOUS
<1>1. CASE UserClicks \/ Render
  BY <1>1, Commits, CommitKeeps DEF DetailsInv
<1>2. CASE \E k \in Key : ObjectChanges(k) \/ PageReceives(k)
  BY <1>2, ObjectsKeep
<1>3. CASE DeferredRender \/ DeferredCommit \/ Frame
  BY <1>3, EditorKeeps DEF DeferredRender, DeferredCommit, Frame, EditorStep
<1>4. CASE EventsNext
  BY <1>4, RunStepsKeep, CreatesKeeps, JoinsKeeps, InterruptedKeeps, ReceiveKeeps, TimerKeeps
     DEF EventsNext
<1>5. CASE ServerAnswers \/ AnswerArrives
  BY <1>5, AnswersKeep
<1>6. CASE UNCHANGED vars
  BY <1>6, EditorKeeps DEF vars, pageVars
<1> QED
  BY <1>1, <1>2, <1>3, <1>4, <1>5, <1>6 DEF Next

\* Every behaviour keeps to the types and to the five invariants that make the tabs right:
\* the commits, the two hooks and the streams of DetailsDrawer.tsx, useResourceEvents.ts
\* and useHelmHistory.ts.
THEOREM DetailsInvariant == Spec => []DetailsInv
  BY InitInv, Inductive, PTL DEF Spec

\* No tab shows the events or the history of an object that is not the selected one,
\* though messages and an answer for the one before may still arrive when it changes
\* (useResourceEvents.ts and useHelmHistory.ts tear down what they began).
THEOREM TabsAreOfSelection == Spec => []TabsShowSelection
<1>1. DetailsInv => TabsShowSelection
  BY DEF DetailsInv, ToldOfSelection, FetchedForSelection, TabsShowSelection
<1> QED
  BY <1>1, DetailsInvariant, PTL

\* An open stream is the selected object's. Once it was sent a snapshot and nothing is
\* under way, its events are exactly those that the server's entry has of the object,
\* whatever was lost, refused and listed again before. Nothing is said of a page that
\* stored the entry, was overtaken by another one that started the run, and has not been
\* told of a list yet. A history that is not loading and has not failed is at least as
\* recent as the page (useResourceEvents.ts:45-94, watchmgr.go:165-199).
THEOREM TabsComplete == Spec => []TabsAreComplete
<1>1. DetailsInv => TabsAreComplete
  <2> SUFFICES ASSUME DetailsInv PROVE TabsAreComplete
    OBVIOUS
  <2>1. ASSUME stream.conn = "open", stream.told, stream.queue = <<>>
        PROVE  ev.events = Matching(stream.for, cache)
    <3>1. Len(stream.queue) = 0 /\ 1..Len(stream.queue) = {}
      BY <2>1
    <3>2. \A e \in Event : e \in ev.events <=> e \in Matching(stream.for, cache)
      BY <2>1, <3>1 DEF DetailsInv, EventsFollow, UpToDate
    <3>3. ev.events \subseteq Event /\ Matching(stream.for, cache) \subseteq Event
      BY DEF DetailsInv, DetailsTypeOK, EventsState, Matching
    <3> QED
      BY <3>2, <3>3
  <2> QED
    BY <2>1 DEF DetailsInv, ToldOfSelection, FetchedForSelection, TabsAreComplete
<1> QED
  BY <1>1, DetailsInvariant, PTL

\* While the entry is refused, a stream that was sent a snapshot shows the error once
\* nothing is under way: no later message of the entry, and no greeting of a page that
\* connects to it, covers it up (watchmgr.go:193-197, 305-311, 328-336).
THEOREM RefusalShown == Spec => []RefusalIsShown
<1>1. DetailsInv => RefusalIsShown
  BY DEF DetailsInv, RefusalTold, RefusalIsShown
<1> QED
  BY <1>1, DetailsInvariant, PTL
================================================================================
