--------------------------- MODULE WatchEntryProofs ---------------------------
(***************************************************************************)
(* Proofs about WatchEntry, for any pages, objects, versions and capacity  *)
(* of a channel. The first part is about what a queue of messages makes of *)
(* a view (LastValue); then come the types, and one inductive invariant    *)
(* for each property. The last part proves that WatchEntry implements      *)
(* ReplicaView: no page shows a version the cluster never had, and none    *)
(* goes back to an earlier one. Versions only rise from the page along its *)
(* channel to the cache, and from the cache along the list and the events  *)
(* of the watch to the cluster.                                            *)
(***************************************************************************)
EXTENDS WatchEntry, SequenceTheorems, WellFoundedInduction, TLAPS

-----------------------------------------------------------------------------
(* LastValue.                                                              *)

\* A set of places in a sequence that is not empty has a last one.
LEMMA LastPlace ==
  ASSUME NEW n \in Nat, NEW S \in SUBSET (1..n), S # {}
  PROVE  \E i \in S : \A j \in S : j <= i
<1> DEFINE T == {n - i : i \in S}
<1>1. T \subseteq Nat /\ T # {}
  <2>1. \A i \in S : i \in 1..n /\ n - i \in Nat
    OBVIOUS
  <2> QED
    BY <2>1
<1>2. PICK m \in T : \A x \in T : ~(<<x, m>> \in OpToRel(<, Nat))
  <2> HIDE DEF T
  <2> QED
    BY <1>1, WFMin, NatLessThanWellFounded
<1>3. PICK i \in S : m = n - i
  OBVIOUS
<1>4. ASSUME NEW j \in S PROVE j <= i
  <2>1. n - j \in T /\ n - j \in Nat /\ m \in Nat /\ i \in 1..n /\ j \in 1..n
    BY <1>1, <1>3
  <2>2. ~(n - j < m)
    BY <1>2, <2>1 DEF OpToRel
  <2> QED
    BY <1>3, <2>1, <2>2
<1> QED
  BY <1>4

\* Message i is the last of a queue that says something of k; no message does.
IsLastOn(k, seq, i) == /\ i \in 1..Len(seq) /\ k \in DOMAIN seq[i].obj
                       /\ \A j \in 1..Len(seq) : j > i => k \notin DOMAIN seq[j].obj
NoneOn(k, seq) == \A j \in 1..Len(seq) : k \notin DOMAIN seq[j].obj

\* The last message about k decides.
LEMMA LastOnValue ==
  ASSUME NEW k, NEW seq, Len(seq) \in Nat, NEW f, NEW i, IsLastOn(k, seq, i)
  PROVE  LastValue(seq, f, k) = seq[i].obj[k]
<1> DEFINE about == {j \in 1..Len(seq) : k \in DOMAIN seq[j].obj}
<1>1. i \in about /\ \A j \in about : j <= i
  BY DEF IsLastOn
<1>2. ASSUME NEW x \in about, \A j \in about : j <= x PROVE x = i
  <2>1. x <= i /\ i <= x /\ x \in Nat /\ i \in Nat
    BY <1>1, <1>2
  <2> QED
    BY <2>1
<1>3. (CHOOSE x \in about : \A j \in about : j <= x) = i
  BY <1>1, <1>2
<1> QED
  BY <1>1, <1>3 DEF LastValue

\* Without one the view keeps its value.
LEMMA NoneOnValue ==
  ASSUME NEW k, NEW seq, NEW f, NoneOn(k, seq)
  PROVE  LastValue(seq, f, k) = f[k]
  BY DEF LastValue, NoneOn

\* One or the other is the case.
LEMMA LastOrNone ==
  ASSUME NEW k, NEW seq, Len(seq) \in Nat, ~NoneOn(k, seq)
  PROVE  \E i \in 1..Len(seq) : IsLastOn(k, seq, i)
<1> DEFINE about == {j \in 1..Len(seq) : k \in DOMAIN seq[j].obj}
<1>1. about \in SUBSET (1..Len(seq)) /\ about # {}
  BY DEF NoneOn
<1>2. PICK i \in about : \A j \in about : j <= i
  <2> HIDE DEF about
  <2> QED
    BY <1>1, LastPlace
<1>3. ASSUME NEW j \in 1..Len(seq), j > i, j \in about PROVE FALSE
  <2>1. j <= i /\ i \in 1..Len(seq)
    BY <1>2, <1>3
  <2> QED
    BY <1>3, <2>1
<1> QED
  BY <1>2, <1>3 DEF IsLastOn

\* Two views either get the same value of k from a queue, or keep their own.
LEMMA ValueOrOwn ==
  ASSUME NEW seq, NEW k, NEW f, NEW g
  PROVE  \/ LastValue(seq, f, k) = LastValue(seq, g, k)
         \/ LastValue(seq, f, k) = f[k] /\ LastValue(seq, g, k) = g[k]
<1> DEFINE about == {i \in 1..Len(seq) : k \in DOMAIN seq[i].obj}
           last == seq[CHOOSE i \in about : \A j \in about : j <= i].obj[k]
<1>1. /\ LastValue(seq, f, k) = IF about = {} THEN f[k] ELSE last
      /\ LastValue(seq, g, k) = IF about = {} THEN g[k] ELSE last
  BY DEF LastValue
<1> HIDE DEF about, last
<1> QED
  BY <1>1

\* An empty channel.
LEMMA ValueOfEmpty == ASSUME NEW f, NEW k PROVE LastValue(<<>>, f, k) = f[k]
  BY NoneOnValue DEF NoneOn

\* A message that is queued last decides about what it holds.
LEMMA ValueOfAppend ==
  ASSUME NEW S, NEW seq \in Seq(S), NEW m \in S, NEW k, NEW f
  PROVE  LastValue(Append(seq, m), f, k) =
           IF k \in DOMAIN m.obj THEN m.obj[k] ELSE LastValue(seq, f, k)
<1> DEFINE n == Len(seq)
           new == Append(seq, m)
<1>1. /\ n = Len(seq) /\ n \in Nat /\ Len(new) = n + 1 /\ new[n + 1] = m
      /\ \A i \in 1..n : new[i] = seq[i]
  OBVIOUS
<1> HIDE DEF n, new
<1>2. \A j \in 1..n + 1 : j \in 1..n \/ j = n + 1
  BY <1>1
<1>3. CASE k \in DOMAIN m.obj
  <2>1. IsLastOn(k, new, n + 1)
    BY <1>1, <1>3 DEF IsLastOn
  <2>2. LastValue(new, f, k) = new[n + 1].obj[k]
    <3>1. Len(new) \in Nat
      BY <1>1
    <3> QED
      BY <2>1, <3>1, LastOnValue
  <2> QED
    BY <1>1, <1>3, <2>2 DEF new
<1>4. CASE k \notin DOMAIN m.obj /\ NoneOn(k, seq)
  <2>1. NoneOn(k, new)
    BY <1>1, <1>2, <1>4 DEF NoneOn
  <2> QED
    BY <1>4, <2>1, NoneOnValue DEF new
<1>5. CASE k \notin DOMAIN m.obj /\ ~NoneOn(k, seq)
  <2>1. PICK i \in 1..n : IsLastOn(k, seq, i)
    BY <1>1, <1>5, LastOrNone
  <2>2. IsLastOn(k, new, i)
    <3>1. i \in 1..Len(new) /\ k \in DOMAIN new[i].obj
      BY <1>1, <2>1 DEF IsLastOn
    <3>2. ASSUME NEW j \in 1..n + 1, j > i PROVE k \notin DOMAIN new[j].obj
      BY <1>1, <1>2, <1>5, <2>1, <3>2 DEF IsLastOn
    <3> QED
      BY <1>1, <3>1, <3>2 DEF IsLastOn
  <2>3. LastValue(new, f, k) = new[i].obj[k]
    <3>1. Len(new) \in Nat
      BY <1>1
    <3> QED
      BY <2>2, <3>1, LastOnValue
  <2>4. LastValue(seq, f, k) = seq[i].obj[k]
    BY <1>1, <2>1, LastOnValue
  <2> QED
    BY <1>1, <1>5, <2>3, <2>4 DEF new
<1> QED
  BY <1>3, <1>4, <1>5

\* The queues that a subscriber begins with, or again after an overflow.
LEMMA ValueOfOne ==
  ASSUME NEW a, NEW k, NEW f, k \in DOMAIN a.obj
  PROVE  LastValue(<<a>>, f, k) = a.obj[k]
<1> DEFINE one == <<a>>
<1>1. Len(one) = 1 /\ one[1] = a
  OBVIOUS
<1> HIDE DEF one
<1>2. IsLastOn(k, one, 1)
  BY <1>1 DEF IsLastOn
<1> QED
  BY <1>1, <1>2, LastOnValue DEF one

LEMMA ValueOfPair ==
  ASSUME NEW a, NEW b, NEW k, NEW f, NEW v,
         k \in DOMAIN a.obj, a.obj[k] = v, k \notin DOMAIN b.obj \/ b.obj[k] = v
  PROVE  LastValue(<<a, b>>, f, k) = v
<1> DEFINE two == <<a, b>>
<1>1. Len(two) = 2 /\ two[1] = a /\ two[2] = b
  OBVIOUS
<1> HIDE DEF two
<1>2. CASE k \in DOMAIN b.obj
  <2>1. IsLastOn(k, two, 2)
    BY <1>1, <1>2 DEF IsLastOn
  <2> QED
    BY <1>1, <1>2, <2>1, LastOnValue DEF two
<1>3. CASE k \notin DOMAIN b.obj
  <2>1. \A j \in 1..2 : j = 1 \/ j = 2
    OBVIOUS
  <2>2. IsLastOn(k, two, 1)
    BY <1>1, <1>3, <2>1 DEF IsLastOn
  <2> QED
    BY <1>1, <2>2, LastOnValue DEF two
<1> QED
  BY <1>2, <1>3

\* Applying the first message leaves what the queue makes of the view the same.
LEMMA ValueOfTail ==
  ASSUME NEW S, NEW seq \in Seq(S), seq # <<>>, NEW k \in Key, NEW f
  PROVE  LastValue(Tail(seq), Apply(f, Head(seq)), k) = LastValue(seq, f, k)
<1> DEFINE n == Len(seq)
           rest == Tail(seq)
           g == Apply(f, Head(seq))
<1>1. /\ n = Len(seq) /\ n \in Nat \ {0} /\ Len(rest) = n - 1 /\ Head(seq) = seq[1]
      /\ \A i \in 1..n - 1 : rest[i] = seq[i + 1]
  OBVIOUS
<1>2. g[k] = IF k \in DOMAIN seq[1].obj THEN seq[1].obj[k] ELSE f[k]
  BY <1>1 DEF Apply
<1> HIDE DEF n, rest, g
<1>3. \A j \in 1..n : j = 1 \/ (j > 1 /\ j - 1 \in 1..n - 1 /\ rest[j - 1] = seq[j])
  BY <1>1
<1>4. CASE NoneOn(k, rest) /\ k \in DOMAIN seq[1].obj
  <2>1. IsLastOn(k, seq, 1)
    BY <1>1, <1>3, <1>4 DEF IsLastOn, NoneOn
  <2> QED
    BY <1>1, <1>2, <1>4, <2>1, LastOnValue, NoneOnValue DEF rest, g
<1>5. CASE NoneOn(k, rest) /\ k \notin DOMAIN seq[1].obj
  <2>1. NoneOn(k, seq)
    BY <1>1, <1>3, <1>5 DEF NoneOn
  <2> QED
    BY <1>2, <1>5, <2>1, NoneOnValue DEF rest, g
<1>6. CASE ~NoneOn(k, rest)
  <2>1. PICK i \in 1..n - 1 : IsLastOn(k, rest, i)
    BY <1>1, <1>6, LastOrNone
  <2>2. IsLastOn(k, seq, i + 1)
    <3>1. i + 1 \in 1..Len(seq) /\ k \in DOMAIN seq[i + 1].obj
      BY <1>1, <2>1 DEF IsLastOn
    <3>2. ASSUME NEW j \in 1..n, j > i + 1 PROVE k \notin DOMAIN seq[j].obj
      <4>1. j - 1 \in 1..n - 1 /\ j - 1 > i /\ rest[j - 1] = seq[j]
        BY <1>1, <3>2
      <4> QED
        BY <1>1, <2>1, <4>1 DEF IsLastOn
    <3> QED
      BY <1>1, <3>1, <3>2 DEF IsLastOn
  <2>3. LastValue(rest, g, k) = rest[i].obj[k] /\ LastValue(seq, f, k) = seq[i + 1].obj[k]
    BY <1>1, <2>1, <2>2, LastOnValue
  <2> QED
    BY <1>1, <2>1, <2>3 DEF rest, g
<1> QED
  BY <1>4, <1>5, <1>6

-----------------------------------------------------------------------------
(* Messages and types.                                                     *)

DeltaSet == {Delta(k, n) : k \in Key, n \in Ver}

\* What the messages hold; NoMsg is none of them.
LEMMA MessageKinds ==
  /\ \A k \in Key, n \in Ver :
       /\ Delta(k, n) \in Msg /\ Delta(k, n) \in DeltaSet /\ Delta(k, n) # NoMsg
       /\ DOMAIN Delta(k, n).obj = {k} /\ Delta(k, n).obj[k] = n
       /\ Delta(k, n).type = "DELTA"
  /\ \A m \in {Synced, Error, Status} : m \in Msg /\ m # NoMsg /\ m.type # "DELTA"
  /\ \A m \in {Synced, Error, Status, NoMsg} : DOMAIN m.obj = {}
  /\ Error.type = "ERROR" /\ Synced.type # "ERROR"
<1>1. ASSUME NEW k \in Key, NEW n \in Ver
      PROVE  /\ Delta(k, n) \in Msg /\ Delta(k, n) \in DeltaSet /\ Delta(k, n) # NoMsg
             /\ DOMAIN Delta(k, n).obj = {k} /\ Delta(k, n).obj[k] = n
             /\ Delta(k, n).type = "DELTA"
  <2>1. Delta(k, n) \in DeltaSet /\ Delta(k, n) \in Msg
    BY DEF DeltaSet, Msg
  <2>2. Delta(k, n).type = "DELTA" /\ NoMsg.type = "NONE"
    BY DEF Delta, NoMsg, Plain
  <2>3. DOMAIN Delta(k, n).obj = {k} /\ Delta(k, n).obj[k] = n
    BY DEF Delta
  <2> QED
    BY <2>1, <2>2, <2>3
<1>2. /\ Synced.type = "SYNCED" /\ Error.type = "ERROR" /\ Status.type = "STATUS"
      /\ NoMsg.type = "NONE"
  BY DEF Synced, Error, Status, NoMsg, Plain
<1>3. \A m \in {Synced, Error, Status} : m \in Msg
  BY DEF Msg
<1>4. \A m \in {Synced, Error, Status, NoMsg} : DOMAIN m.obj = {}
  BY DEF Synced, Error, Status, NoMsg, Plain
<1> QED
  BY <1>1, <1>2, <1>3, <1>4

\* A snapshot holds the cache.
LEMMA SnapshotHolds ==
  ASSUME cache \in [Key -> Ver]
  PROVE  /\ Snapshot \in Msg /\ Snapshot.obj = cache /\ DOMAIN Snapshot.obj = Key
         /\ Snapshot.type = "SNAPSHOT" /\ Snapshot # NoMsg
  BY DEF Snapshot, Msg, NoMsg, Plain

\* No message holds anything but objects of the resource.
LEMMA MessageObjects ==
  ASSUME NEW m \in Msg
  PROVE  DOMAIN m.obj \subseteq Key /\ \A k \in DOMAIN m.obj : m.obj[k] \in Ver
<1>1. CASE m \in [type : {"SNAPSHOT"}, obj : [Key -> Ver]]
  BY <1>1
<1>2. CASE m \in DeltaSet
  <2>1. PICK k \in Key, n \in Ver : m = Delta(k, n)
    BY <1>2 DEF DeltaSet
  <2> QED
    BY <2>1, MessageKinds
<1>3. CASE m \in {Synced, Error, Status}
  BY <1>3, MessageKinds
<1> QED
  BY <1>1, <1>2, <1>3 DEF Msg, DeltaSet

\* Applying a message keeps the type of a view.
LEMMA ApplyType ==
  ASSUME NEW f \in [Key -> Ver], NEW m \in Msg PROVE Apply(f, m) \in [Key -> Ver]
  BY MessageObjects DEF Apply

\* What is done to queues keeps their types.
LEMMA QueueTypes ==
  ASSUME NEW S PROVE
    /\ <<>> \in Seq(S)
    /\ \A q \in Seq(S), x \in S : Append(q, x) \in Seq(S)
    /\ \A x \in S : <<x>> \in Seq(S)
    /\ \A x, y \in S : <<x, y>> \in Seq(S)
    /\ \A q \in Seq(S) : q # <<>> => Head(q) \in S /\ Tail(q) \in Seq(S)
  OBVIOUS

\* The message between the two critical sections of broadcast is about the cache.
OutIsCached ==
  \/ out \in {NoMsg, Synced, Error, Status}
  \/ \E k \in Key : out = Delta(k, cache[k])

\* A run begins at its list.
BeginsAtList == phase # "live" => pc = "list"

TypeInv == WatchTypeOK /\ OutIsCached /\ BeginsAtList

\* The program starts with it.
LEMMA TypeInit == WatchInit => TypeInv
<1> SUFFICES ASSUME WatchInit PROVE TypeInv
  OBVIOUS
<1>1. Nothing \in [Key -> Ver]
  BY MaxVerAssumption DEF Nothing, Ver
<1>2. RunTypeOK
  BY DEF WatchInit, RunInit, RunTypeOK, Phase
<1>3. events \in Seq(DeltaSet) /\ queue \in [Client -> Seq(Msg)]
  BY QueueTypes DEF WatchInit
<1>4. /\ sub \in [Client -> Sub] /\ pc \in PC /\ stored \in BOOLEAN /\ todo \subseteq Key
      /\ store \in [Key -> Ver] /\ primed \subseteq clients /\ out = NoMsg
  BY DEF WatchInit, Sub, PC
<1>5. listed \in [Key -> Ver] /\ cache \in [Key -> Ver] /\ view \in [Client -> [Key -> Ver]]
  BY <1>1 DEF WatchInit
<1>6. shown \in [Client -> {"loading", "ready", "error"}]
  BY DEF WatchInit
<1>7. BeginsAtList
  BY DEF WatchInit, BeginsAtList
<1> QED
  BY <1>2, <1>3, <1>4, <1>5, <1>6, <1>7
     DEF TypeInv, WatchTypeOK, DeltaSet, OutIsCached

\* What is sent to a subscriber keeps the type and the length of its queue.
LEMMA SendTypes ==
  ASSUME WatchTypeOK, NEW q \in Seq(Msg)
  PROVE  /\ \A m \in Msg : Push(q, m) \in Seq(Msg)
         /\ PushSnapshot(q) \in Seq(Msg)
         /\ Greeting \in Seq(Msg)
<1>1. Snapshot \in Msg
  BY SnapshotHolds DEF WatchTypeOK
<1>2. \A m \in Msg : Append(q, m) \in Seq(Msg) /\ <<Snapshot, m>> \in Seq(Msg)
  BY <1>1, QueueTypes
<1>3. Append(q, Snapshot) \in Seq(Msg) /\ <<Snapshot>> \in Seq(Msg)
  BY <1>1, QueueTypes
<1>4. Synced \in Msg /\ Error \in Msg
  BY MessageKinds
<1> QED
  BY <1>2, <1>3, <1>4 DEF Push, PushSnapshot, Greeting

\* A step that leaves the cache and the broadcast alone keeps what is said of them.
LEMMA OutSame ==
  ASSUME OutIsCached, UNCHANGED <<out, cache>> PROVE OutIsCached'
<1>1. CASE out \in {NoMsg, Synced, Error, Status}
  BY <1>1 DEF OutIsCached, Synced, Error, Status, NoMsg, Plain
<1>2. CASE \E k \in Key : out = Delta(k, cache[k])
  BY <1>2 DEF OutIsCached, Delta
<1> QED
  BY <1>1, <1>2 DEF OutIsCached

\* The requests and the pages keep the types.
LEMMA PageTypes ==
  ASSUME TypeInv, NEW c \in Client,
         \/ Lookup(c) \/ StoreIfAbsent(c) \/ NewEntryFails(c) \/ Subscribe(c)
         \/ Disconnect(c) \/ ClosePage(c) \/ Deliver(c)
  PROVE  TypeInv'
<1> USE DEF TypeInv
<1>1. CASE Lookup(c) \/ StoreIfAbsent(c) \/ NewEntryFails(c)
  <2>1. UNCHANGED <<clients, phase, stopping, refused, store, events, pc, listed, todo,
                    cache, out, queue, view, primed>>
    BY <1>1 DEF Lookup, StoreIfAbsent, NewEntryFails, runVars
  <2>2. stored' \in BOOLEAN
    <3>1. stored' = stored \/ stored' = TRUE
      BY <1>1 DEF Lookup, StoreIfAbsent, NewEntryFails
    <3>2. stored \in BOOLEAN
      BY DEF WatchTypeOK
    <3> QED
      BY <3>1, <3>2
  <2>3. sub' \in [Client -> Sub]
    <3>1. \E x \in Sub : sub' = [sub EXCEPT ![c] = x]
      BY <1>1 DEF Lookup, StoreIfAbsent, NewEntryFails, Sub
    <3> QED
      BY <3>1 DEF WatchTypeOK
  <2>4. shown' \in [Client -> {"loading", "ready", "error"}]
    BY <1>1 DEF Lookup, StoreIfAbsent, NewEntryFails, WatchTypeOK
  <2> QED
    BY <2>1, <2>2, <2>3, <2>4, OutSame DEF WatchTypeOK, RunTypeOK, BeginsAtList
<1>2. CASE Subscribe(c)
  <2>1. /\ UNCHANGED <<store, events, stored, pc, listed, todo, cache, out, view, shown>>
        /\ RunTypeOK' /\ c \in clients' /\ clients \subseteq clients'
        /\ (phase' # "live" => phase # "live")
    BY <1>2 DEF Subscribe, Join, WatchTypeOK, RunTypeOK, Phase
  <2>2. queue' \in [Client -> Seq(Msg)]
    <3>1. queue \in [Client -> Seq(Msg)] /\ queue[c] \in Seq(Msg)
      BY DEF WatchTypeOK
    <3>2. Greeting \in Seq(Msg)
      BY <3>1, SendTypes
    <3> QED
      BY <1>2, <3>1, <3>2 DEF Subscribe
  <2>3. sub' \in [Client -> Sub]
    BY <1>2 DEF Subscribe, WatchTypeOK, Sub
  <2>4. primed' \subseteq clients'
    BY <1>2, <2>1 DEF Subscribe, WatchTypeOK
  <2> QED
    BY <2>1, <2>2, <2>3, <2>4, OutSame DEF WatchTypeOK, BeginsAtList
<1>3. CASE Disconnect(c) \/ ClosePage(c)
  <2>1. /\ UNCHANGED <<phase, stopping, refused, store, events, stored, pc, listed, todo,
                       cache, out>>
        /\ RunTypeOK' /\ clients' = clients \ {c} /\ primed' = primed \ {c}
        /\ primed' \subseteq clients'
    BY <1>3 DEF Disconnect, ClosePage, Leave, WatchTypeOK, RunTypeOK
  <2>2. queue' \in [Client -> Seq(Msg)]
    <3>1. <<>> \in Seq(Msg) /\ queue' = [queue EXCEPT ![c] = <<>>]
      BY <1>3, QueueTypes DEF Disconnect, ClosePage
    <3> QED
      BY <3>1 DEF WatchTypeOK
  <2>3. sub' \in [Client -> Sub]
    <3>1. \E x \in Sub : sub' = [sub EXCEPT ![c] = x]
      BY <1>3 DEF Disconnect, ClosePage, Sub
    <3> QED
      BY <3>1 DEF WatchTypeOK
  <2>4. view' \in [Client -> [Key -> Ver]]
    <3>1. Nothing \in [Key -> Ver]
      BY MaxVerAssumption DEF Nothing, Ver
    <3>2. view' = view \/ view' = [view EXCEPT ![c] = Nothing]
      BY <1>3 DEF Disconnect, ClosePage
    <3>3. view \in [Client -> [Key -> Ver]]
      BY DEF WatchTypeOK
    <3> HIDE DEF Nothing
    <3> QED
      BY <3>1, <3>2, <3>3
  <2>5. shown' \in [Client -> {"loading", "ready", "error"}]
    <3>1. \E x \in {"loading", "error"} : shown' = [shown EXCEPT ![c] = x]
      BY <1>3 DEF Disconnect, ClosePage
    <3> QED
      BY <3>1 DEF WatchTypeOK
  <2> QED
    BY <2>1, <2>2, <2>3, <2>4, <2>5, OutSame DEF WatchTypeOK, BeginsAtList
<1>4. CASE Deliver(c)
  <2>1. UNCHANGED <<clients, phase, stopping, refused, store, events, stored, sub, pc, listed,
                    todo, cache, out, primed>>
    BY <1>4 DEF Deliver, runVars
  <2>2. queue[c] \in Seq(Msg) /\ Head(queue[c]) \in Msg /\ Tail(queue[c]) \in Seq(Msg)
    BY <1>4, QueueTypes DEF Deliver, WatchTypeOK
  <2>3. queue' \in [Client -> Seq(Msg)]
    BY <1>4, <2>2 DEF Deliver, WatchTypeOK
  <2>4. view' \in [Client -> [Key -> Ver]]
    <3>1. view \in [Client -> [Key -> Ver]] /\ view[c] \in [Key -> Ver]
      BY DEF WatchTypeOK
    <3>2. Apply(view[c], Head(queue[c])) \in [Key -> Ver]
      BY <2>2, <3>1, ApplyType
    <3>3. view' = [view EXCEPT ![c] = Apply(view[c], Head(queue[c]))]
      BY <1>4 DEF Deliver
    <3> QED
      BY <3>1, <3>2, <3>3
  <2>5. shown' \in [Client -> {"loading", "ready", "error"}]
    <3>1. ShownAfter(Head(queue[c]), shown[c]) \in {"loading", "ready", "error"}
      BY DEF ShownAfter, WatchTypeOK
    <3> QED
      BY <1>4, <3>1 DEF Deliver, WatchTypeOK
  <2> QED
    BY <2>1, <2>3, <2>4, <2>5, OutSame DEF WatchTypeOK, RunTypeOK, BeginsAtList
<1> QED
  BY <1>1, <1>2, <1>3, <1>4

\* What is sent keeps them.
LEMMA SendingTypes ==
  ASSUME TypeInv, Send \/ BroadcastSnapshot PROVE TypeInv'
<1> USE DEF TypeInv
<1>1. CASE Send
  <2>1. /\ UNCHANGED <<clients, phase, stopping, refused, store, events, stored, sub, pc,
                       listed, todo, cache, view, shown>>
        /\ out' = NoMsg /\ out \in Msg /\ primed' \subseteq clients
    BY <1>1 DEF Send, runVars, WatchTypeOK
  <2>2. queue' \in [Client -> Seq(Msg)]
    <3>1. ASSUME NEW c \in Client
          PROVE  queue[c] \in Seq(Msg) /\ Push(queue[c], out) \in Seq(Msg)
      <4>1. queue[c] \in Seq(Msg)
        BY DEF WatchTypeOK
      <4> QED
        BY <2>1, <4>1, SendTypes
    <3> QED
      BY <1>1, <3>1 DEF Send
  <2> QED
    BY <2>1, <2>2 DEF WatchTypeOK, RunTypeOK, OutIsCached, BeginsAtList, NoMsg, Plain
<1>2. CASE BroadcastSnapshot
  <2>1. /\ UNCHANGED <<clients, phase, stopping, refused, store, events, stored, sub, todo,
                       cache, out, view, shown>>
        /\ pc' = "synced" /\ phase = "live" /\ primed' = clients /\ out = NoMsg
        /\ listed' = Nothing
    BY <1>2 DEF BroadcastSnapshot, RunAt, runVars
  <2>2. queue' \in [Client -> Seq(Msg)]
    BY <1>2, SendTypes DEF BroadcastSnapshot, WatchTypeOK
  <2>3. Nothing \in [Key -> Ver]
    BY MaxVerAssumption DEF Nothing, Ver
  <2> QED
    BY <2>1, <2>2, <2>3
       DEF WatchTypeOK, RunTypeOK, OutIsCached, BeginsAtList, PC, NoMsg, Plain
<1> QED
  BY <1>1, <1>2

\* The run, and what happens around it, keep them.
LEMMA RunTypes ==
  ASSUME TypeInv,
         \/ ListOk \/ ListFails \/ (\E k \in Key : BroadcastItem(k) \/ BroadcastDeletion(k))
         \/ DeleteMissingCached \/ BroadcastSynced \/ WatchOpens \/ WatchFails \/ Receive
         \/ WatchReports \/ WatchEnds \/ PauseOver \/ ForbiddenReturn \/ StopReturn
  PROVE  TypeInv'
<1> USE DEF TypeInv
<1>1. UNCHANGED <<clients, store, stored, sub, queue, view, shown, primed>>
  BY DEF ListOk, ListFails, BroadcastItem, BroadcastDeletion, DeleteMissingCached,
         BroadcastSynced, WatchOpens, WatchFails, Receive, WatchReports, WatchEnds, PauseOver,
         ForbiddenReturn, StopReturn, runVars, Listed, Forbidden, Stopped
<1>2. pc' \in PC
  BY DEF ListOk, ListFails, BroadcastItem, BroadcastDeletion, DeleteMissingCached,
         BroadcastSynced, WatchOpens, WatchFails, Receive, WatchReports, WatchEnds, PauseOver,
         ForbiddenReturn, StopReturn, WatchTypeOK, PC
<1>7. RunTypeOK' /\ BeginsAtList'
  <2>1. \/ UNCHANGED runVars /\ phase = "live"
        \/ (Listed \/ Forbidden \/ Stopped) /\ (phase' = "live" \/ pc' = "list")
    BY DEF ListOk, ListFails, BroadcastItem, BroadcastDeletion, DeleteMissingCached,
           BroadcastSynced, WatchOpens, WatchFails, Receive, WatchReports, WatchEnds,
           PauseOver, ForbiddenReturn, StopReturn, RunAt, Listed, Forbidden, Stopped
  <2>2. RunTypeOK
    BY DEF WatchTypeOK
  <2>3. CASE UNCHANGED runVars /\ phase = "live"
    BY <2>2, <2>3 DEF runVars, RunTypeOK, BeginsAtList
  <2>4. CASE (Listed \/ Forbidden \/ Stopped) /\ (phase' = "live" \/ pc' = "list")
    BY <2>2, <2>4 DEF Listed, Forbidden, Stopped, RunTypeOK, BeginsAtList, Phase
  <2> QED
    BY <2>1, <2>3, <2>4
<1>3. /\ out = NoMsg /\ Nothing \in [Key -> Ver] /\ <<>> \in Seq(DeltaSet)
      /\ events \in Seq(DeltaSet)
  <2>1. Nothing \in [Key -> Ver]
    BY MaxVerAssumption DEF Nothing, Ver
  <2> QED
    BY <2>1, QueueTypes
       DEF ListOk, ListFails, BroadcastItem, BroadcastDeletion, DeleteMissingCached,
           BroadcastSynced, WatchOpens, WatchFails, Receive, WatchReports, WatchEnds,
           PauseOver, ForbiddenReturn, StopReturn, RunAt, WatchTypeOK, DeltaSet
<1>4. CASE ~(\E k \in Key : BroadcastItem(k) \/ BroadcastDeletion(k)) /\ ~Receive
  <2>1. listed' \in [Key -> Ver] /\ todo' \subseteq Key
    BY <1>3, <1>4
       DEF ListOk, ListFails, DeleteMissingCached, BroadcastSynced, WatchOpens, WatchFails,
           WatchReports, WatchEnds, PauseOver, ForbiddenReturn, StopReturn, Forgotten,
           Missing, WatchTypeOK
  <2>2. events' = events \/ events' = <<>>
    BY <1>4
       DEF ListOk, ListFails, DeleteMissingCached, BroadcastSynced, WatchOpens, WatchFails,
           WatchReports, WatchEnds, PauseOver, ForbiddenReturn, StopReturn, Forgotten
  <2>3. cache' \in [Key -> Ver]
    <3>1. \/ cache' = cache
          \/ cache' = [k \in Key |-> IF k \in Missing THEN listed[k] ELSE cache[k]]
      BY <1>4
         DEF ListOk, ListFails, DeleteMissingCached, BroadcastSynced, WatchOpens,
             WatchFails, WatchReports, WatchEnds, PauseOver, ForbiddenReturn, StopReturn
    <3>2. cache \in [Key -> Ver] /\ listed \in [Key -> Ver]
      BY DEF WatchTypeOK
    <3> QED
      BY <3>1, <3>2
  <2>4. out' \in {NoMsg, Synced, Error, Status}
    BY <1>3, <1>4
       DEF ListOk, ListFails, DeleteMissingCached, BroadcastSynced, WatchOpens, WatchFails,
           WatchReports, WatchEnds, PauseOver, ForbiddenReturn, StopReturn
  <2>5. out' \in Msg \cup {NoMsg} /\ OutIsCached'
    BY <2>4, MessageKinds DEF OutIsCached, Synced, Error, Status, NoMsg, Plain
  <2>6. events' \in Seq(DeltaSet)
    BY <1>3, <2>2
  <2> QED
    BY <1>1, <1>2, <1>7, <2>1, <2>3, <2>5, <2>6 DEF WatchTypeOK, DeltaSet
<1>5. ASSUME NEW k \in Key, BroadcastItem(k) \/ BroadcastDeletion(k) PROVE TypeInv'
  <2>1. /\ UNCHANGED <<events, listed>> /\ todo' = todo \ {k}
        /\ cache' = [cache EXCEPT ![k] = listed[k]] /\ out' = Delta(k, listed[k])
    BY <1>5 DEF BroadcastItem, BroadcastDeletion
  <2>2. listed[k] \in Ver /\ cache' \in [Key -> Ver] /\ cache'[k] = listed[k]
    BY <2>1 DEF WatchTypeOK
  <2>3. out' = Delta(k, cache'[k]) /\ out' \in Msg
    BY <2>1, <2>2, MessageKinds
  <2>4. OutIsCached'
    BY <2>3 DEF OutIsCached, Delta
  <2> QED
    BY <1>1, <1>2, <1>7, <2>1, <2>2, <2>3, <2>4 DEF WatchTypeOK, DeltaSet
<1>6. CASE Receive
  <2>1. /\ UNCHANGED <<listed, todo>> /\ events # <<>> /\ events' = Tail(events)
        /\ cache' = Apply(cache, Head(events)) /\ out' = Head(events)
    BY <1>6 DEF Receive
  <2>2. Head(events) \in DeltaSet /\ events' \in Seq(DeltaSet)
    BY <1>3, <2>1, QueueTypes
  <2>3. PICK k \in Key, n \in Ver : Head(events) = Delta(k, n)
    BY <2>2 DEF DeltaSet
  <2>4. out' = Delta(k, n) /\ out' \in Msg /\ cache' \in [Key -> Ver] /\ cache'[k] = n
    BY <2>1, <2>3, MessageKinds, ApplyType DEF Apply, WatchTypeOK
  <2>5. OutIsCached'
    BY <2>4 DEF OutIsCached, Delta
  <2> QED
    BY <1>1, <1>2, <1>7, <2>1, <2>2, <2>4, <2>5 DEF WatchTypeOK, DeltaSet
<1> QED
  BY <1>4, <1>5, <1>6

\* So do the entry's lock and the cluster.
LEMMA OtherTypes ==
  ASSUME TypeInv, RunStarts \/ RunEnds \/ RunIsStopped \/ (\E k \in Key : Change(k))
  PROVE  TypeInv'
<1> USE DEF TypeInv
<1>1. CASE RunStarts \/ RunEnds \/ RunIsStopped
  <2>1. UNCHANGED <<store, events, stored, sub, pc, listed, todo, cache, out, queue, view,
                    shown, primed, clients>>
    <3>1. UNCHANGED dataVars
      BY <1>1 DEF RunStarts, RunEnds, RunIsStopped
    <3>2. clients' = clients
      BY <1>1 DEF RunStarts, RunEnds, RunIsStopped, Start, Ended, Stop
    <3> QED
      BY <3>1, <3>2 DEF dataVars
  <2>2. RunTypeOK'
    <3>1. RunTypeOK
      BY DEF WatchTypeOK
    <3>2. CASE RunStarts
      BY <3>1, <3>2 DEF RunStarts, Start, RunTypeOK, Phase
    <3>3. CASE RunEnds
      BY <3>1, <3>3 DEF RunEnds, Ended, RunTypeOK, Phase
    <3>4. CASE RunIsStopped
      BY <3>1, <3>4 DEF RunIsStopped, Stop, RunTypeOK, Phase
    <3> QED
      BY <1>1, <3>2, <3>3, <3>4
  <2>3. BeginsAtList'
    BY <1>1, <2>1 DEF RunStarts, RunEnds, RunIsStopped, Start, Ended, Stop, BeginsAtList
  <2> QED
    BY <2>1, <2>2, <2>3, OutSame DEF WatchTypeOK
<1>2. ASSUME NEW k \in Key, Change(k) PROVE TypeInv'
  <2>1. PICK n \in Ver :
          /\ store' = [store EXCEPT ![k] = n]
          /\ events' = Append(events, Delta(k, n)) \/ events' = events
          /\ UNCHANGED <<runVars, stored, sub, pc, listed, todo, cache, out, queue,
                         view, shown, primed>>
    BY <1>2 DEF Change
  <2>2. events' \in Seq(DeltaSet)
    <3>1. events \in Seq(DeltaSet) /\ Delta(k, n) \in DeltaSet
      BY MessageKinds DEF WatchTypeOK, DeltaSet
    <3> QED
      BY <2>1, <3>1, QueueTypes
  <2>3. store' \in [Key -> Ver]
    BY <2>1 DEF WatchTypeOK
  <2> QED
    BY <2>1, <2>2, <2>3, OutSame
       DEF runVars, WatchTypeOK, RunTypeOK, BeginsAtList, DeltaSet
<1> QED
  BY <1>1, <1>2

\* Every step keeps the types.
LEMMA TypeStep == TypeInv /\ [WatchNext]_vars => TypeInv'
<1> SUFFICES ASSUME TypeInv, [WatchNext]_vars PROVE TypeInv'
  OBVIOUS
<1>1. CASE UNCHANGED vars
  BY <1>1, OutSame DEF vars, runVars, dataVars, TypeInv, WatchTypeOK, RunTypeOK, BeginsAtList
<1>2. CASE WatchNext
  BY <1>2, PageTypes, SendingTypes, RunTypes, OtherTypes DEF WatchNext, RunStep
<1> QED
  BY <1>1, <1>2

\* The types of the entry, of its subscribers and of their pages.
THEOREM WatchTypeSafety == WatchSpec => []WatchTypeOK
<1>1. TypeInv => WatchTypeOK
  BY DEF TypeInv
<1> QED
  BY <1>1, TypeInit, TypeStep, PTL DEF WatchSpec

-----------------------------------------------------------------------------
(* NothingLost and SendsNeverBlock.                                        *)

LostInv == TypeInv /\ NothingLost /\ SendsNeverBlock

\* The channels have room for what is sent without looking.
LEMMA SendsFit ==
  ASSUME NEW S, NEW q \in Seq(S), Len(q) <= Cap, NEW m
  PROVE  /\ Len(q) < Cap => Len(Append(q, m)) <= Cap
         /\ Len(<<>>) <= Cap /\ Len(<<m>>) <= Cap /\ \A x : Len(<<x, m>>) <= Cap
  BY CapAssumption

\* A step that sends nothing and, of what it changes in the cache, leaves nothing out
\* of what is in flight.
LEMMA QuietLost ==
  ASSUME NothingLost,
         \A c \in primed' : c \in primed /\ queue'[c] = queue[c] /\ view'[c] = view[c],
         \A k \in Key : InFlight(k)' \/ (cache'[k] = cache[k] /\ ~InFlight(k))
  PROVE  NothingLost'
<1> SUFFICES ASSUME NEW c \in primed', NEW k \in Key, ~InFlight(k)'
             PROVE  LastValue(queue'[c], view'[c], k) = cache'[k]
  BY DEF NothingLost
<1>1. cache'[k] = cache[k] /\ ~InFlight(k)
  OBVIOUS
<1>2. c \in primed /\ queue'[c] = queue[c] /\ view'[c] = view[c]
  OBVIOUS
<1>3. LastValue(queue[c], view[c], k) = cache[k]
  BY <1>1, <1>2 DEF NothingLost
<1> QED
  BY <1>1, <1>2, <1>3

\* Before it sends anything, a run has nothing in flight but deletions.
LEMMA NothingInFlight ==
  ASSUME out = NoMsg, pc # "deletions" \/ todo = {} PROVE \A k \in Key : ~InFlight(k)
  BY MessageKinds DEF InFlight

\* The run's own steps, and those that touch no channel.
LEMMA RunLost ==
  ASSUME LostInv,
         \/ ListOk \/ ListFails \/ (\E k \in Key : BroadcastItem(k) \/ BroadcastDeletion(k))
         \/ DeleteMissingCached \/ BroadcastSynced \/ WatchOpens \/ WatchFails \/ Receive
         \/ WatchReports \/ WatchEnds \/ PauseOver \/ ForbiddenReturn \/ StopReturn
  PROVE  NothingLost' /\ SendsNeverBlock'
<1> USE DEF LostInv
<1>1. UNCHANGED <<queue, view, primed>> /\ out = NoMsg
  BY DEF ListOk, ListFails, BroadcastItem, BroadcastDeletion, DeleteMissingCached,
         BroadcastSynced, WatchOpens, WatchFails, Receive, WatchReports, WatchEnds, PauseOver,
         ForbiddenReturn, StopReturn, RunAt
<1>2. SendsNeverBlock'
  BY <1>1 DEF SendsNeverBlock
<1>3. SUFFICES \A k \in Key : InFlight(k)' \/ (cache'[k] = cache[k] /\ ~InFlight(k))
  BY <1>1, <1>2, QuietLost
<1>4. cache \in [Key -> Ver] /\ listed \in [Key -> Ver]
  BY DEF TypeInv, WatchTypeOK
<1>5. CASE \/ ListOk \/ ListFails \/ BroadcastSynced \/ WatchOpens \/ WatchFails
           \/ WatchReports \/ WatchEnds \/ PauseOver \/ ForbiddenReturn \/ StopReturn
  <2>1. pc # "deletions" /\ cache' = cache
    BY <1>5 DEF ListOk, ListFails, BroadcastSynced, WatchOpens, WatchFails, WatchReports,
                WatchEnds, PauseOver, ForbiddenReturn, StopReturn, StopPoints, RunAt
  <2> QED
    BY <1>1, <2>1, NothingInFlight
<1>6. ASSUME NEW j \in Key, BroadcastItem(j) \/ BroadcastDeletion(j)
      PROVE  \A k \in Key : InFlight(k)' \/ (cache'[k] = cache[k] /\ ~InFlight(k))
  <2>1. /\ todo' = todo \ {j} /\ cache' = [cache EXCEPT ![j] = listed[j]]
        /\ out' = Delta(j, listed[j]) /\ pc' = pc
    BY <1>6 DEF BroadcastItem, BroadcastDeletion
  <2>2. DOMAIN out'.obj = {j}
    BY <1>4, <2>1, MessageKinds
  <2>3. InFlight(j)'
    BY <2>2 DEF InFlight
  <2>4. \A k \in Key \ {j} : cache'[k] = cache[k] /\ (InFlight(k) => InFlight(k)')
    BY <1>1, <1>4, <2>1, MessageKinds DEF InFlight
  <2> QED
    BY <2>3, <2>4
<1>7. CASE DeleteMissingCached
  <2>1. /\ cache' = [k \in Key |-> IF k \in Missing THEN listed[k] ELSE cache[k]]
        /\ todo' = Missing /\ pc' = "deletions" /\ pc # "deletions"
    BY <1>7 DEF DeleteMissingCached, RunAt
  <2>2. \A k \in Key : k \in Missing => InFlight(k)'
    BY <2>1 DEF InFlight
  <2>3. \A k \in Key : k \notin Missing => cache'[k] = cache[k]
    BY <2>1
  <2> QED
    BY <1>1, <2>1, <2>2, <2>3, NothingInFlight
<1>8. CASE Receive
  <2>1. /\ cache' = Apply(cache, Head(events)) /\ out' = Head(events) /\ pc # "deletions"
    BY <1>8 DEF Receive, RunAt
  <2>2. \A k \in Key : k \in DOMAIN Head(events).obj => InFlight(k)'
    BY <2>1 DEF InFlight
  <2>3. \A k \in Key : k \notin DOMAIN Head(events).obj => cache'[k] = cache[k]
    BY <2>1 DEF Apply
  <2> QED
    BY <1>1, <2>1, <2>2, <2>3, NothingInFlight
<1> QED
  BY <1>5, <1>6, <1>7, <1>8

\* The requests, the cluster and the entry's lock.
LEMMA OtherLost ==
  ASSUME LostInv,
         \/ \E c \in Client : \/ Lookup(c) \/ StoreIfAbsent(c) \/ NewEntryFails(c)
                              \/ Disconnect(c) \/ ClosePage(c)
         \/ (\E k \in Key : Change(k)) \/ RunStarts \/ RunEnds \/ RunIsStopped
  PROVE  NothingLost' /\ SendsNeverBlock'
<1> USE DEF LostInv
<1>1. UNCHANGED <<cache, out, pc, todo>>
  BY DEF Lookup, StoreIfAbsent, NewEntryFails, Disconnect, ClosePage, Change, RunStarts,
         RunEnds, RunIsStopped, dataVars
<1>2. \A k \in Key : InFlight(k)' \/ (cache'[k] = cache[k] /\ ~InFlight(k))
  BY <1>1 DEF InFlight
<1>3. CASE \/ \E c \in Client : Lookup(c) \/ StoreIfAbsent(c) \/ NewEntryFails(c)
           \/ (\E k \in Key : Change(k)) \/ RunStarts \/ RunEnds \/ RunIsStopped
  <2>1. UNCHANGED <<queue, view, primed>>
    BY <1>3 DEF Lookup, StoreIfAbsent, NewEntryFails, Change, RunStarts, RunEnds,
                RunIsStopped, dataVars
  <2> QED
    BY <1>2, <2>1, QuietLost DEF SendsNeverBlock
<1>4. ASSUME NEW c \in Client, Disconnect(c) \/ ClosePage(c)
      PROVE  NothingLost' /\ SendsNeverBlock'
  <2>1. /\ queue' = [queue EXCEPT ![c] = <<>>] /\ primed' = primed \ {c}
        /\ view' = view \/ view' = [view EXCEPT ![c] = Nothing]
    BY <1>4 DEF Disconnect, ClosePage
  <2>2. /\ queue \in [Client -> Seq(Msg)] /\ view \in [Client -> [Key -> Ver]]
        /\ primed \subseteq Client
    BY DEF TypeInv, WatchTypeOK, RunTypeOK
  <2>3. \A x \in primed' : x \in primed /\ queue'[x] = queue[x] /\ view'[x] = view[x]
    BY <2>1, <2>2
  <2>4. SendsNeverBlock'
    BY <2>1, <2>2, CapAssumption DEF SendsNeverBlock
  <2> QED
    BY <1>2, <2>3, <2>4, QuietLost
<1> QED
  BY <1>3, <1>4

\* A joining page is sent the cache before anything else.
LEMMA SubscribeLost ==
  ASSUME LostInv, NEW c \in Client, Subscribe(c) PROVE NothingLost' /\ SendsNeverBlock'
<1> USE DEF LostInv
<1>1. /\ UNCHANGED <<cache, out, pc, todo, view>>
      /\ IF sub[c] = "joiner"
         THEN queue' = [queue EXCEPT ![c] = Greeting] /\ primed' = primed \cup {c}
         ELSE UNCHANGED <<queue, primed>>
  BY DEF Subscribe
<1>2. \A k \in Key : InFlight(k)' \/ (cache'[k] = cache[k] /\ ~InFlight(k))
  BY <1>1 DEF InFlight
<1>3. CASE sub[c] # "joiner"
  BY <1>1, <1>2, <1>3, QuietLost DEF SendsNeverBlock
<1>4. CASE sub[c] = "joiner"
  <2>1. queue \in [Client -> Seq(Msg)] /\ cache \in [Key -> Ver]
    BY DEF TypeInv, WatchTypeOK
  <2>2. queue' = [queue EXCEPT ![c] = Greeting] /\ queue'[c] = Greeting
    BY <1>1, <1>4, <2>1
  <2>3. PICK m \in {Synced, Error} : Greeting = <<Snapshot, m>>
    BY DEF Greeting
  <2>4. Snapshot \in Msg /\ m \in Msg /\ DOMAIN m.obj = {} /\ Snapshot.obj = cache
        /\ DOMAIN Snapshot.obj = Key
    BY <2>1, <2>3, SnapshotHolds, MessageKinds
  <2>5. ASSUME NEW k \in Key PROVE LastValue(Greeting, view[c], k) = cache[k]
    <3>1. k \in DOMAIN Snapshot.obj /\ Snapshot.obj[k] = cache[k] /\ k \notin DOMAIN m.obj
      BY <2>4
    <3>2. LastValue(<<Snapshot, m>>, view[c], k) = cache[k]
      BY <3>1, ValueOfPair
    <3> QED
      BY <2>3, <3>2
  <2>6. NothingLost'
    <3> SUFFICES ASSUME NEW x \in primed', NEW k \in Key, ~InFlight(k)'
                 PROVE  LastValue(queue'[x], view'[x], k) = cache'[k]
      BY DEF NothingLost
    <3>1. CASE x = c
      BY <1>1, <2>2, <2>5, <3>1
    <3>2. CASE x # c
      <4>1. x \in primed /\ queue'[x] = queue[x]
        BY <1>1, <1>4, <2>1, <2>2, <3>2 DEF TypeInv, WatchTypeOK, RunTypeOK
      <4>2. ~InFlight(k) /\ cache'[k] = cache[k] /\ view'[x] = view[x]
        BY <1>1, <1>2
      <4>3. LastValue(queue[x], view[x], k) = cache[k]
        BY <4>1, <4>2 DEF NothingLost
      <4> QED
        BY <4>1, <4>2, <4>3
    <3> QED
      BY <3>1, <3>2
  <2>7. SendsNeverBlock'
    <3>1. Len(Greeting) <= Cap
      BY <2>3, CapAssumption
    <3> QED
      BY <2>1, <2>2, <3>1 DEF SendsNeverBlock
  <2> QED
    BY <2>6, <2>7
<1> QED
  BY <1>3, <1>4

\* A page that takes a message has it in its view.
LEMMA DeliverLost ==
  ASSUME LostInv, NEW c \in Client, Deliver(c) PROVE NothingLost' /\ SendsNeverBlock'
<1> USE DEF LostInv
<1>1. /\ UNCHANGED <<cache, out, pc, todo, primed>> /\ queue[c] # <<>>
      /\ queue' = [queue EXCEPT ![c] = Tail(@)]
      /\ view' = [view EXCEPT ![c] = Apply(@, Head(queue[c]))]
  BY DEF Deliver
<1>2. /\ queue \in [Client -> Seq(Msg)] /\ view \in [Client -> [Key -> Ver]]
      /\ primed \subseteq Client
  BY DEF TypeInv, WatchTypeOK, RunTypeOK
<1>3. queue'[c] = Tail(queue[c]) /\ view'[c] = Apply(view[c], Head(queue[c]))
  BY <1>1, <1>2
<1>4. NothingLost'
  <2> SUFFICES ASSUME NEW x \in primed', NEW k \in Key, ~InFlight(k)'
               PROVE  LastValue(queue'[x], view'[x], k) = cache'[k]
    BY DEF NothingLost
  <2>1. x \in primed /\ cache'[k] = cache[k] /\ ~InFlight(k)
    BY <1>1 DEF InFlight
  <2>2. LastValue(queue[x], view[x], k) = cache[k]
    BY <2>1 DEF NothingLost
  <2>3. CASE x = c
    <3>1. queue[c] \in Seq(Msg)
      BY <1>2
    <3>2. LastValue(queue'[c], view'[c], k) = LastValue(queue[c], view[c], k)
      BY <1>1, <1>3, <3>1, ValueOfTail
    <3> QED
      BY <2>1, <2>2, <2>3, <3>2
  <2>4. CASE x # c
    <3>1. queue'[x] = queue[x] /\ view'[x] = view[x]
      BY <1>1, <1>2, <2>1, <2>4
    <3> QED
      BY <2>1, <2>2, <3>1
  <2> QED
    BY <2>3, <2>4
<1>5. SendsNeverBlock'
  <2> SUFFICES ASSUME NEW x \in Client PROVE Len(queue'[x]) <= Cap
    BY DEF SendsNeverBlock
  <2>1. Len(queue[x]) <= Cap /\ queue[x] \in Seq(Msg)
    BY <1>2 DEF SendsNeverBlock
  <2>2. queue'[x] = queue[x] \/ (queue[x] # <<>> /\ queue'[x] = Tail(queue[x]))
    BY <1>1, <1>2
  <2>3. queue[x] # <<>> => Len(Tail(queue[x])) = Len(queue[x]) - 1
    BY <2>1
  <2>4. CASE queue'[x] = queue[x]
    BY <2>1, <2>4
  <2>5. CASE queue[x] # <<>> /\ queue'[x] = Tail(queue[x])
    <3>1. Len(queue'[x]) = Len(queue[x]) - 1 /\ Len(queue[x]) \in Nat
      BY <2>1, <2>3, <2>5
    <3> QED
      BY <2>1, <3>1, CapAssumption
  <2> QED
    BY <2>2, <2>4, <2>5
<1> QED
  BY <1>4, <1>5

\* A queue that a snapshot goes to ends with the cache.
LEMMA PushSnapshotValue ==
  ASSUME TypeInv, NEW q \in Seq(Msg), NEW f, NEW k \in Key
  PROVE  LastValue(PushSnapshot(q), f, k) = cache[k]
<1>1. Snapshot \in Msg /\ Snapshot.obj = cache /\ DOMAIN Snapshot.obj = Key
  BY SnapshotHolds DEF TypeInv, WatchTypeOK
<1>2. LastValue(Append(q, Snapshot), f, k) = cache[k]
  BY <1>1, ValueOfAppend
<1>3. LastValue(<<Snapshot>>, f, k) = cache[k]
  <2>1. k \in DOMAIN Snapshot.obj /\ Snapshot.obj[k] = cache[k]
    BY <1>1
  <2> QED
    BY <2>1, ValueOfOne
<1> QED
  BY <1>2, <1>3 DEF PushSnapshot

\* A message that goes to a queue, or replaces it with a snapshot, is not lost.
LEMMA PushValue ==
  ASSUME TypeInv, out # NoMsg, NEW q \in Seq(Msg), NEW f, NEW k \in Key,
         Len(q) >= Cap \/ k \in DOMAIN out.obj \/ LastValue(q, f, k) = cache[k]
  PROVE  LastValue(Push(q, out), f, k) = cache[k]
<1>1. Snapshot \in Msg /\ Snapshot.obj = cache /\ DOMAIN Snapshot.obj = Key
  BY SnapshotHolds DEF TypeInv, WatchTypeOK
<1>2. out \in Msg /\ (k \in DOMAIN out.obj => out.obj[k] = cache[k])
      /\ (out.type # "DELTA" => DOMAIN out.obj = {})
  <2>1. CASE out \in {Synced, Error, Status}
    BY <2>1, MessageKinds
  <2>2. CASE \E j \in Key : out = Delta(j, cache[j])
    <3>1. PICK j \in Key : out = Delta(j, cache[j])
      BY <2>2
    <3>2. cache[j] \in Ver
      BY DEF TypeInv, WatchTypeOK
    <3> QED
      BY <3>1, <3>2, MessageKinds
  <2> QED
    BY <2>1, <2>2 DEF TypeInv, OutIsCached
<1>3. CASE Len(q) < Cap
  <2>1. Len(q) \in Nat
    OBVIOUS
  <2>2. LastValue(Append(q, out), f, k) =
          IF k \in DOMAIN out.obj THEN out.obj[k] ELSE LastValue(q, f, k)
    BY <1>2, ValueOfAppend
  <2>3. k \in DOMAIN out.obj \/ LastValue(q, f, k) = cache[k]
    BY <1>3, <2>1, CapAssumption
  <2> QED
    BY <1>2, <1>3, <2>2, <2>3 DEF Push
<1>4. CASE ~(Len(q) < Cap)
  <2>1. k \in DOMAIN Snapshot.obj /\ Snapshot.obj[k] = cache[k]
    BY <1>1
  <2>2. LastValue(<<Snapshot>>, f, k) = cache[k]
    BY <2>1, ValueOfOne
  <2>3. LastValue(<<Snapshot, out>>, f, k) = cache[k]
    BY <1>2, <2>1, ValueOfPair
  <2> QED
    BY <1>4, <2>2, <2>3 DEF Push
<1> QED
  BY <1>3, <1>4

\* What the second critical section of broadcast sends closes the gap of the first.
LEMMA SendLost ==
  ASSUME LostInv, Send PROVE NothingLost' /\ SendsNeverBlock'
<1> USE DEF LostInv
<1>1. /\ out # NoMsg /\ out' = NoMsg /\ UNCHANGED <<cache, pc, todo, view>>
      /\ queue' = [c \in Client |-> IF c \in clients THEN Push(queue[c], out) ELSE queue[c]]
      /\ primed' = primed \cup {c \in clients : Len(queue[c]) >= Cap}
  BY DEF Send
<1>2. /\ queue \in [Client -> Seq(Msg)] /\ primed \subseteq clients /\ clients \subseteq Client
  BY DEF TypeInv, WatchTypeOK, RunTypeOK
<1>3. NothingLost'
  <2> SUFFICES ASSUME NEW c \in primed', NEW k \in Key, ~InFlight(k)'
               PROVE  LastValue(queue'[c], view'[c], k) = cache'[k]
    BY DEF NothingLost
  <2>1. c \in clients /\ c \in Client /\ queue[c] \in Seq(Msg)
    BY <1>1, <1>2
  <2>2. queue'[c] = Push(queue[c], out) /\ view'[c] = view[c] /\ cache'[k] = cache[k]
    BY <1>1, <2>1
  <2>3. ~(pc = "deletions" /\ k \in todo)
    BY <1>1 DEF InFlight
  <2>4. c \in primed => k \in DOMAIN out.obj \/ LastValue(queue[c], view[c], k) = cache[k]
    BY <2>3 DEF NothingLost, InFlight
  <2>5. Len(queue[c]) >= Cap \/ k \in DOMAIN out.obj
        \/ LastValue(queue[c], view[c], k) = cache[k]
    BY <1>1, <2>4
  <2> QED
    BY <1>1, <2>1, <2>2, <2>5, PushValue
<1>4. SendsNeverBlock'
  <2> SUFFICES ASSUME NEW c \in Client PROVE Len(queue'[c]) <= Cap
    BY DEF SendsNeverBlock
  <2>1. queue[c] \in Seq(Msg) /\ Len(queue[c]) <= Cap
    BY <1>2 DEF SendsNeverBlock
  <2>2. Len(Push(queue[c], out)) <= Cap
    BY <2>1, SendsFit DEF Push
  <2> QED
    BY <1>1, <2>1, <2>2
<1> QED
  BY <1>3, <1>4

\* Every page is primed by the snapshot that ends a list.
LEMMA BroadcastSnapshotLost ==
  ASSUME LostInv, BroadcastSnapshot PROVE NothingLost' /\ SendsNeverBlock'
<1> USE DEF LostInv
<1>1. /\ UNCHANGED <<cache, view>> /\ primed' = clients
      /\ queue' = [c \in Client |-> IF c \in clients THEN PushSnapshot(queue[c]) ELSE queue[c]]
  BY DEF BroadcastSnapshot
<1>2. queue \in [Client -> Seq(Msg)] /\ clients \subseteq Client
  BY DEF TypeInv, WatchTypeOK, RunTypeOK
<1>3. NothingLost'
  <2> SUFFICES ASSUME NEW c \in primed', NEW k \in Key
               PROVE  LastValue(queue'[c], view'[c], k) = cache'[k]
    BY DEF NothingLost
  <2>1. c \in Client /\ queue[c] \in Seq(Msg) /\ queue'[c] = PushSnapshot(queue[c])
    BY <1>1, <1>2
  <2> QED
    BY <1>1, <2>1, PushSnapshotValue
<1>4. SendsNeverBlock'
  <2> SUFFICES ASSUME NEW c \in Client PROVE Len(queue'[c]) <= Cap
    BY DEF SendsNeverBlock
  <2>1. queue[c] \in Seq(Msg) /\ Len(queue[c]) <= Cap
    BY <1>2 DEF SendsNeverBlock
  <2>2. Len(PushSnapshot(queue[c])) <= Cap
    BY <2>1, SendsFit DEF PushSnapshot
  <2> QED
    BY <1>1, <2>1, <2>2
<1> QED
  BY <1>3, <1>4

\* The program starts without subscribers, and every step keeps the invariant.
LEMMA LostInvariance == WatchSpec => []LostInv
<1>1. WatchInit => LostInv
  <2>1. WatchInit => NothingLost
    BY DEF WatchInit, NothingLost
  <2>2. WatchInit => SendsNeverBlock
    BY CapAssumption DEF WatchInit, SendsNeverBlock
  <2> QED
    BY <2>1, <2>2, TypeInit DEF LostInv
<1>2. LostInv /\ [WatchNext]_vars => LostInv'
  <2> SUFFICES ASSUME LostInv, [WatchNext]_vars PROVE LostInv'
    OBVIOUS
  <2>1. TypeInv'
    BY TypeStep DEF LostInv
  <2>2. CASE UNCHANGED vars
    <3>1. UNCHANGED <<queue, view, primed, cache, out, pc, todo>>
      BY <2>2 DEF vars, dataVars
    <3>2. \A k \in Key : InFlight(k)' \/ (cache'[k] = cache[k] /\ ~InFlight(k))
      BY <3>1 DEF InFlight
    <3> QED
      BY <2>1, <3>1, <3>2, QuietLost DEF LostInv, SendsNeverBlock
  <2>3. CASE WatchNext
    <3>1. NothingLost' /\ SendsNeverBlock'
      BY <2>3, OtherLost, SubscribeLost, DeliverLost, SendLost, RunLost, BroadcastSnapshotLost
         DEF WatchNext, RunStep
    <3> QED
      BY <2>1, <3>1 DEF LostInv
  <2> QED
    BY <2>2, <2>3
<1> QED
  BY <1>1, <1>2, PTL DEF WatchSpec

\* No change of the cache, and above all no deletion, is lost for a page that was sent
\* a snapshot: whatever subscribes, reads slowly and overflows between the two critical
\* sections of broadcast (watchmgr.go: broadcast, addClient, sendOrResync).
THEOREM NoChangeLost == WatchSpec => []NothingLost
<1>1. LostInv => NothingLost
  BY DEF LostInv
<1> QED
  BY <1>1, LostInvariance, PTL

\* A channel always has room for a message that is sent under the entry's mutex without
\* looking.
THEOREM NoSendBlocks == WatchSpec => []SendsNeverBlock
<1>1. LostInv => SendsNeverBlock
  BY DEF LostInv
<1> QED
  BY <1>1, LostInvariance, PTL
-----------------------------------------------------------------------------
(* RefusalIsLast.                                                          *)

EndsWithError(c) ==
    IF queue[c] = <<>> THEN shown[c] \in {"loading", "error"}
    ELSE queue[c][Len(queue[c])].type = "ERROR"

\* What a page sees that has no channel.
GoneHasNothing ==
    \A c \in Client \ clients : queue[c] = <<>> /\ shown[c] \in {"loading", "error"}

\* A run that returns, and was not told to stop, was refused; after it sent the error
\* nothing else is sent before the next run.
Refusing ==
    phase = "returning" /\ ~stopping =>
        /\ refused
        /\ out = Error \/ (out = NoMsg /\ \A c \in clients : EndsWithError(c))

AtRest ==
    phase = "none" => ~stopping /\ out = NoMsg /\ \A c \in clients : EndsWithError(c)

RefusalInv == TypeInv /\ GoneHasNothing /\ Refusing /\ AtRest

\* Inside its loop a run makes no promise about what comes last.
LEMMA RunRefusal ==
  ASSUME RefusalInv, RunStep PROVE GoneHasNothing' /\ Refusing' /\ AtRest'
<1>1. clients' = clients /\ shown' = shown /\ (\A c \in Client \ clients : queue'[c] = queue[c])
  <2>1. CASE BroadcastSnapshot
    BY <2>1 DEF BroadcastSnapshot, runVars
  <2>2. CASE ~BroadcastSnapshot
    BY <2>2 DEF RunStep, ListOk, Listed, ListFails, BroadcastItem, BroadcastDeletion,
                DeleteMissingCached, BroadcastSynced, WatchOpens, WatchFails, Receive,
                WatchReports, WatchEnds, PauseOver, ForbiddenReturn, Forbidden, StopReturn,
                Stopped, runVars
  <2> QED
    BY <2>1, <2>2
<1>2. GoneHasNothing'
  BY <1>1 DEF RefusalInv, GoneHasNothing
<1>3. CASE ForbiddenReturn
  <2>1. phase' = "returning" /\ refused' /\ out' = Error
    BY <1>3 DEF ForbiddenReturn, Forbidden
  <2> QED
    BY <1>2, <2>1 DEF Refusing, AtRest
<1>4. CASE StopReturn
  <2>1. phase' = "returning" /\ stopping'
    BY <1>4 DEF StopReturn, Stopped
  <2> QED
    BY <1>2, <2>1 DEF Refusing, AtRest
<1>5. CASE ~ForbiddenReturn /\ ~StopReturn
  <2>1. phase' = phase /\ phase = "live"
    BY <1>5 DEF RunStep, ListOk, Listed, ListFails, BroadcastItem, BroadcastDeletion,
                DeleteMissingCached, BroadcastSnapshot, BroadcastSynced, WatchOpens, WatchFails,
                Receive, WatchReports, WatchEnds, PauseOver, RunAt, runVars
  <2> QED
    BY <1>2, <2>1 DEF Refusing, AtRest
<1> QED
  BY <1>3, <1>4, <1>5

\* The requests that open no channel, the cluster and the entry's lock.
LEMMA OtherRefusal ==
  ASSUME RefusalInv,
         \/ \E c \in Client : Lookup(c) \/ StoreIfAbsent(c) \/ NewEntryFails(c)
         \/ (\E k \in Key : Change(k)) \/ RunStarts \/ RunEnds \/ RunIsStopped
         \/ UNCHANGED vars
  PROVE  GoneHasNothing' /\ Refusing' /\ AtRest'
<1>1. UNCHANGED <<clients, queue, out>>
  BY DEF Lookup, StoreIfAbsent, NewEntryFails, Change, RunStarts, RunEnds, RunIsStopped,
         Start, Ended, Stop, vars, dataVars, runVars
<1>2. shown \in [Client -> {"loading", "ready", "error"}] /\ clients \subseteq Client
  BY DEF RefusalInv, TypeInv, WatchTypeOK, RunTypeOK
<1>3. \A c \in Client : shown'[c] = shown[c] \/ shown'[c] = "error"
  <2>1. CASE \E x \in Client : NewEntryFails(x)
    <3>1. PICK x \in Client : shown' = [shown EXCEPT ![x] = "error"]
      BY <2>1 DEF NewEntryFails
    <3> QED
      BY <1>2, <3>1
  <2>2. CASE ~\E x \in Client : NewEntryFails(x)
    BY <2>2 DEF Lookup, StoreIfAbsent, Change, RunStarts, RunEnds, RunIsStopped, vars,
                dataVars
  <2> QED
    BY <2>1, <2>2
<1>4. GoneHasNothing' /\ (\A c \in clients : EndsWithError(c) => EndsWithError(c)')
  BY <1>1, <1>2, <1>3 DEF RefusalInv, GoneHasNothing, EndsWithError
<1>5. CASE RunEnds
  <2>1. /\ phase = "returning" /\ out = NoMsg /\ ~stopping'
        /\ phase' = IF stopping /\ clients # {} THEN "owed" ELSE "none"
    BY <1>5 DEF RunEnds, Ended
  <2>2. CASE stopping /\ clients # {}
    BY <1>4, <2>1, <2>2 DEF Refusing, AtRest
  <2>3. CASE clients = {}
    BY <1>1, <1>4, <2>1, <2>3 DEF Refusing, AtRest
  <2>4. CASE ~stopping
    <3>1. \A c \in clients : EndsWithError(c)
      BY <2>1, <2>4, MessageKinds DEF RefusalInv, Refusing
    <3> QED
      BY <1>1, <1>4, <2>1, <2>4, <3>1 DEF Refusing, AtRest
  <2> QED
    BY <2>2, <2>3, <2>4
<1>6. CASE RunStarts
  <2>1. phase' = "live"
    BY <1>6 DEF RunStarts, Start
  <2> QED
    BY <1>4, <2>1 DEF Refusing, AtRest
<1>7. CASE RunIsStopped
  <2>1. phase' # "none" /\ stopping'
    BY <1>7 DEF RunIsStopped, Stop
  <2> QED
    BY <1>4, <2>1 DEF Refusing, AtRest
<1>8. CASE ~RunEnds /\ ~RunStarts /\ ~RunIsStopped
  <2>1. UNCHANGED <<phase, stopping, refused>>
    BY <1>8 DEF Lookup, StoreIfAbsent, NewEntryFails, Change, vars, runVars
  <2> QED
    BY <1>1, <1>4, <2>1 DEF RefusalInv, Refusing, AtRest
<1> QED
  BY <1>5, <1>6, <1>7, <1>8

\* A page that joins while the run returns is sent the error after its snapshot, and one
\* that finds no run begins one.
LEMMA SubscribeRefusal ==
  ASSUME RefusalInv, NEW c \in Client, Subscribe(c)
  PROVE  GoneHasNothing' /\ Refusing' /\ AtRest'
<1>1. /\ c \notin clients /\ clients' = clients \cup {c} /\ UNCHANGED <<stopping, refused>>
      /\ phase' = IF phase = "none" THEN "owed" ELSE phase
      /\ UNCHANGED <<out, shown>>
      /\ \/ queue' = [queue EXCEPT ![c] = Greeting]
         \/ queue' = queue
  BY DEF Subscribe, Join
<1>2. queue \in [Client -> Seq(Msg)] /\ clients \subseteq Client
  BY DEF RefusalInv, TypeInv, WatchTypeOK, RunTypeOK
<1>3. \A x \in Client \ {c} : queue'[x] = queue[x] /\ shown'[x] = shown[x]
  BY <1>1, <1>2
<1>4. GoneHasNothing'
  BY <1>1, <1>3 DEF RefusalInv, GoneHasNothing
<1>5. phase' # "none"
  BY <1>1
<1>6. ASSUME phase' = "returning", ~stopping' PROVE Refusing'
  <2>1. refused /\ (out = Error \/ (out = NoMsg /\ \A x \in clients : EndsWithError(x)))
    BY <1>1, <1>6 DEF RefusalInv, Refusing
  <2>2. \A x \in clients : EndsWithError(x) => EndsWithError(x)'
    BY <1>1, <1>2, <1>3 DEF EndsWithError
  <2>3. EndsWithError(c)'
    <3>1. CASE queue' = queue
      BY <1>1, <3>1 DEF RefusalInv, GoneHasNothing, EndsWithError
    <3>2. CASE queue' = [queue EXCEPT ![c] = Greeting]
      <4>1. queue'[c] = <<Snapshot, Error>>
        BY <1>2, <2>1, <3>2 DEF Greeting
      <4> DEFINE snap == Snapshot
                 err == Error
      <4>2. queue'[c] = <<snap, err>> /\ err.type = "ERROR"
        BY <4>1, MessageKinds
      <4> HIDE DEF snap, err
      <4>3. queue'[c] # <<>> /\ Len(queue'[c]) = 2 /\ queue'[c][2] = err
        BY <4>2
      <4> QED
        BY <4>2, <4>3 DEF EndsWithError
    <3> QED
      BY <1>1, <3>1, <3>2
  <2> QED
    BY <1>1, <2>1, <2>2, <2>3 DEF Refusing
<1> QED
  BY <1>4, <1>5, <1>6 DEF Refusing, AtRest

\* A page that goes leaves no channel, and no error it did not see.
LEMMA LeaveRefusal ==
  ASSUME RefusalInv, NEW c \in Client, Disconnect(c) \/ ClosePage(c)
  PROVE  GoneHasNothing' /\ Refusing' /\ AtRest'
<1>1. /\ c \in clients /\ clients' = clients \ {c} /\ UNCHANGED <<phase, stopping, refused, out>>
      /\ queue' = [queue EXCEPT ![c] = <<>>]
      /\ \E s \in {"loading", "error"} : shown' = [shown EXCEPT ![c] = s]
  BY DEF Disconnect, ClosePage, Leave
<1>2. /\ queue \in [Client -> Seq(Msg)] /\ clients \subseteq Client
      /\ shown \in [Client -> {"loading", "ready", "error"}]
  BY DEF RefusalInv, TypeInv, WatchTypeOK, RunTypeOK
<1>3. \A x \in Client \ {c} : queue'[x] = queue[x] /\ shown'[x] = shown[x]
  BY <1>1, <1>2
<1>4. queue'[c] = <<>> /\ shown'[c] \in {"loading", "error"}
  BY <1>1, <1>2
<1>5. GoneHasNothing'
  BY <1>1, <1>3, <1>4 DEF RefusalInv, GoneHasNothing
<1>6. \A x \in clients' : x \in clients /\ (EndsWithError(x) => EndsWithError(x)')
  BY <1>1, <1>2, <1>3 DEF EndsWithError
<1> QED
  BY <1>1, <1>5, <1>6 DEF RefusalInv, Refusing, AtRest

\* Taking a message out of a channel leaves the last one there, or in the page.
LEMMA DeliverRefusal ==
  ASSUME RefusalInv, NEW c \in Client, Deliver(c)
  PROVE  GoneHasNothing' /\ Refusing' /\ AtRest'
<1>1. /\ c \in clients /\ UNCHANGED <<clients, phase, stopping, refused, out>>
      /\ queue[c] # <<>> /\ queue' = [queue EXCEPT ![c] = Tail(@)]
      /\ shown' = [shown EXCEPT ![c] = ShownAfter(Head(queue[c]), @)]
  BY DEF Deliver, runVars
<1>2. /\ queue \in [Client -> Seq(Msg)] /\ clients \subseteq Client
      /\ shown \in [Client -> {"loading", "ready", "error"}]
  BY DEF RefusalInv, TypeInv, WatchTypeOK, RunTypeOK
<1>3. \A x \in Client \ {c} : queue'[x] = queue[x] /\ shown'[x] = shown[x]
  BY <1>1, <1>2
<1>4. GoneHasNothing'
  BY <1>1, <1>3 DEF RefusalInv, GoneHasNothing
<1>5. EndsWithError(c) => EndsWithError(c)'
  <2> SUFFICES ASSUME EndsWithError(c) PROVE EndsWithError(c)'
    OBVIOUS
  <2> DEFINE q == queue[c]
             n == Len(q)
  <2>1. q \in Seq(Msg) /\ q # <<>> /\ queue'[c] = Tail(q) /\ q[n].type = "ERROR"
        /\ shown'[c] = ShownAfter(Head(q), shown[c])
    BY <1>1, <1>2 DEF EndsWithError
  <2> HIDE DEF q
  <2>2. /\ n \in Nat \ {0} /\ Len(Tail(q)) = n - 1 /\ Head(q) = q[1]
        /\ n > 1 => Tail(q) # <<>> /\ Tail(q)[n - 1] = q[n]
        /\ n = 1 => Tail(q) = <<>>
    <3>1. n \in Nat \ {0} /\ Len(Tail(q)) = n - 1 /\ Head(q) = q[1] /\ Tail(q) \in Seq(Msg)
      BY <2>1
    <3>2. n > 1 => Tail(q)[n - 1] = q[n]
      <4>1. \A i \in 1..n - 1 : Tail(q)[i] = q[i + 1]
        BY <2>1
      <4>2. n > 1 => n - 1 \in 1..n - 1 /\ (n - 1) + 1 = n
        BY <3>1
      <4> QED
        BY <4>1, <4>2
    <3>3. (n > 1 => Tail(q) # <<>>) /\ (n = 1 => Tail(q) = <<>>)
      <4>1. \A t \in Seq(Msg) : t = <<>> <=> Len(t) = 0
        OBVIOUS
      <4> HIDE DEF n
      <4>2. (n > 1 => n - 1 # 0) /\ (n = 1 => n - 1 = 0)
        BY <3>1
      <4> QED
        BY <3>1, <4>1, <4>2
    <3> QED
      BY <3>1, <3>2, <3>3
  <2>3. CASE n = 1
    <3>1. Head(q).type = "ERROR" /\ queue'[c] = <<>>
      BY <2>1, <2>2, <2>3
    <3>2. shown'[c] = "error"
      BY <2>1, <3>1 DEF ShownAfter
    <3> QED
      BY <3>1, <3>2 DEF EndsWithError
  <2>4. CASE n > 1
    <3>1. queue'[c] # <<>> /\ Len(queue'[c]) = n - 1 /\ queue'[c][n - 1].type = "ERROR"
      BY <2>1, <2>2, <2>4
    <3> QED
      BY <3>1 DEF EndsWithError
  <2> QED
    BY <2>2, <2>3, <2>4
<1>6. \A x \in clients : EndsWithError(x) => EndsWithError(x)'
  BY <1>2, <1>3, <1>5 DEF EndsWithError
<1> QED
  BY <1>1, <1>4, <1>6 DEF RefusalInv, Refusing, AtRest

\* The error comes last in every channel it is sent to.
LEMMA SendRefusal ==
  ASSUME RefusalInv, Send PROVE GoneHasNothing' /\ Refusing' /\ AtRest'
<1>1. /\ out # NoMsg /\ out' = NoMsg
      /\ UNCHANGED <<clients, phase, stopping, refused, shown>>
      /\ queue' = [c \in Client |-> IF c \in clients THEN Push(queue[c], out) ELSE queue[c]]
  BY DEF Send, runVars
<1>2. queue \in [Client -> Seq(Msg)] /\ clients \subseteq Client
  BY DEF RefusalInv, TypeInv, WatchTypeOK, RunTypeOK
<1>3. GoneHasNothing'
  BY <1>1, <1>2 DEF RefusalInv, GoneHasNothing
<1>4. AtRest'
  BY <1>1 DEF RefusalInv, AtRest
<1>5. ASSUME phase = "returning", ~stopping, NEW c \in clients PROVE EndsWithError(c)'
  <2> DEFINE q == queue[c]
             err == Error
             snap == Snapshot
  <2>1. out = err /\ queue'[c] = Push(q, out) /\ q \in Seq(Msg) /\ err.type = "ERROR"
    BY <1>1, <1>2, <1>5, MessageKinds DEF RefusalInv, Refusing
  <2>2. queue'[c] = Append(q, err) \/ queue'[c] = <<snap, err>>
    BY <2>1, MessageKinds DEF Push
  <2> HIDE DEF q, err, snap
  <2>3. CASE queue'[c] = Append(q, err)
    <3>1. queue'[c] # <<>> /\ queue'[c][Len(queue'[c])] = err
      BY <2>1, <2>3
    <3> QED
      BY <2>1, <3>1 DEF EndsWithError
  <2>4. CASE queue'[c] = <<snap, err>>
    <3>1. queue'[c] # <<>> /\ Len(queue'[c]) = 2 /\ queue'[c][2] = err
      BY <2>4
    <3> QED
      BY <2>1, <3>1 DEF EndsWithError
  <2> QED
    BY <2>2, <2>3, <2>4
<1>6. Refusing'
  <2> SUFFICES ASSUME phase = "returning", ~stopping
               PROVE  refused /\ \A c \in clients : EndsWithError(c)'
    BY <1>1 DEF Refusing
  <2> QED
    BY <1>5 DEF RefusalInv, Refusing
<1> QED
  BY <1>3, <1>4, <1>6

LEMMA RefusalInvariance == WatchSpec => []RefusalInv
<1>1. WatchInit => RefusalInv
  <2> SUFFICES ASSUME WatchInit PROVE RefusalInv
    OBVIOUS
  <2>1. /\ clients = {} /\ phase = "none" /\ ~stopping /\ out = NoMsg
        /\ queue = [c \in Client |-> <<>>] /\ shown = [c \in Client |-> "loading"]
    BY DEF WatchInit, RunInit
  <2> QED
    BY <2>1, TypeInit DEF RefusalInv, GoneHasNothing, Refusing, AtRest
<1>2. RefusalInv /\ [WatchNext]_vars => RefusalInv'
  <2> SUFFICES ASSUME RefusalInv, [WatchNext]_vars PROVE RefusalInv'
    OBVIOUS
  <2>1. TypeInv'
    BY TypeStep DEF RefusalInv
  <2>2. GoneHasNothing' /\ Refusing' /\ AtRest'
    BY RunRefusal, OtherRefusal, SubscribeRefusal, LeaveRefusal, DeliverRefusal, SendRefusal
       DEF WatchNext
  <2> QED
    BY <2>1, <2>2 DEF RefusalInv
<1> QED
  BY <1>1, <1>2, PTL DEF WatchSpec

\* A run that ends while pages subscribe was refused access. Each of these pages that was
\* sent a snapshot, or any message, has the error or has it ahead, and nothing that clears
\* loadError comes after it; a page that was never told anything and still loads, the
\* overtaken creator, is left out (watchmgr.go: setTerminalError, addClient and broadcast;
\* useResourceStream.ts).
THEOREM RefusalComesLast == WatchSpec => []RefusalIsLast
<1>1. RefusalInv => RefusalIsLast
  BY DEF RefusalInv, AtRest, EndsWithError, RefusalIsLast
<1> QED
  BY <1>1, RefusalInvariance, PTL
-----------------------------------------------------------------------------
(* HandoffComplete.                                                        *)

\* While the list is broadcast, it and the events of the watch that will follow it make
\* up the cluster's state, and its items are in the cache once they were broadcast.
ListCurrent ==
    phase = "live" /\ pc = "items"
        => \A k \in Key :
              /\ LastValue(events, listed, k) = store[k]
              /\ k \in todo => Exists(listed[k])
              /\ Exists(listed[k]) => k \in todo \/ cache[k] = listed[k]

\* deleteMissingCached has removed from the cache what it has still to broadcast.
DeletedFirst ==
    phase = "live" /\ pc = "deletions" => \A k \in todo : cache[k] = listed[k]

HandInv == TypeInv /\ ListCurrent /\ DeletedFirst /\ HandoffComplete

\* Steps outside the run do not touch what it hands over.
LEMMA OtherHandoff ==
  ASSUME HandInv,
         \/ \E c \in Client : \/ Lookup(c) \/ StoreIfAbsent(c) \/ NewEntryFails(c)
                              \/ Subscribe(c) \/ Disconnect(c) \/ ClosePage(c) \/ Deliver(c)
         \/ Send \/ RunStarts \/ RunEnds \/ RunIsStopped \/ UNCHANGED vars
  PROVE  ListCurrent' /\ DeletedFirst' /\ HandoffComplete'
<1>1. UNCHANGED <<store, events, pc, listed, todo, cache>>
  BY DEF Lookup, StoreIfAbsent, NewEntryFails, Subscribe, Disconnect, ClosePage, Deliver,
         Send, RunStarts, RunEnds, RunIsStopped, vars, dataVars
<1>2. phase' = "live" => phase = "live" \/ pc = "list"
  BY DEF Lookup, StoreIfAbsent, NewEntryFails, Subscribe, Join, Disconnect, ClosePage, Leave,
         Deliver, Send, RunStarts, Start, RunEnds, Ended, RunIsStopped, Stop, vars, runVars,
         HandInv, TypeInv, BeginsAtList
<1> QED
  BY <1>1, <1>2 DEF HandInv, ListCurrent, DeletedFirst, HandoffComplete

\* A change in the cluster is the last of the events, or before the next list.
LEMMA ChangeHandoff ==
  ASSUME HandInv, NEW j \in Key, Change(j)
  PROVE  ListCurrent' /\ DeletedFirst' /\ HandoffComplete'
<1>1. UNCHANGED <<phase, pc, listed, todo, cache>>
  BY DEF Change, runVars
<1>2. CASE ~Following
  BY <1>1, <1>2 DEF Following, ListCurrent, DeletedFirst, HandoffComplete
<1>3. CASE Following
  <2>1. PICK n \in Ver : /\ store' = [store EXCEPT ![j] = n]
                         /\ events' = Append(events, Delta(j, n))
    BY <1>3 DEF Change
  <2>2. /\ store \in [Key -> Ver] /\ events \in Seq(DeltaSet) /\ Delta(j, n) \in DeltaSet
        /\ DOMAIN Delta(j, n).obj = {j} /\ Delta(j, n).obj[j] = n
    <3>1. store \in [Key -> Ver] /\ events \in Seq(DeltaSet)
      BY DEF HandInv, TypeInv, WatchTypeOK, DeltaSet
    <3> QED
      BY <3>1, MessageKinds
  <2> DEFINE d == Delta(j, n)
  <2>3. ASSUME NEW f, NEW k \in Key
        PROVE  LastValue(events', f, k) =
                 IF k = j THEN store'[k] ELSE LastValue(events, f, k)
    <3>1. LastValue(Append(events, d), f, k) =
            IF k \in DOMAIN d.obj THEN d.obj[k] ELSE LastValue(events, f, k)
      BY <2>2, ValueOfAppend
    <3> QED
      BY <2>1, <2>2, <3>1
  <2>4. \A k \in Key : k # j => store'[k] = store[k]
    BY <2>1, <2>2
  <2>5. ListCurrent'
    BY <1>1, <2>3, <2>4 DEF HandInv, ListCurrent
  <2>6. HandoffComplete'
    BY <1>1, <2>3, <2>4 DEF HandInv, HandoffComplete, Same
  <2> QED
    BY <1>1, <2>5, <2>6 DEF HandInv, DeletedFirst
<1> QED
  BY <1>2, <1>3

\* Once the items are broadcast the cache holds them, and without what is missing in the
\* list it is the list; then its changes are the list's.
LEMMA DeleteMissingHandoff ==
  ASSUME HandInv, DeleteMissingCached PROVE ListCurrent' /\ DeletedFirst' /\ HandoffComplete'
<1>1. /\ phase = "live" /\ pc = "items" /\ todo = {} /\ todo' = Missing /\ pc' = "deletions"
      /\ cache' = [k \in Key |-> IF k \in Missing THEN listed[k] ELSE cache[k]]
      /\ UNCHANGED <<store, events, listed>>
  BY DEF DeleteMissingCached, RunAt
<1>2. DeletedFirst'
  <2>1. \A k \in Missing : k \in Key /\ cache'[k] = listed[k]
    BY <1>1 DEF Missing
  <2> QED
    BY <1>1, <2>1 DEF DeletedFirst
<1>3. ASSUME NEW k \in Key PROVE Same(LastValue(events', cache', k), store'[k])
  <2>1. LastValue(events, listed, k) = store[k]
        /\ (Exists(listed[k]) => cache[k] = listed[k])
    BY <1>1 DEF HandInv, ListCurrent
  <2>2. Same(cache'[k], listed[k])
    BY <1>1, <2>1 DEF Same, Missing
  <2>3. \/ LastValue(events, cache', k) = LastValue(events, listed, k)
        \/ /\ LastValue(events, cache', k) = cache'[k]
           /\ LastValue(events, listed, k) = listed[k]
    BY ValueOrOwn
  <2> QED
    BY <1>1, <2>1, <2>2, <2>3 DEF Same
<1>4. HandoffComplete'
  BY <1>3 DEF HandoffComplete
<1> QED
  BY <1>1, <1>2, <1>4 DEF ListCurrent

\* The steps of the run.
LEMMA RunHandoff ==
  ASSUME HandInv, RunStep PROVE ListCurrent' /\ DeletedFirst' /\ HandoffComplete'
<1>1. cache \in [Key -> Ver] /\ events \in Seq(DeltaSet)
  BY DEF HandInv, TypeInv, WatchTypeOK, DeltaSet
<1>2. CASE \/ ListFails \/ WatchFails \/ WatchEnds \/ PauseOver \/ ForbiddenReturn \/ StopReturn
  <2>1. pc' \in {"list", "pause"}
    BY <1>2 DEF ListFails, WatchFails, WatchEnds, PauseOver, ForbiddenReturn, StopReturn
  <2> QED
    BY <2>1 DEF ListCurrent, DeletedFirst, HandoffComplete
<1>3. CASE BroadcastSnapshot \/ BroadcastSynced \/ WatchOpens \/ WatchReports
  <2>1. /\ phase = "live" /\ pc \in {"deletions", "synced", "open", "watching"}
        /\ pc' \in {"synced", "open", "watching"} /\ UNCHANGED <<store, events, cache>>
    BY <1>3 DEF BroadcastSnapshot, BroadcastSynced, WatchOpens, WatchReports, RunAt
  <2> QED
    BY <2>1 DEF HandInv, ListCurrent, DeletedFirst, HandoffComplete
<1>4. CASE ListOk
  <2>1. /\ pc' = "items" /\ store' = store /\ listed' = store /\ events' = <<>>
        /\ todo' = {k \in Key : Exists(store[k])}
    BY <1>4 DEF ListOk
  <2>2. \A k \in Key : LastValue(<<>>, store, k) = store[k]
    BY ValueOfEmpty
  <2> QED
    BY <2>1, <2>2 DEF ListCurrent, DeletedFirst, HandoffComplete
<1>5. ASSUME NEW j \in Key, BroadcastItem(j)
      PROVE  ListCurrent' /\ DeletedFirst' /\ HandoffComplete'
  <2>1. /\ phase = "live" /\ pc = "items" /\ pc' = "items" /\ UNCHANGED <<store, events, listed>>
        /\ todo' = todo \ {j} /\ cache' = [cache EXCEPT ![j] = listed[j]]
    BY <1>5 DEF BroadcastItem, RunAt
  <2>2. cache'[j] = listed[j] /\ \A k \in Key : k # j => cache'[k] = cache[k]
    BY <1>1, <2>1
  <2>3. ListCurrent'
    BY <2>1, <2>2 DEF HandInv, ListCurrent
  <2> QED
    BY <2>1, <2>3 DEF DeletedFirst, HandoffComplete
<1>6. CASE DeleteMissingCached
  BY <1>6, DeleteMissingHandoff
<1>7. ASSUME NEW j \in Key, BroadcastDeletion(j)
      PROVE  ListCurrent' /\ DeletedFirst' /\ HandoffComplete'
  <2>1. /\ phase = "live" /\ pc = "deletions" /\ pc' = "deletions"
        /\ UNCHANGED <<phase, store, events, listed>> /\ j \in todo
        /\ todo' = todo \ {j} /\ cache' = [cache EXCEPT ![j] = listed[j]]
    BY <1>7 DEF BroadcastDeletion, RunAt, runVars
  <2>2. cache' = cache
    BY <1>1, <2>1 DEF HandInv, DeletedFirst
  <2> QED
    BY <2>1, <2>2 DEF HandInv, ListCurrent, DeletedFirst, HandoffComplete
<1>8. CASE Receive
  <2>1. /\ phase = "live" /\ pc = "watching" /\ pc' = "watching" /\ events # <<>>
        /\ store' = store /\ events' = Tail(events) /\ cache' = Apply(cache, Head(events))
    BY <1>8 DEF Receive, RunAt
  <2>2. \A k \in Key : LastValue(events', cache', k) = LastValue(events, cache, k)
    BY <1>1, <2>1, ValueOfTail
  <2> QED
    BY <2>1, <2>2 DEF HandInv, ListCurrent, DeletedFirst, HandoffComplete
<1> QED
  BY <1>2, <1>3, <1>4, <1>5, <1>6, <1>7, <1>8 DEF RunStep

LEMMA HandInvariance == WatchSpec => []HandInv
<1>1. WatchInit => HandInv
  <2>1. WatchInit => pc = "list"
    BY DEF WatchInit
  <2> QED
    BY <2>1, TypeInit DEF HandInv, ListCurrent, DeletedFirst, HandoffComplete
<1>2. HandInv /\ [WatchNext]_vars => HandInv'
  <2> SUFFICES ASSUME HandInv, [WatchNext]_vars PROVE HandInv'
    OBVIOUS
  <2>1. TypeInv'
    BY TypeStep DEF HandInv
  <2>2. ListCurrent' /\ DeletedFirst' /\ HandoffComplete'
    BY OtherHandoff, ChangeHandoff, RunHandoff DEF WatchNext
  <2> QED
    BY <2>1, <2>2 DEF HandInv
<1> QED
  BY <1>1, <1>2, PTL DEF WatchSpec

\* From deleteMissingCached to the end of the watch, the cache and the events that the
\* watch has ahead make up the cluster's state: nothing falls between the list and the
\* watch that starts at the list's version (watchmgr.go: run, deleteMissingCached).
THEOREM HandoffIsComplete == WatchSpec => []HandoffComplete
<1>1. HandInv => HandoffComplete
  BY DEF HandInv
<1> QED
  BY <1>1, HandInvariance, PTL

-----------------------------------------------------------------------------
(* Messages whose versions of an object only rise.                         *)

\* From a on, the messages of the sequence say ever later versions of k, up to b.
Rising(k, a, seq, b) ==
    /\ a <= b
    /\ \A i \in 1..Len(seq) : k \in DOMAIN seq[i].obj =>
          /\ a <= seq[i].obj[k] /\ seq[i].obj[k] <= b
          /\ \A j \in i + 1..Len(seq) :
                k \in DOMAIN seq[j].obj => seq[i].obj[k] <= seq[j].obj[k]

\* Versions are numbers.
LEMMA VersionsAreNumbers ==
  /\ Ver \subseteq Nat
  /\ \A m \in Msg, k \in Key : k \in DOMAIN m.obj => m.obj[k] \in Nat
  /\ \A s \in Seq(Msg), k \in Key :
       \A i \in 1..Len(s) : k \in DOMAIN s[i].obj => s[i].obj[k] \in Nat
<1>1. Ver \subseteq Nat
  BY MaxVerAssumption DEF Ver
<1>2. \A m \in Msg, k \in Key : k \in DOMAIN m.obj => m.obj[k] \in Nat
  BY <1>1, MessageObjects
<1>3. ASSUME NEW s \in Seq(Msg), NEW k \in Key, NEW i \in 1..Len(s), k \in DOMAIN s[i].obj
      PROVE  s[i].obj[k] \in Nat
  <2>1. s[i] \in Msg
    OBVIOUS
  <2> QED
    BY <1>2, <1>3, <2>1
<1> QED
  BY <1>1, <1>2, <1>3

\* The bounds may be wider.
LEMMA RisingWiden ==
  ASSUME NEW k \in Key, NEW seq \in Seq(Msg), NEW a \in Nat, NEW b \in Nat,
         NEW x \in Nat, NEW y \in Nat, Rising(k, a, seq, b), x <= a, b <= y
  PROVE  Rising(k, x, seq, y)
<1>1. \A i \in 1..Len(seq) : k \in DOMAIN seq[i].obj => seq[i].obj[k] \in Nat
  BY VersionsAreNumbers
<1>2. ASSUME NEW i \in 1..Len(seq), k \in DOMAIN seq[i].obj
      PROVE  x <= seq[i].obj[k] /\ seq[i].obj[k] <= y
  <2>1. a <= seq[i].obj[k] /\ seq[i].obj[k] <= b /\ seq[i].obj[k] \in Nat
    BY <1>1, <1>2 DEF Rising
  <2> QED
    BY <2>1
<1>3. x <= y
  BY DEF Rising
<1> QED
  BY <1>2, <1>3 DEF Rising

LEMMA RisingEmpty ==
  ASSUME NEW k, NEW a, NEW b, a <= b PROVE Rising(k, a, <<>>, b)
  BY DEF Rising

\* A message may follow that says what is no earlier than the upper bound.
LEMMA RisingAppend ==
  ASSUME NEW k \in Key, NEW seq \in Seq(Msg), NEW a \in Nat, NEW b \in Nat, NEW y \in Nat,
         Rising(k, a, seq, b), b <= y, NEW m \in Msg,
         k \in DOMAIN m.obj => b <= m.obj[k] /\ m.obj[k] <= y
  PROVE  Rising(k, a, Append(seq, m), y)
<1> DEFINE n == Len(seq)
           new == Append(seq, m)
<1>1. /\ n \in Nat /\ Len(new) = n + 1 /\ new[n + 1] = m /\ \A i \in 1..n : new[i] = seq[i]
  OBVIOUS
<1>2. /\ \A i \in 1..n : k \in DOMAIN seq[i].obj => seq[i].obj[k] \in Nat
      /\ k \in DOMAIN m.obj => m.obj[k] \in Nat
  BY VersionsAreNumbers
<1>3. Rising(k, a, seq, y)
  <2>1. a <= a
    OBVIOUS
  <2> QED
    BY <2>1, RisingWiden
<1>4. /\ a <= y /\ a <= b
      /\ \A i \in 1..n : k \in DOMAIN seq[i].obj =>
            /\ a <= seq[i].obj[k] /\ seq[i].obj[k] <= y /\ seq[i].obj[k] <= b
            /\ \A j \in i + 1..n :
                  k \in DOMAIN seq[j].obj => seq[i].obj[k] <= seq[j].obj[k]
  BY <1>3 DEF Rising
<1> HIDE DEF n, new
<1>5. \A i \in 1..n + 1 : i \in 1..n \/ i = n + 1
  BY <1>1
<1>6. ASSUME NEW i \in 1..n, k \in DOMAIN new[i].obj
      PROVE  /\ a <= new[i].obj[k] /\ new[i].obj[k] <= y
             /\ \A j \in i + 1..n + 1 : k \in DOMAIN new[j].obj => new[i].obj[k] <= new[j].obj[k]
  <2>1. new[i] = seq[i] /\ seq[i].obj[k] \in Nat
    BY <1>1, <1>2, <1>6
  <2>2. ASSUME NEW j \in i + 1..n + 1, k \in DOMAIN new[j].obj
        PROVE  new[i].obj[k] <= new[j].obj[k]
    <3>1. CASE j = n + 1
      <4>1. seq[i].obj[k] <= b /\ b <= m.obj[k] /\ m.obj[k] \in Nat /\ new[j] = m
        BY <1>1, <1>2, <1>4, <1>6, <2>1, <2>2, <3>1
      <4> QED
        BY <2>1, <4>1
    <3>2. CASE j # n + 1
      <4>1. j \in i + 1..n /\ j \in 1..n
        BY <1>1, <3>2
      <4>2. new[j] = seq[j]
        BY <1>1, <4>1
      <4> QED
        BY <1>4, <1>6, <2>1, <2>2, <4>1, <4>2
    <3> QED
      BY <3>1, <3>2
  <2> QED
    BY <1>4, <1>6, <2>1, <2>2
<1>7. ASSUME k \in DOMAIN m.obj PROVE a <= m.obj[k] /\ m.obj[k] <= y
  <2>1. m.obj[k] \in Nat /\ a <= b /\ b <= m.obj[k]
    BY <1>2, <1>4, <1>7
  <2> QED
    BY <1>7, <2>1
<1>8. \A j \in (n + 1) + 1..n + 1 : FALSE
  BY <1>1
<1>9. ASSUME NEW i \in 1..Len(new), k \in DOMAIN new[i].obj
      PROVE  /\ a <= new[i].obj[k] /\ new[i].obj[k] <= y
             /\ \A j \in i + 1..Len(new) :
                   k \in DOMAIN new[j].obj => new[i].obj[k] <= new[j].obj[k]
  <2>1. CASE i = n + 1
    BY <1>1, <1>7, <1>8, <1>9, <2>1
  <2>2. CASE i \in 1..n
    BY <1>1, <1>6, <1>9, <2>2
  <2> QED
    BY <1>1, <1>5, <2>1, <2>2
<1> QED
  BY <1>4, <1>9 DEF Rising, new

\* Who takes the first message goes forward, and has the rest before it.
LEMMA RisingTail ==
  ASSUME NEW k \in Key, NEW seq \in Seq(Msg), seq # <<>>, NEW a \in Nat, NEW b \in Nat,
         Rising(k, a, seq, b), NEW x,
         x = IF k \in DOMAIN Head(seq).obj THEN Head(seq).obj[k] ELSE a
  PROVE  a <= x /\ x <= b /\ Rising(k, x, Tail(seq), b)
<1> DEFINE n == Len(seq)
           rest == Tail(seq)
<1>1. /\ n \in Nat \ {0} /\ Len(rest) = n - 1 /\ Head(seq) = seq[1]
      /\ \A i \in 1..n - 1 : rest[i] = seq[i + 1]
  OBVIOUS
<1>2. \A i \in 1..n : k \in DOMAIN seq[i].obj => seq[i].obj[k] \in Nat
  BY VersionsAreNumbers
<1>3. /\ a <= b
      /\ \A i \in 1..n : k \in DOMAIN seq[i].obj =>
            /\ a <= seq[i].obj[k] /\ seq[i].obj[k] <= b
            /\ \A j \in i + 1..n :
                  k \in DOMAIN seq[j].obj => seq[i].obj[k] <= seq[j].obj[k]
  BY DEF Rising
<1> HIDE DEF n, rest
<1>4. 1 \in 1..n
  BY <1>1
<1>5. a <= x /\ x <= b
  BY <1>1, <1>3, <1>4
<1>6. ASSUME NEW i \in 1..n - 1, k \in DOMAIN rest[i].obj
      PROVE  /\ x <= rest[i].obj[k] /\ rest[i].obj[k] <= b
             /\ \A j \in i + 1..n - 1 :
                   k \in DOMAIN rest[j].obj => rest[i].obj[k] <= rest[j].obj[k]
  <2>1. rest[i] = seq[i + 1] /\ i + 1 \in 1..n /\ i + 1 \in 1 + 1..n
    BY <1>1
  <2>2. a <= rest[i].obj[k] /\ rest[i].obj[k] <= b
    BY <1>3, <1>6, <2>1
  <2>3. x <= rest[i].obj[k]
    <3>1. CASE k \in DOMAIN seq[1].obj
      BY <1>1, <1>3, <1>4, <1>6, <2>1, <3>1
    <3>2. CASE k \notin DOMAIN seq[1].obj
      BY <1>1, <2>2, <3>2
    <3> QED
      BY <3>1, <3>2
  <2>4. ASSUME NEW j \in i + 1..n - 1, k \in DOMAIN rest[j].obj
        PROVE  rest[i].obj[k] <= rest[j].obj[k]
    <3>1. rest[j] = seq[j + 1] /\ j + 1 \in (i + 1) + 1..n
      BY <1>1
    <3> QED
      BY <1>3, <1>6, <2>1, <2>4, <3>1
  <2> QED
    BY <2>2, <2>3, <2>4
<1> QED
  BY <1>1, <1>5, <1>6 DEF Rising, rest
-----------------------------------------------------------------------------
(* The invariant.                                                          *)

\* A page has a channel only while its request is open.
PagesOpen == \A c \in clients : sub[c] = "open"

\* From the page along its channel to the cache.
PagesRise == \A c \in Client, k \in Key : Rising(k, view[c][k], queue[c], cache[k])

\* From the cache to the cluster: at any time, while a list is broadcast, and then.
CacheBehind == \A k \in Key : cache[k] <= store[k]
ListRises ==
    phase = "live" /\ pc \in {"items", "deletions"}
        => \A k \in Key : cache[k] <= listed[k] /\ Rising(k, listed[k], events, store[k])
WatchRises ==
    phase = "live" /\ pc \in {"synced", "open", "watching"}
        => \A k \in Key : Rising(k, cache[k], events, store[k])

Rises == PagesOpen /\ PagesRise /\ CacheBehind /\ ListRises /\ WatchRises
ForwardInv == TypeInv /\ Rises

\* What the steps below need of the types.
LEMMA VersionTypes ==
  ASSUME TypeInv
  PROVE  /\ events \in Seq(Msg) /\ queue \in [Client -> Seq(Msg)] /\ clients \subseteq Client
         /\ store \in [Key -> Ver] /\ cache \in [Key -> Ver] /\ listed \in [Key -> Ver]
         /\ view \in [Client -> [Key -> Ver]] /\ sub \in [Client -> Sub]
         /\ \A k \in Key : store[k] \in Nat /\ cache[k] \in Nat /\ listed[k] \in Nat
         /\ \A c \in Client, k \in Key : view[c][k] \in Nat
<1>1. /\ events \in Seq(DeltaSet) /\ queue \in [Client -> Seq(Msg)] /\ clients \subseteq Client
      /\ store \in [Key -> Ver] /\ cache \in [Key -> Ver] /\ listed \in [Key -> Ver]
      /\ view \in [Client -> [Key -> Ver]] /\ sub \in [Client -> Sub]
  BY DEF TypeInv, WatchTypeOK, RunTypeOK, DeltaSet
<1>2. events \in Seq(Msg)
  <2>1. DeltaSet \subseteq Msg
    BY MessageKinds DEF DeltaSet
  <2> QED
    BY <1>1, <2>1
<1>3. \A k \in Key : store[k] \in Nat /\ cache[k] \in Nat /\ listed[k] \in Nat
  BY <1>1, VersionsAreNumbers
<1>4. \A c \in Client, k \in Key : view[c][k] \in Nat
  BY <1>1, VersionsAreNumbers
<1> QED
  BY <1>1, <1>2, <1>3, <1>4

\* A cache that only moves forward leaves the channels in order.
LEMMA CacheGrows ==
  ASSUME TypeInv, TypeInv', PagesRise, UNCHANGED <<queue, view>>,
         \A k \in Key : cache[k] <= cache'[k]
  PROVE  PagesRise'
<1> SUFFICES ASSUME NEW c \in Client, NEW k \in Key
             PROVE  Rising(k, view[c][k], queue[c], cache'[k])
  BY DEF PagesRise
<1>1. /\ queue[c] \in Seq(Msg) /\ view[c][k] \in Nat /\ cache[k] \in Nat
      /\ view[c][k] <= view[c][k]
  BY VersionTypes
<1>2. cache'[k] \in Nat /\ cache[k] <= cache'[k]
  <2>1. cache' \in [Key -> Ver]
    BY DEF TypeInv, WatchTypeOK
  <2> QED
    BY <2>1, VersionsAreNumbers
<1>3. Rising(k, view[c][k], queue[c], cache[k])
  BY DEF PagesRise
<1> QED
  BY <1>1, <1>2, <1>3, RisingWiden

\* A channel that is sent the cache, after what is in it or instead.
LEMMA SnapshotRises ==
  ASSUME TypeInv, NEW k \in Key, NEW a \in Nat, NEW q \in Seq(Msg),
         Rising(k, a, q, cache[k])
  PROVE  /\ Rising(k, a, Append(q, Snapshot), cache[k])
         /\ Rising(k, a, <<Snapshot>>, cache[k])
         /\ \A m \in Msg : (k \in DOMAIN m.obj => m.obj[k] = cache[k])
                              => Rising(k, a, <<Snapshot, m>>, cache[k])
<1> DEFINE snap == Snapshot
           b == cache[k]
<1>1. snap \in Msg /\ (k \in DOMAIN snap.obj => snap.obj[k] = b) /\ b \in Nat /\ b <= b
  BY SnapshotHolds, VersionTypes
<1>2. Rising(k, a, q, b) /\ a <= b
  BY DEF Rising
<1> HIDE DEF snap, b
<1>3. Rising(k, a, Append(q, snap), b)
  BY <1>1, <1>2, RisingAppend
<1>4. Rising(k, a, <<>>, b) /\ <<>> \in Seq(Msg)
  BY <1>2, RisingEmpty
<1>5. Rising(k, a, <<snap>>, b) /\ <<snap>> \in Seq(Msg)
  <2>1. Rising(k, a, Append(<<>>, snap), b)
    BY <1>1, <1>4, RisingAppend
  <2>2. Append(<<>>, snap) = <<snap>> /\ <<snap>> \in Seq(Msg)
    BY <1>1
  <2> QED
    BY <2>1, <2>2
<1>6. ASSUME NEW m \in Msg, k \in DOMAIN m.obj => m.obj[k] = b
      PROVE  Rising(k, a, <<snap, m>>, b)
  <2>1. Rising(k, a, Append(<<snap>>, m), b)
    BY <1>1, <1>5, <1>6, RisingAppend
  <2>2. Append(<<snap>>, m) = <<snap, m>>
    <3>1. /\ Append(<<snap>>, m) \in Seq(Msg) /\ <<snap, m>> \in Seq(Msg)
          /\ Len(Append(<<snap>>, m)) = 2 /\ Len(<<snap, m>>) = 2
      BY <1>1
    <3>2. /\ Append(<<snap>>, m)[1] = snap /\ Append(<<snap>>, m)[2] = m
          /\ <<snap, m>>[1] = snap /\ <<snap, m>>[2] = m
      BY <1>1
    <3>3. \A i \in 1..2 : i = 1 \/ i = 2
      OBVIOUS
    <3>4. \A i \in 1..2 : Append(<<snap>>, m)[i] = <<snap, m>>[i]
      BY <3>2, <3>3
    <3> DEFINE s == Append(<<snap>>, m)
               t == <<snap, m>>
    <3>5. /\ s \in Seq(Msg) /\ t \in Seq(Msg) /\ Len(s) = Len(t)
          /\ \A i \in 1..Len(s) : s[i] = t[i]
      BY <3>1, <3>4
    <3> HIDE DEF s, t
    <3>6. s = t
      BY <3>5, SeqEqual
    <3> QED
      BY <3>6 DEF s, t
  <2> QED
    BY <2>1, <2>2
<1> QED
  BY <1>3, <1>5, <1>6 DEF snap, b

-----------------------------------------------------------------------------
(* The steps.                                                              *)

\* Requests that open or leave no channel, and the entry's lock.
LEMMA OtherRises ==
  ASSUME ForwardInv,
         \/ \E c \in Client : Lookup(c) \/ StoreIfAbsent(c) \/ NewEntryFails(c)
         \/ RunStarts \/ RunEnds \/ RunIsStopped \/ UNCHANGED vars
  PROVE  Rises'
<1>1. UNCHANGED <<clients, store, events, pc, listed, cache, queue, view>>
  BY DEF Lookup, StoreIfAbsent, NewEntryFails, RunStarts, Start, RunEnds, Ended,
         RunIsStopped, Stop, vars, dataVars, runVars
<1>2. phase' = "live" => phase = "live" \/ pc = "list"
  BY DEF Lookup, StoreIfAbsent, NewEntryFails, RunStarts, Start, RunEnds, Ended,
         RunIsStopped, Stop, vars, runVars, ForwardInv, TypeInv, BeginsAtList
<1>3. PagesOpen'
  <2>1. \/ sub' = sub
        \/ \E c \in Client, s \in Sub : sub[c] # "open" /\ sub' = [sub EXCEPT ![c] = s]
    BY DEF Lookup, StoreIfAbsent, NewEntryFails, RunStarts, RunEnds, RunIsStopped, vars,
           dataVars, Sub
  <2>2. sub \in [Client -> Sub] /\ clients \subseteq Client
    BY VersionTypes DEF ForwardInv
  <2> QED
    BY <1>1, <2>1, <2>2 DEF ForwardInv, Rises, PagesOpen
<1>4. PagesRise' /\ CacheBehind'
  BY <1>1 DEF ForwardInv, Rises, PagesRise, CacheBehind
<1>5. ListRises' /\ WatchRises'
  BY <1>1, <1>2 DEF ForwardInv, Rises, ListRises, WatchRises
<1> QED
  BY <1>3, <1>4, <1>5 DEF Rises

\* Whatever happens in the cluster makes a later version.
LEMMA ChangeRises ==
  ASSUME ForwardInv, TypeInv', NEW j \in Key, Change(j) PROVE Rises'
<1>1. UNCHANGED <<clients, phase, sub, pc, listed, cache, queue, view>>
  BY DEF Change, runVars
<1>2. TypeInv
  BY DEF ForwardInv
<1>3. PICK n \in Ver : /\ n = store[j] + 1 \/ n = store[j] + 2
                       /\ store' = [store EXCEPT ![j] = n]
                       /\ IF Following THEN events' = Append(events, Delta(j, n))
                          ELSE events' = events
  BY DEF Change
<1>4. \A k \in Key : store[k] <= store'[k] /\ store'[k] \in Nat
  BY <1>2, <1>3, VersionTypes, VersionsAreNumbers
<1>5. PagesOpen' /\ PagesRise'
  BY <1>1 DEF ForwardInv, Rises, PagesOpen, PagesRise
<1>6. CacheBehind'
  <2> SUFFICES ASSUME NEW k \in Key PROVE cache[k] <= store'[k]
    BY <1>1 DEF CacheBehind
  <2>1. cache[k] <= store[k] /\ cache[k] \in Nat /\ store[k] \in Nat
    BY <1>2, VersionTypes DEF ForwardInv, Rises, CacheBehind
  <2> QED
    BY <1>4, <2>1
<1>7. ASSUME Following, NEW k \in Key, NEW a \in Nat, Rising(k, a, events, store[k])
      PROVE  Rising(k, a, events', store'[k])
  <2> DEFINE d == Delta(j, n)
             b == store[k]
             y == store'[k]
  <2>1. d \in Msg /\ DOMAIN d.obj = {j} /\ d.obj[j] = n /\ store'[j] = n
    BY <1>2, <1>3, MessageKinds, VersionTypes
  <2>2. events \in Seq(Msg) /\ b \in Nat /\ y \in Nat /\ b <= y /\ y <= y
    BY <1>2, <1>4, VersionTypes
  <2>3. k \in DOMAIN d.obj => b <= d.obj[k] /\ d.obj[k] <= y
    BY <2>1, <2>2
  <2>4. Rising(k, a, events, b)
    BY <1>7
  <2>5. events' = Append(events, d)
    BY <1>3, <1>7
  <2> HIDE DEF d, b, y
  <2>6. Rising(k, a, Append(events, d), y)
    BY <2>1, <2>2, <2>3, <2>4, RisingAppend
  <2> QED
    BY <2>5, <2>6 DEF y
<1>8. ListRises'
  <2> SUFFICES ASSUME phase = "live", pc \in {"items", "deletions"}, NEW k \in Key
               PROVE  cache[k] <= listed[k] /\ Rising(k, listed[k], events', store'[k])
    BY <1>1 DEF ListRises
  <2>1. cache[k] <= listed[k] /\ Rising(k, listed[k], events, store[k]) /\ Following
    BY DEF ForwardInv, Rises, ListRises, Following
  <2>2. listed[k] \in Nat
    BY <1>2, VersionTypes
  <2> QED
    BY <1>7, <2>1, <2>2
<1>9. WatchRises'
  <2> SUFFICES ASSUME phase = "live", pc \in {"synced", "open", "watching"}, NEW k \in Key
               PROVE  Rising(k, cache[k], events', store'[k])
    BY <1>1 DEF WatchRises
  <2>1. Rising(k, cache[k], events, store[k]) /\ Following
    BY DEF ForwardInv, Rises, WatchRises, Following
  <2>2. cache[k] \in Nat
    BY <1>2, VersionTypes
  <2> QED
    BY <1>7, <2>1, <2>2
<1> QED
  BY <1>5, <1>6, <1>8, <1>9 DEF Rises

\* A joining page is sent the cache or nothing.
LEMMA SubscribeRises ==
  ASSUME ForwardInv, NEW c \in Client, Subscribe(c) PROVE Rises'
<1>1. /\ clients' = clients \cup {c} /\ sub' = [sub EXCEPT ![c] = "open"]
      /\ phase' = IF phase = "none" THEN "owed" ELSE phase
      /\ queue' = queue \/ queue' = [queue EXCEPT ![c] = Greeting]
      /\ UNCHANGED <<store, events, pc, listed, cache, view>>
  BY DEF Subscribe, Join
<1>2. TypeInv
  BY DEF ForwardInv
<1>3. PagesOpen'
  BY <1>1, <1>2, VersionTypes DEF ForwardInv, Rises, PagesOpen
<1>4. ASSUME NEW x \in Client, NEW k \in Key PROVE Rising(k, view[x][k], queue'[x], cache[k])
  <2>1. /\ Rising(k, view[x][k], queue[x], cache[k]) /\ view[x][k] \in Nat
        /\ queue[x] \in Seq(Msg)
    BY <1>2, VersionTypes DEF ForwardInv, Rises, PagesRise
  <2>2. queue'[x] = queue[x] \/ queue'[x] = Greeting
    BY <1>1, <1>2, VersionTypes
  <2>3. PICK m \in {Synced, Error} : Greeting = <<Snapshot, m>>
    BY DEF Greeting
  <2>4. m \in Msg /\ DOMAIN m.obj = {}
    BY <2>3, MessageKinds
  <2>5. Rising(k, view[x][k], <<Snapshot, m>>, cache[k])
    BY <1>2, <2>1, <2>4, SnapshotRises
  <2> QED
    BY <2>1, <2>2, <2>3, <2>5
<1>5. PagesRise'
  BY <1>1, <1>4 DEF PagesRise
<1>6. CacheBehind' /\ ListRises' /\ WatchRises'
  BY <1>1 DEF ForwardInv, Rises, CacheBehind, ListRises, WatchRises
<1> QED
  BY <1>3, <1>5, <1>6 DEF Rises

\* A page that leaves keeps what it shows, or shows nothing.
LEMMA LeaveRises ==
  ASSUME ForwardInv, NEW c \in Client, Disconnect(c) \/ ClosePage(c) PROVE Rises'
<1>1. /\ clients' = clients \ {c} /\ (\E s \in Sub : sub' = [sub EXCEPT ![c] = s])
      /\ queue' = [queue EXCEPT ![c] = <<>>]
      /\ view' = view \/ view' = [view EXCEPT ![c] = Nothing]
      /\ UNCHANGED <<phase, store, events, pc, listed, cache>>
  BY DEF Disconnect, ClosePage, Leave, Sub
<1>2. TypeInv
  BY DEF ForwardInv
<1>3. PagesOpen'
  BY <1>1, <1>2, VersionTypes DEF ForwardInv, Rises, PagesOpen
<1>4. ASSUME NEW x \in Client, NEW k \in Key PROVE Rising(k, view'[x][k], queue'[x], cache[k])
  <2>1. /\ Rising(k, view[x][k], queue[x], cache[k]) /\ cache[k] \in Nat
        /\ view[x][k] <= cache[k]
    BY <1>2, VersionTypes DEF ForwardInv, Rises, PagesRise, Rising
  <2>2. CASE x # c
    <3>1. view'[x] = view[x] /\ queue'[x] = queue[x]
      BY <1>1, <1>2, <2>2, VersionTypes
    <3> QED
      BY <2>1, <3>1
  <2>3. CASE x = c
    <3>1. queue'[x] = <<>> /\ (view'[x] = view[x] \/ view'[x] = Nothing)
      BY <1>1, <1>2, <2>3, VersionTypes
    <3>2. view'[x][k] <= cache[k]
      BY <2>1, <3>1 DEF Nothing
    <3> QED
      BY <3>1, <3>2, RisingEmpty
  <2> QED
    BY <2>2, <2>3
<1>5. PagesRise'
  BY <1>1, <1>4 DEF PagesRise
<1>6. CacheBehind' /\ ListRises' /\ WatchRises'
  BY <1>1 DEF ForwardInv, Rises, CacheBehind, ListRises, WatchRises
<1> QED
  BY <1>3, <1>5, <1>6 DEF Rises

\* What a page makes of its next message: a step forward, no further than the cluster.
LEMMA PageMoves ==
  ASSUME ForwardInv, NEW c \in Client, Deliver(c), NEW k \in Key
  PROVE  /\ view[c][k] <= view'[c][k] /\ view'[c][k] <= store[k]
         /\ Rising(k, view'[c][k], queue'[c], cache[k])
<1> DEFINE q == queue[c]
           a == view[c][k]
           b == cache[k]
           x == view'[c][k]
<1>1. TypeInv
  BY DEF ForwardInv
<1>2. /\ q # <<>> /\ queue'[c] = Tail(q) /\ view'[c] = Apply(view[c], Head(q))
  BY <1>1, VersionTypes DEF Deliver
<1>3. x = IF k \in DOMAIN Head(q).obj THEN Head(q).obj[k] ELSE a
  BY <1>2 DEF Apply
<1>4. q \in Seq(Msg) /\ a \in Nat /\ b \in Nat /\ store[k] \in Nat /\ Rising(k, a, q, b)
      /\ b <= store[k]
  BY <1>1, VersionTypes DEF ForwardInv, Rises, PagesRise, CacheBehind
<1> HIDE DEF q, a, b, x
<1>5. a <= x /\ x <= b /\ Rising(k, x, Tail(q), b)
  BY <1>2, <1>3, <1>4, RisingTail
<1>6. x \in Nat
  <2>1. Head(q) \in Msg
    BY <1>2, <1>4
  <2> QED
    BY <1>3, <1>4, <2>1, VersionsAreNumbers
<1>7. x <= store[k]
  BY <1>4, <1>5, <1>6
<1> QED
  BY <1>2, <1>5, <1>7 DEF q, a, b, x

LEMMA DeliverRises ==
  ASSUME ForwardInv, NEW c \in Client, Deliver(c) PROVE Rises'
<1>1. /\ queue' = [queue EXCEPT ![c] = Tail(@)]
      /\ view' = [view EXCEPT ![c] = Apply(@, Head(queue[c]))]
      /\ UNCHANGED <<clients, phase, sub, store, events, pc, listed, cache>>
  BY DEF Deliver, runVars
<1>2. ASSUME NEW x \in Client, NEW k \in Key PROVE Rising(k, view'[x][k], queue'[x], cache[k])
  <2>1. CASE x = c
    BY <2>1, PageMoves
  <2>2. CASE x # c
    <3>1. view'[x] = view[x] /\ queue'[x] = queue[x]
      BY <1>1, <2>2, VersionTypes DEF ForwardInv
    <3> QED
      BY <3>1 DEF ForwardInv, Rises, PagesRise
  <2> QED
    BY <2>1, <2>2
<1>3. PagesRise'
  BY <1>1, <1>2 DEF PagesRise
<1>4. PagesOpen' /\ CacheBehind' /\ ListRises' /\ WatchRises'
  BY <1>1 DEF ForwardInv, Rises, PagesOpen, CacheBehind, ListRises, WatchRises
<1> QED
  BY <1>3, <1>4 DEF Rises

\* What broadcast sends is the cache's version, no earlier than what was sent before.
LEMMA SendRises ==
  ASSUME ForwardInv, Send PROVE Rises'
<1>1. /\ queue' = [c \in Client |-> IF c \in clients THEN Push(queue[c], out) ELSE queue[c]]
      /\ out # NoMsg
      /\ UNCHANGED <<clients, phase, sub, store, events, pc, listed, cache, view>>
  BY DEF Send, runVars
<1>2. TypeInv
  BY DEF ForwardInv
<1>3. out \in Msg /\ \A k \in Key : k \in DOMAIN out.obj => out.obj[k] = cache[k]
  <2>1. CASE out \in {Synced, Error, Status}
    BY <2>1, MessageKinds
  <2>2. CASE \E j \in Key : out = Delta(j, cache[j])
    <3>1. PICK j \in Key : out = Delta(j, cache[j])
      BY <2>2
    <3>2. cache[j] \in Ver
      BY <1>2, VersionTypes
    <3> QED
      BY <3>1, <3>2, MessageKinds
  <2> QED
    BY <1>1, <1>2, <2>1, <2>2 DEF TypeInv, OutIsCached
<1>4. ASSUME NEW c \in Client, NEW k \in Key PROVE Rising(k, view[c][k], queue'[c], cache[k])
  <2> DEFINE q == queue[c]
             a == view[c][k]
             b == cache[k]
  <2>1. q \in Seq(Msg) /\ a \in Nat /\ b \in Nat /\ b <= b /\ Rising(k, a, q, b)
    BY <1>2, VersionTypes DEF ForwardInv, Rises, PagesRise
  <2>2. k \in DOMAIN out.obj => b <= out.obj[k] /\ out.obj[k] <= b
    BY <1>3, <2>1
  <2>3. Rising(k, a, Append(q, out), b)
    <3> HIDE DEF q, a, b
    <3> QED
      BY <1>3, <2>1, <2>2, RisingAppend
  <2>4. Rising(k, a, <<Snapshot>>, b) /\ Rising(k, a, <<Snapshot, out>>, b)
    BY <1>2, <1>3, <2>1, SnapshotRises
  <2>5. queue'[c] = q \/ queue'[c] = Append(q, out) \/ queue'[c] = <<Snapshot>>
        \/ queue'[c] = <<Snapshot, out>>
    BY <1>1 DEF Push
  <2> QED
    BY <2>1, <2>3, <2>4, <2>5
<1>5. PagesRise'
  BY <1>1, <1>4 DEF PagesRise
<1>6. PagesOpen' /\ CacheBehind' /\ ListRises' /\ WatchRises'
  BY <1>1 DEF ForwardInv, Rises, PagesOpen, CacheBehind, ListRises, WatchRises
<1> QED
  BY <1>5, <1>6 DEF Rises

\* The list's version of everything is between the cache's and the cluster's.
LEMMA ListRisesSteps ==
  ASSUME ForwardInv, TypeInv',
         ListOk \/ DeleteMissingCached \/ \E k \in Key : BroadcastItem(k) \/ BroadcastDeletion(k)
  PROVE  PagesRise' /\ CacheBehind' /\ ListRises' /\ WatchRises'
<1>1. TypeInv
  BY DEF ForwardInv
<1>2. CASE ListOk
  <2>1. /\ listed' = store /\ events' = <<>> /\ pc' = "items"
        /\ UNCHANGED <<store, cache, queue, view>>
    BY <1>2 DEF ListOk
  <2>2. \A k \in Key : cache[k] <= store[k] /\ store[k] <= store[k] /\ store[k] \in Nat
    BY <1>1, VersionTypes DEF ForwardInv, Rises, CacheBehind
  <2>3. \A k \in Key : Rising(k, store[k], <<>>, store[k])
    BY <2>2, RisingEmpty
  <2>4. ListRises' /\ WatchRises'
    BY <2>1, <2>2, <2>3 DEF ListRises, WatchRises
  <2> QED
    BY <2>1, <2>4 DEF ForwardInv, Rises, PagesRise, CacheBehind
<1>3. CASE ~ListOk
  <2>1. /\ phase = "live" /\ pc \in {"items", "deletions"} /\ pc' \in {"items", "deletions"}
        /\ UNCHANGED <<store, events, listed, queue, view>>
    BY <1>3 DEF DeleteMissingCached, BroadcastItem, BroadcastDeletion, RunAt
  <2>2. \A k \in Key : cache'[k] = cache[k] \/ cache'[k] = listed[k]
    <3>1. cache \in [Key -> Ver]
      BY <1>1, VersionTypes
    <3> QED
      BY <1>3, <3>1 DEF DeleteMissingCached, BroadcastItem, BroadcastDeletion
  <2>3. ASSUME NEW k \in Key
        PROVE  /\ cache[k] <= cache'[k] /\ cache'[k] <= listed[k] /\ cache'[k] <= store[k]
               /\ Rising(k, listed[k], events, store[k])
    <3>1. /\ cache[k] \in Nat /\ listed[k] \in Nat /\ store[k] \in Nat
          /\ cache[k] <= listed[k] /\ Rising(k, listed[k], events, store[k])
      BY <1>1, <2>1, VersionTypes DEF ForwardInv, Rises, ListRises
    <3>2. listed[k] <= store[k]
      BY <3>1 DEF Rising
    <3> QED
      BY <2>2, <3>1, <3>2
  <2>4. PagesRise'
    BY <1>1, <2>1, <2>3, CacheGrows DEF ForwardInv, Rises
  <2>5. CacheBehind' /\ ListRises' /\ WatchRises'
    BY <2>1, <2>3 DEF CacheBehind, ListRises, WatchRises
  <2> QED
    BY <2>4, <2>5
<1> QED
  BY <1>2, <1>3

\* The watch's next event is the cache's next version.
LEMMA ReceiveRises ==
  ASSUME ForwardInv, TypeInv', Receive
  PROVE  PagesRise' /\ CacheBehind' /\ ListRises' /\ WatchRises'
<1>1. TypeInv
  BY DEF ForwardInv
<1>2. /\ phase = "live" /\ pc = "watching" /\ pc' = "watching" /\ events # <<>>
      /\ events' = Tail(events) /\ cache' = Apply(cache, Head(events))
      /\ UNCHANGED <<store, queue, view>>
  BY DEF Receive, RunAt
<1>3. ASSUME NEW k \in Key
      PROVE  /\ cache[k] <= cache'[k] /\ cache'[k] <= store[k]
             /\ Rising(k, cache'[k], events', store[k])
  <2> DEFINE a == cache[k]
             b == store[k]
             x == cache'[k]
  <2>1. x = IF k \in DOMAIN Head(events).obj THEN Head(events).obj[k] ELSE a
    BY <1>2 DEF Apply
  <2>2. events \in Seq(Msg) /\ a \in Nat /\ b \in Nat /\ Rising(k, a, events, b)
    BY <1>1, <1>2, VersionTypes DEF ForwardInv, Rises, WatchRises
  <2> HIDE DEF a, b, x
  <2>3. a <= x /\ x <= b /\ Rising(k, x, Tail(events), b)
    BY <1>2, <2>1, <2>2, RisingTail
  <2> QED
    BY <1>2, <2>3 DEF a, b, x
<1>4. PagesRise'
  BY <1>1, <1>2, <1>3, CacheGrows DEF ForwardInv, Rises
<1>5. CacheBehind' /\ ListRises' /\ WatchRises'
  BY <1>2, <1>3 DEF CacheBehind, ListRises, WatchRises
<1> QED
  BY <1>4, <1>5

\* Once the list is broadcast, its snapshot goes to every channel.
LEMMA SnapshotStepRises ==
  ASSUME ForwardInv, BroadcastSnapshot
  PROVE  PagesRise' /\ CacheBehind' /\ ListRises' /\ WatchRises'
<1>1. /\ phase = "live" /\ pc = "deletions" /\ pc' = "synced"
      /\ queue' = [c \in Client |-> IF c \in clients THEN PushSnapshot(queue[c]) ELSE queue[c]]
      /\ UNCHANGED <<store, events, cache, view>>
  BY DEF BroadcastSnapshot, RunAt
<1>2. TypeInv
  BY DEF ForwardInv
<1>3. ASSUME NEW c \in Client, NEW k \in Key PROVE Rising(k, view[c][k], queue'[c], cache[k])
  <2>1. /\ queue[c] \in Seq(Msg) /\ view[c][k] \in Nat
        /\ Rising(k, view[c][k], queue[c], cache[k])
    BY <1>2, VersionTypes DEF ForwardInv, Rises, PagesRise
  <2>2. /\ Rising(k, view[c][k], Append(queue[c], Snapshot), cache[k])
        /\ Rising(k, view[c][k], <<Snapshot>>, cache[k])
    BY <1>2, <2>1, SnapshotRises
  <2>3. queue'[c] = queue[c] \/ queue'[c] = Append(queue[c], Snapshot)
        \/ queue'[c] = <<Snapshot>>
    BY <1>1 DEF PushSnapshot
  <2> QED
    BY <2>1, <2>2, <2>3
<1>4. PagesRise'
  BY <1>1, <1>3 DEF PagesRise
<1>5. ASSUME NEW k \in Key PROVE Rising(k, cache[k], events, store[k])
  <2>1. /\ cache[k] \in Nat /\ listed[k] \in Nat /\ store[k] \in Nat /\ events \in Seq(Msg)
        /\ cache[k] <= listed[k] /\ Rising(k, listed[k], events, store[k])
        /\ store[k] <= store[k]
    BY <1>1, <1>2, VersionTypes DEF ForwardInv, Rises, ListRises
  <2> QED
    BY <2>1, RisingWiden
<1>6. CacheBehind' /\ ListRises' /\ WatchRises'
  BY <1>1, <1>5 DEF ForwardInv, Rises, CacheBehind, ListRises, WatchRises
<1> QED
  BY <1>4, <1>6

LEMMA RunRises ==
  ASSUME ForwardInv, TypeInv', RunStep PROVE Rises'
<1>1. PagesOpen'
  <2>1. UNCHANGED <<clients, sub>>
    BY DEF RunStep, ListOk, Listed, ListFails, BroadcastItem, BroadcastDeletion,
           DeleteMissingCached, BroadcastSnapshot, BroadcastSynced, WatchOpens, WatchFails,
           Receive, WatchReports, WatchEnds, PauseOver, ForbiddenReturn, Forbidden,
           StopReturn, Stopped, runVars
  <2> QED
    BY <2>1 DEF ForwardInv, Rises, PagesOpen
<1>2. CASE \/ ListFails \/ WatchFails \/ WatchEnds \/ PauseOver \/ ForbiddenReturn
           \/ StopReturn
  <2>1. pc' \in {"list", "pause"} /\ UNCHANGED <<store, cache, queue, view>>
    BY <1>2 DEF ListFails, WatchFails, WatchEnds, PauseOver, ForbiddenReturn, StopReturn
  <2> QED
    BY <1>1, <2>1 DEF ForwardInv, Rises, PagesRise, CacheBehind, ListRises, WatchRises
<1>3. CASE BroadcastSynced \/ WatchOpens \/ WatchReports
  <2>1. /\ phase = "live" /\ pc \in {"synced", "open", "watching"}
        /\ pc' \in {"open", "watching"} /\ UNCHANGED <<store, events, cache, queue, view>>
    BY <1>3 DEF BroadcastSynced, WatchOpens, WatchReports, RunAt
  <2> QED
    BY <1>1, <2>1 DEF ForwardInv, Rises, PagesRise, CacheBehind, ListRises, WatchRises
<1> QED
  BY <1>1, <1>2, <1>3, ListRisesSteps, ReceiveRises, SnapshotStepRises DEF RunStep, Rises

-----------------------------------------------------------------------------
(* The refinement.                                                         *)

LEMMA ForwardInit == WatchInit => ForwardInv
<1> SUFFICES ASSUME WatchInit PROVE ForwardInv
  OBVIOUS
<1>1. TypeInv
  BY TypeInit
<1>2. /\ clients = {} /\ pc = "list" /\ cache = Nothing
      /\ queue = [c \in Client |-> <<>>] /\ view = [c \in Client |-> Nothing]
  BY DEF WatchInit, RunInit
<1>3. \A k \in Key : Nothing[k] = 0
  BY DEF Nothing
<1>4. CacheBehind
  BY <1>1, <1>2, <1>3, VersionTypes DEF CacheBehind
<1>5. PagesRise
  <2>1. \A c \in Client, k \in Key : view[c][k] = 0 /\ queue[c] = <<>> /\ cache[k] = 0
    BY <1>2, <1>3
  <2>2. \A k \in Key : Rising(k, 0, <<>>, 0)
    BY RisingEmpty
  <2> QED
    BY <2>1, <2>2 DEF PagesRise
<1> QED
  BY <1>1, <1>2, <1>4, <1>5 DEF ForwardInv, Rises, PagesOpen, ListRises, WatchRises

LEMMA ForwardInvariance == WatchSpec => []ForwardInv
<1>1. ForwardInv /\ [WatchNext]_vars => ForwardInv'
  <2> SUFFICES ASSUME ForwardInv, [WatchNext]_vars PROVE ForwardInv'
    OBVIOUS
  <2>1. TypeInv'
    BY TypeStep DEF ForwardInv
  <2>2. Rises'
    BY <2>1, OtherRises, ChangeRises, SubscribeRises, LeaveRises, DeliverRises, SendRises,
       RunRises DEF WatchNext
  <2> QED
    BY <2>1, <2>2 DEF ForwardInv
<1> QED
  BY <1>1, ForwardInit, PTL DEF WatchSpec

\* Every step is one of the abstract view, or changes nothing there.
LEMMA StepIsForward ==
  ASSUME ForwardInv, [WatchNext]_vars PROVE [Page!ReplicaNext]_(Page!replicaVars)
<1> DEFINE pages == {c \in Client : sub[c] # "closed"}
<1>1. TypeInv
  BY DEF ForwardInv
<1>2. store \in [Key -> Ver] /\ view \in [Client -> [Key -> Ver]] /\ sub \in [Client -> Sub]
  BY <1>1, VersionTypes
<1>3. CASE UNCHANGED <<store, sub, view>>
  BY <1>3 DEF Page!replicaVars
<1>4. ASSUME NEW k \in Key, Change(k) PROVE Page!Change(k)
  <2>1. PICK n \in Ver : /\ n = store[k] + 1 \/ n = store[k] + 2
                         /\ store' = [store EXCEPT ![k] = n] /\ UNCHANGED <<sub, view>>
    BY <1>4 DEF Change
  <2>2. n > store[k] /\ n \in 0..MaxVer
    BY <1>1, <2>1, VersionTypes DEF Ver
  <2> QED
    BY <2>1, <2>2 DEF Page!Change
<1>5. ASSUME NEW c \in Client, Lookup(c) \/ StoreIfAbsent(c) \/ NewEntryFails(c) \/ Subscribe(c)
      PROVE  Page!Open(c)
  <2>1. /\ \E s \in Sub \ {"closed"} : sub' = [sub EXCEPT ![c] = s]
        /\ UNCHANGED <<store, view>>
    BY <1>5 DEF Lookup, StoreIfAbsent, NewEntryFails, Subscribe, Sub
  <2>2. pages' = pages \cup {c}
    BY <1>2, <2>1
  <2> QED
    BY <2>1, <2>2 DEF Page!Open
<1>6. ASSUME NEW c \in Client, Disconnect(c) PROVE UNCHANGED <<store, view>> /\ pages' = pages
  <2>1. sub' = [sub EXCEPT ![c] = "retry"] /\ UNCHANGED <<store, view>> /\ c \in clients
    BY <1>6 DEF Disconnect, Leave
  <2>2. sub[c] = "open"
    BY <2>1 DEF ForwardInv, Rises, PagesOpen
  <2> QED
    BY <1>2, <2>1, <2>2
<1>7. ASSUME NEW c \in Client, ClosePage(c) PROVE Page!Close(c)
  <2>1. /\ sub' = [sub EXCEPT ![c] = "closed"] /\ view' = [view EXCEPT ![c] = Nothing]
        /\ store' = store
    BY <1>7 DEF ClosePage
  <2>2. pages' = pages \ {c}
    BY <1>2, <2>1
  <2> QED
    BY <2>1, <2>2 DEF Page!Close, Page!Empty, Nothing
<1>8. ASSUME NEW c \in Client, Deliver(c) PROVE Page!Refresh(c)
  <2> DEFINE now == view'[c]
  <2>1. /\ view' = [view EXCEPT ![c] = Apply(@, Head(queue[c]))] /\ UNCHANGED <<store, sub>>
        /\ c \in clients /\ queue[c] # <<>>
    BY <1>8 DEF Deliver
  <2>2. c \in pages
    BY <2>1 DEF ForwardInv, Rises, PagesOpen
  <2>3. now \in [Key -> 0..MaxVer] /\ view' = [view EXCEPT ![c] = now]
    <3>1. now = Apply(view[c], Head(queue[c]))
      BY <1>2, <2>1
    <3>2. queue[c] \in Seq(Msg) /\ view[c] \in [Key -> Ver]
      BY <1>1, VersionTypes
    <3>3. Head(queue[c]) \in Msg
      BY <2>1, <3>2
    <3>4. now \in [Key -> Ver]
      BY <3>1, <3>2, <3>3, ApplyType
    <3> QED
      BY <1>2, <2>1, <3>1, <3>4 DEF Ver
  <2>4. \A k \in Key : view[c][k] <= now[k] /\ now[k] <= store[k]
    BY <1>8, PageMoves
  <2> HIDE DEF now
  <2> QED
    BY <2>1, <2>2, <2>3, <2>4 DEF Page!Refresh
<1>9. CASE \/ UNCHANGED vars \/ Send \/ RunStep \/ RunStarts \/ RunEnds \/ RunIsStopped
  <2>1. UNCHANGED <<store, sub, view>>
    BY <1>9 DEF vars, dataVars, Send, RunStarts, RunEnds, RunIsStopped,
           RunStep, ListOk, ListFails, BroadcastItem, BroadcastDeletion,
           DeleteMissingCached, BroadcastSnapshot, BroadcastSynced, WatchOpens, WatchFails,
           Receive, WatchReports, WatchEnds, PauseOver, ForbiddenReturn, StopReturn
  <2> QED
    BY <1>3, <2>1
<1>10. ASSUME NEW c \in Client, Disconnect(c) PROVE UNCHANGED Page!replicaVars
  BY <1>6, <1>10 DEF Page!replicaVars
<1> QED
  BY <1>4, <1>5, <1>7, <1>8, <1>9, <1>10 DEF WatchNext, Page!ReplicaNext

\* A page shows, for every object, a version that the cluster has or had, and never goes
\* back to an earlier one, through snapshots, overflows, reconnections, new lists and
\* expired watches (watchmgr.go: run, broadcast, sendOrResync; useResourceStream.ts).
THEOREM PagesGoForward == WatchSpec => OnlyForward
<1>1. WatchInit => Page!ReplicaInit
  <2> SUFFICES ASSUME WatchInit PROVE Page!ReplicaInit
    OBVIOUS
  <2>1. /\ store \in [Key -> 0..MaxVer] /\ sub = [c \in Client |-> "closed"]
        /\ view = [c \in Client |-> [k \in Key |-> 0]]
    BY DEF WatchInit, Nothing, Ver
  <2>2. {c \in Client : sub[c] # "closed"} = {}
    BY <2>1
  <2> QED
    BY <2>1, <2>2 DEF Page!ReplicaInit, Page!Empty
<1>2. ForwardInv /\ [WatchNext]_vars => [Page!ReplicaNext]_(Page!replicaVars)
  BY StepIsForward
<1> QED
  BY <1>1, <1>2, ForwardInvariance, PTL DEF WatchSpec, OnlyForward, Page!ReplicaSpec
===============================================================================
