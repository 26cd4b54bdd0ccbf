----------------------------- MODULE LogTailProofs -----------------------------
(***************************************************************************)
(* Proofs about LogTail, for any containers, numbers of lines and          *)
(* connections. The inductive invariant LogTailInv follows a line from the *)
(* container's log to the tab: a line is still to be read, or under way    *)
(* once, or was received, and in the first connection its key (time,       *)
(* container, number in the stream) is no other line's. The first parts    *)
(* are about messages, entries and the initial lines, then there is one    *)
(* lemma for each action, and the theorems are at the end.                 *)
(***************************************************************************)
EXTENDS LogTail, FiniteSetTheorems, SequenceTheorems, WellFoundedInduction, TLAPS
-----------------------------------------------------------------------------
(* Types and invariants.                                                   *)

\* What the variables hold.
LineOf == [container : Container, n : Nat \ {0}, time : Nat]
LogMsg == [type : {"LOG"}, line : LineOf, seq : Nat]
Msg == LogMsg \cup [type : {"INFO", "ERROR"}]
TabState == [conn : {"closed", "connecting", "open"}, entries : Seq(LogMsg),
             loading : BOOLEAN, error : {"", Reconnecting, "server"}]

LogTailTypeOK ==
  /\ written \in [Container -> Seq(Nat)] /\ time \in Nat /\ blank \subseteq Container \X Nat
  /\ phase \in {"none", "get", "read", "send", "follow", "done"}
  /\ toRead \in Seq(Container) /\ initial \in Seq(LogMsg) /\ channel \in Seq(Msg)
  /\ read \in [Container -> Nat] /\ seq \in [Container -> Nat]
  /\ follow \in [Container -> {"none", "opening", "open", "asleep", "ended"}]
  /\ tab \in TabState
  /\ oldest \in [Container -> Nat] /\ skipped \subseteq Container \X Nat
  /\ connections \in Nat

\* The lines among the messages of a sequence.
LogsOf(s) == {m \in {s[i] : i \in 1..Len(s)} : m.type = "LOG"}

\* The lines under way, and those that the tab has.
Waiting == LogsOf(channel) \cup LogsOf(initial)
Received == LogsOf(tab.entries)

\* Two messages of one line, which may have different numbers.
SameLine(x, y) == x.line.container = y.line.container /\ x.line.n = y.line.n

\* How far streamPodLogs is, and what there cannot be yet.
Phases ==
  /\ phase = "none" <=> tab.conn # "open"
  /\ phase \in {"none", "get"} =>
       channel = <<>> /\ initial = <<>> /\ \A c \in Container : read[c] = 0
  /\ phase = "read" =>
       /\ LogsOf(channel) = {}
       /\ \A i, j \in 1..Len(toRead) : toRead[i] = toRead[j] => i = j
       /\ \A i \in 1..Len(toRead) : read[toRead[i]] = 0
  /\ phase \in {"follow", "done"} => initial = <<>>
  /\ phase # "follow" => \A c \in Container : follow[c] \in {"none", "ended"}
  /\ phase # "none" => connections > 0
  /\ connections = 0 \/ (connections = 1 /\ phase \in {"get", "read"}) => tab.entries = <<>>

\* Messages carry lines of the logs, up to where the subscription has read.
Genuine ==
  /\ \A m \in Waiting \cup Received :
       /\ m.line.n <= Len(written[m.line.container])
       /\ m.line.time = written[m.line.container][m.line.n]
  /\ \A m \in Waiting : m.line.n <= read[m.line.container]
  /\ \A c \in Container : read[c] <= Len(written[c])
  /\ \A c \in Container : \A n \in 1..Len(written[c]) : written[c][n] <= time

\* Every line is under way at most once.
Alone(s) ==
  \A i, j \in 1..Len(s) : s[i].type = "LOG" /\ s[j].type = "LOG" /\ SameLine(s[i], s[j]) => i = j
UnderWayOnce ==
  /\ Alone(channel) /\ Alone(initial)
  /\ \A x \in LogsOf(channel), y \in LogsOf(initial) : ~SameLine(x, y)

\* This connection has still to show line n of container c.
Due(c, n) ==
  /\ phase # "none"
  /\ n > read[c] \/ \E m \in Waiting : m.line.container = c /\ m.line.n = n
ShownOnce ==
  \A c \in Container : \A n \in Nat :
    Cardinality(Shown(c, n)) + (IF Due(c, n) THEN 1 ELSE 0) <= connections

\* A line of the container that has another key than those its open stream will number.
Numbered(x, c) ==
  \/ x.seq < seq[c]
  \/ /\ x.line.time < time
     /\ \A n \in read[c] + 1..Len(written[c]) : x.line.time < written[c][n]

\* In the first connection no two lines have the same key.
KeysDiffer ==
  connections = 1 =>
    /\ \A x, y \in Waiting \cup Received : EntryKey(x) = EntryKey(y) => SameLine(x, y)
    /\ \A c \in Container : follow[c] = "open" =>
         \A x \in Waiting \cup Received : x.line.container = c => Numbered(x, c)

\* A line that was passed is accounted for.
Accounted(c, n) ==
  \/ <<c, n>> \in skipped \/ <<c, n>> \in blank
  \/ Shown(c, n) # {}
  \/ \E m \in Waiting : m.line.container = c /\ m.line.n = n
  \/ /\ connections > 1
     /\ \E m \in 1..Len(written[c]) : Shown(c, m) # {} /\ written[c][m] = written[c][n]
AllAccounted ==
  Len(tab.entries) < MaxEntries =>
    \A c \in Container : \A n \in oldest[c] + 1..read[c] : Accounted(c, n)

\* The error is gone, or what clears it is under way: a blank line would not.
Clearing(s) == \E i \in 1..Len(s) : s[i].type # "LOG"
ErrorClears == phase = "follow" /\ tab.error = Reconnecting => Clearing(channel)

LogTailInv ==
  /\ LogTailTypeOK /\ Phases /\ Genuine /\ UnderWayOnce /\ ShownOnce
  /\ KeysDiffer /\ AllAccounted /\ ErrorClears

-----------------------------------------------------------------------------
(* Messages and their sequences.                                           *)

\* What a message is made of.
LEMMA Messages ==
  /\ LogMsg \subseteq Msg
  /\ \A m \in Msg : m.type \in {"LOG", "INFO", "ERROR"} /\ (m.type = "LOG" => m \in LogMsg)
  /\ \A m \in LogMsg : /\ m.type = "LOG" /\ m.line \in LineOf /\ m.seq \in Nat
                       /\ m.line.container \in Container
                       /\ m.line.n \in Nat \ {0} /\ m.line.time \in Nat
  /\ Info \in Msg /\ Info.type = "INFO" /\ Failure \in Msg /\ Failure.type = "ERROR"
  /\ \A l \in LineOf, k \in Nat : /\ Log(l, k) \in LogMsg
                                  /\ Log(l, k).line = l /\ Log(l, k).seq = k
<1>1. \A m \in Msg : m.type \in {"LOG", "INFO", "ERROR"} /\ (m.type = "LOG" => m \in LogMsg)
  BY DEF Msg, LogMsg
<1>2. \A m \in LogMsg : m.type = "LOG" /\ m.line \in LineOf /\ m.seq \in Nat
  BY DEF LogMsg
<1>3. \A l \in LineOf : l.container \in Container /\ l.n \in Nat \ {0} /\ l.time \in Nat
  BY DEF LineOf
<1>4. Info \in Msg /\ Info.type = "INFO" /\ Failure \in Msg /\ Failure.type = "ERROR"
  BY DEF Info, Failure, Msg
<1>5. \A l \in LineOf, k \in Nat : /\ Log(l, k) \in LogMsg
                                   /\ Log(l, k).line = l /\ Log(l, k).seq = k
  BY DEF Log, LogMsg
<1> QED
  BY <1>1, <1>2, <1>3, <1>4, <1>5 DEF Msg

\* A sequence without messages has no lines.
LEMMA LogsOfEmpty == LogsOf(<<>>) = {}
  BY DEF LogsOf

\* The lines of a sequence are messages that it has.
LEMMA LogsOfType ==
  ASSUME NEW s \in Seq(Msg)
  PROVE  /\ LogsOf(s) \subseteq LogMsg
         /\ \A m : m \in LogsOf(s) <=> m.type = "LOG" /\ \E i \in 1..Len(s) : m = s[i]
<1>1. \A m : m \in LogsOf(s) <=> m.type = "LOG" /\ \E i \in 1..Len(s) : m = s[i]
  BY DEF LogsOf
<1>2. \A i \in 1..Len(s) : s[i] \in Msg
  OBVIOUS
<1> QED
  BY <1>1, <1>2, Messages

\* A message that is appended adds itself, if it is a line.
LEMMA LogsOfAppend ==
  ASSUME NEW s \in Seq(Msg), NEW m \in Msg
  PROVE  /\ Append(s, m) \in Seq(Msg)
         /\ m.type = "LOG" => LogsOf(Append(s, m)) = LogsOf(s) \cup {m}
         /\ m.type # "LOG" => LogsOf(Append(s, m)) = LogsOf(s)
<1> DEFINE t == Append(s, m)
<1>1. /\ t \in Seq(Msg) /\ Len(t) = Len(s) + 1 /\ t[Len(s) + 1] = m
      /\ \A i \in 1..Len(s) : t[i] = s[i]
      /\ Len(s) \in Nat
  OBVIOUS
<1>2. \A x : (\E i \in 1..Len(t) : x = t[i]) <=> x = m \/ \E i \in 1..Len(s) : x = s[i]
  <2>1. 1..Len(t) = 1..Len(s) \cup {Len(s) + 1}
    BY <1>1
  <2> HIDE DEF t
  <2> QED
    BY <1>1, <2>1
<1> HIDE DEF t
<1>3. \A x : x \in LogsOf(t) <=> x.type = "LOG" /\ (x = m \/ \E i \in 1..Len(s) : x = s[i])
  BY <1>1, <1>2, LogsOfType
<1>4. \A x : x \in LogsOf(s) <=> x.type = "LOG" /\ \E i \in 1..Len(s) : x = s[i]
  BY LogsOfType
<1>5. m.type = "LOG" => LogsOf(t) = LogsOf(s) \cup {m}
  BY <1>3, <1>4
<1>6. m.type # "LOG" => LogsOf(t) = LogsOf(s)
  BY <1>3, <1>4
<1> QED
  BY <1>1, <1>5, <1>6 DEF t

\* What clears the error stays under way until it is received.
LEMMA ClearingKept ==
  ASSUME NEW s \in Seq(Msg)
  PROVE  /\ \A m \in Msg : Clearing(s) \/ m.type # "LOG" => Clearing(Append(s, m))
         /\ Clearing(s) => s # <<>>
         /\ Clearing(s) /\ Head(s).type = "LOG" => Clearing(Tail(s))
<1>1. ASSUME NEW m \in Msg, Clearing(s) \/ m.type # "LOG" PROVE Clearing(Append(s, m))
  <2> DEFINE t == Append(s, m)
  <2>1. /\ Len(s) \in Nat /\ Len(t) = Len(s) + 1 /\ t[Len(s) + 1] = m
        /\ \A i \in 1..Len(s) : t[i] = s[i]
    OBVIOUS
  <2> HIDE DEF t
  <2>2. Clearing(t)
    BY <1>1, <2>1 DEF Clearing
  <2> QED
    BY <2>2 DEF t
<1>2. Clearing(s) => s # <<>>
  BY DEF Clearing
<1>3. ASSUME Clearing(s), Head(s).type = "LOG" PROVE Clearing(Tail(s))
  <2> DEFINE t == Tail(s)
  <2>1. PICK i \in 1..Len(s) : s[i].type # "LOG"
    BY <1>3 DEF Clearing
  <2>2. /\ Len(s) \in Nat \ {0} /\ Len(t) = Len(s) - 1 /\ Head(s) = s[1]
        /\ \A j \in 1..Len(t) : t[j] = s[j + 1]
    BY <1>2, <1>3
  <2> HIDE DEF t
  <2>3. i - 1 \in 1..Len(t) /\ t[i - 1] = s[i]
    BY <1>3, <2>1, <2>2
  <2>4. Clearing(t)
    BY <2>1, <2>3 DEF Clearing
  <2> QED
    BY <2>4 DEF t
<1> QED
  BY <1>1, <1>2, <1>3

\* Taking the first message loses no other line.
LEMMA LogsOfTail ==
  ASSUME NEW s \in Seq(Msg), s # <<>>
  PROVE  /\ Head(s) \in Msg /\ Tail(s) \in Seq(Msg)
         /\ LogsOf(Tail(s)) \subseteq LogsOf(s)
         /\ \A m \in LogsOf(s) : m = Head(s) \/ m \in LogsOf(Tail(s))
         /\ Head(s).type = "LOG" => Head(s) \in LogsOf(s)
<1>1. /\ Head(s) \in Msg /\ Tail(s) \in Seq(Msg) /\ Len(s) \in Nat \ {0}
      /\ Len(Tail(s)) = Len(s) - 1 /\ Head(s) = s[1]
      /\ \A i \in 1..Len(Tail(s)) : Tail(s)[i] = s[i + 1]
  OBVIOUS
<1>2. LogsOf(Tail(s)) \subseteq LogsOf(s)
  <2> SUFFICES ASSUME NEW m \in LogsOf(Tail(s)) PROVE m \in LogsOf(s)
    OBVIOUS
  <2>1. PICK i \in 1..Len(Tail(s)) : m = Tail(s)[i] /\ m.type = "LOG"
    <3> DEFINE t == Tail(s)
    <3>1. t \in Seq(Msg) /\ m \in LogsOf(t)
      BY <1>1
    <3> HIDE DEF t
    <3>2. \E i \in 1..Len(t) : m = t[i] /\ m.type = "LOG"
      BY <3>1, LogsOfType
    <3> QED
      BY <3>2 DEF t
  <2>2. i + 1 \in 1..Len(s) /\ m = s[i + 1]
    BY <1>1, <2>1
  <2> QED
    BY <2>1, <2>2, LogsOfType
<1>3. ASSUME NEW m \in LogsOf(s), m # Head(s) PROVE m \in LogsOf(Tail(s))
  <2>1. PICK i \in 1..Len(s) : m = s[i] /\ m.type = "LOG"
    BY LogsOfType
  <2>2. i - 1 \in 1..Len(Tail(s)) /\ i - 1 + 1 = i
    BY <1>1, <1>3, <2>1
  <2>3. m = Tail(s)[i - 1]
    BY <1>1, <2>1, <2>2
  <2> QED
    BY <1>1, <2>1, <2>2, <2>3, LogsOfType
<1>4. Head(s).type = "LOG" => Head(s) \in LogsOf(s)
  <2>1. 1 \in 1..Len(s)
    BY <1>1
  <2> QED
    BY <1>1, <2>1, LogsOfType
<1> QED
  BY <1>1, <1>2, <1>3, <1>4

\* What is alone in a sequence stays so when another line is added or the first taken.
LEMMA AloneKept ==
  ASSUME NEW s \in Seq(Msg), Alone(s)
  PROVE  /\ \A m \in Msg : m.type # "LOG" \/ (\A x \in LogsOf(s) : ~SameLine(x, m))
                             => Alone(Append(s, m))
         /\ s # <<>> =>
              /\ Alone(Tail(s))
              /\ Head(s).type = "LOG" => \A x \in LogsOf(Tail(s)) : ~SameLine(x, Head(s))
<1>1. ASSUME NEW m \in Msg, m.type # "LOG" \/ (\A x \in LogsOf(s) : ~SameLine(x, m))
      PROVE  Alone(Append(s, m))
  <2> DEFINE t == Append(s, m)
  <2>1. /\ Len(t) = Len(s) + 1 /\ t[Len(s) + 1] = m /\ \A i \in 1..Len(s) : t[i] = s[i]
        /\ 1..Len(t) = 1..Len(s) \cup {Len(s) + 1}
    OBVIOUS
  <2> HIDE DEF t
  <2>2. ASSUME NEW i \in 1..Len(s), s[i].type = "LOG", m.type = "LOG"
        PROVE  ~SameLine(s[i], m) /\ ~SameLine(m, s[i])
    <3>1. s[i] \in LogsOf(s)
      BY <2>2, LogsOfType
    <3> QED
      BY <1>1, <2>2, <3>1 DEF SameLine
  <2>3. Alone(t)
    BY <2>1, <2>2 DEF Alone
  <2> QED
    BY <2>3 DEF t
<1>2. ASSUME s # <<>>
      PROVE  /\ Alone(Tail(s))
             /\ Head(s).type = "LOG" => \A x \in LogsOf(Tail(s)) : ~SameLine(x, Head(s))
  <2>1. /\ Tail(s) \in Seq(Msg) /\ Len(s) \in Nat \ {0} /\ Head(s) = s[1]
        /\ Len(Tail(s)) = Len(s) - 1
        /\ \A i \in 1..Len(Tail(s)) : Tail(s)[i] = s[i + 1] /\ i + 1 \in 1..Len(s)
    BY <1>2
  <2>2. Alone(Tail(s))
    <3> SUFFICES ASSUME NEW i \in 1..Len(Tail(s)), NEW j \in 1..Len(Tail(s)),
                        Tail(s)[i].type = "LOG", Tail(s)[j].type = "LOG",
                        SameLine(Tail(s)[i], Tail(s)[j])
                 PROVE  i = j
      BY DEF Alone
    <3>1. i + 1 = j + 1
      BY <2>1 DEF Alone
    <3> QED
      BY <3>1
  <2>3. ASSUME Head(s).type = "LOG", NEW x \in LogsOf(Tail(s)), SameLine(x, Head(s)) PROVE FALSE
    <3>1. PICK i \in 1..Len(Tail(s)) : x = Tail(s)[i] /\ x.type = "LOG"
      <4> DEFINE t == Tail(s)
      <4>1. t \in Seq(Msg) /\ x \in LogsOf(t)
        BY <2>1, <2>3
      <4> HIDE DEF t
      <4>2. \E i \in 1..Len(t) : x = t[i] /\ x.type = "LOG"
        BY <4>1, LogsOfType
      <4> QED
        BY <4>2 DEF t
    <3>2. 1 \in 1..Len(s) /\ i + 1 \in 1..Len(s) /\ x = s[i + 1]
      BY <2>1, <3>1
    <3>3. i + 1 = 1
      BY <2>1, <2>3, <3>1, <3>2 DEF Alone
    <3> QED
      BY <3>3
  <2> QED
    BY <2>2, <2>3
<1> QED
  BY <1>1, <1>2

-----------------------------------------------------------------------------
(* The tab's entries.                                                      *)

\* Where a line is in a sequence of entries.
Places(s, c, n) == {i \in DOMAIN s : s[i].line.container = c /\ s[i].line.n = n}

\* A line has finitely many places.
LEMMA PlacesFinite ==
  ASSUME NEW s \in Seq(LogMsg), NEW c, NEW n
  PROVE  /\ IsFiniteSet(Places(s, c, n)) /\ Cardinality(Places(s, c, n)) \in Nat
         /\ Places(s, c, n) \subseteq 1..Len(s)
<1>1. Places(s, c, n) \in SUBSET (1..Len(s)) /\ Len(s) \in Int /\ 1 \in Int
  BY DEF Places
<1>2. IsFiniteSet(1..Len(s))
  BY <1>1, FS_Interval
<1> QED
  BY <1>1, <1>2, FS_Subset, FS_CardinalityType

\* An entry that is added is one more place of its line, and no other's.
LEMMA PlacesOfAppend ==
  ASSUME NEW s \in Seq(LogMsg), NEW e \in LogMsg, NEW c, NEW n
  PROVE  Cardinality(Places(Append(s, e), c, n))
           <= Cardinality(Places(s, c, n))
                + (IF e.line.container = c /\ e.line.n = n THEN 1 ELSE 0)
<1> DEFINE t == Append(s, e)
<1>1. /\ DOMAIN s = 1..Len(s) /\ DOMAIN t = 1..Len(s) \cup {Len(s) + 1}
      /\ t[Len(s) + 1] = e /\ \A i \in 1..Len(s) : t[i] = s[i]
  OBVIOUS
<1> HIDE DEF t
<1>2. IsFiniteSet(Places(s, c, n)) /\ Cardinality(Places(s, c, n)) \in Nat
  BY PlacesFinite
<1>3. CASE e.line.container = c /\ e.line.n = n
  <2>1. Places(t, c, n) = Places(s, c, n) \cup {Len(s) + 1}
    BY <1>1, <1>3 DEF Places
  <2>2. Cardinality(Places(t, c, n)) <= Cardinality(Places(s, c, n)) + 1
    <3> DEFINE S == Places(s, c, n)
               x == Len(s) + 1
    <3>1. IsFiniteSet(S) /\ Cardinality(S) \in Nat /\ Places(t, c, n) = S \cup {x}
      BY <1>2, <2>1
    <3> HIDE DEF S, x
    <3>2. Cardinality(S \cup {x}) = IF x \in S THEN Cardinality(S) ELSE Cardinality(S) + 1
      BY <3>1, FS_AddElement
    <3>3. Cardinality(S \cup {x}) <= Cardinality(S) + 1
      BY <3>1, <3>2
    <3> QED
      BY <3>1, <3>3 DEF S
  <2> QED
    BY <1>3, <2>2 DEF t
<1>4. CASE ~(e.line.container = c /\ e.line.n = n)
  <2>1. Places(t, c, n) = Places(s, c, n)
    BY <1>1, <1>4 DEF Places
  <2> QED
    BY <1>2, <1>4, <2>1 DEF t
<1> QED
  BY <1>3, <1>4

\* The newest entries are some of them.
LEMMA NewestEntries ==
  ASSUME NEW s \in Seq(LogMsg)
  PROVE  /\ Newest(s) \in Seq(LogMsg)
         /\ LogsOf(Newest(s)) \subseteq LogsOf(s)
         /\ Len(Newest(s)) < MaxEntries => Newest(s) = s
         /\ \A c, n : Cardinality(Places(Newest(s), c, n)) <= Cardinality(Places(s, c, n))
<1>1. MaxEntries \in Nat \ {0} /\ Len(s) \in Nat /\ \A i \in 1..Len(s) : s[i] \in LogMsg
  BY LogTailAssumption
<1>2. CASE Len(s) <= MaxEntries
  <2>1. Newest(s) = s
    BY <1>1, <1>2 DEF Newest
  <2>2. \A c, n : Cardinality(Places(s, c, n)) \in Nat
    BY PlacesFinite
  <2> QED
    BY <1>1, <2>1, <2>2
<1>3. CASE Len(s) > MaxEntries
  <2> DEFINE k == Len(s) - MaxEntries
             t == SubSeq(s, k + 1, Len(s))
  <2>1. Newest(s) = t
    BY <1>3 DEF Newest
  <2>2. /\ k \in Nat /\ k + 1 \in Int /\ Len(s) \in Int /\ k + 1 <= Len(s)
        /\ Len(s) - (k + 1) + 1 = MaxEntries
        /\ \A i \in k + 1..Len(s) : s[i] \in LogMsg
    BY <1>1, <1>3
  <2>3. t \in Seq(LogMsg) /\ Len(t) = MaxEntries
    BY <1>1, <2>2, SubSeqProperties
  <2>4. \A i \in 1..MaxEntries : t[i] = s[k + i] /\ k + i \in 1..Len(s)
    BY <1>1, <1>3
  <2> HIDE DEF t, k
  <2>5. LogsOf(t) \subseteq LogsOf(s)
    BY <2>3, <2>4 DEF LogsOf
  <2>6. ASSUME NEW c, NEW n
        PROVE  Cardinality(Places(t, c, n)) <= Cardinality(Places(s, c, n))
    <3> DEFINE f == [i \in Places(t, c, n) |-> k + i]
    <3>1. Places(t, c, n) \subseteq 1..MaxEntries
      BY <2>3, PlacesFinite
    <3>2. \A i \in Places(t, c, n) : k + i \in Places(s, c, n) /\ i \in Nat
      BY <1>1, <2>3, <2>4, <3>1 DEF Places
    <3>3. f \in Injection(Places(t, c, n), Places(s, c, n))
      BY <2>2, <3>2 DEF Injection, IsInjective
    <3>4. IsFiniteSet(Places(s, c, n))
      BY PlacesFinite
    <3> HIDE DEF f
    <3> QED
      BY <3>3, <3>4, FS_Injection
  <2> QED
    BY <1>1, <2>1, <2>3, <2>5, <2>6
<1> QED
  BY <1>1, <1>2, <1>3

\* What a line that arrives does to the entries.
LEMMA Adds ==
  ASSUME NEW s \in Seq(LogMsg), NEW e \in LogMsg
  PROVE  /\ AddEntry(s, e) \in Seq(LogMsg)
         /\ LogsOf(AddEntry(s, e)) \subseteq LogsOf(s) \cup {e}
         /\ Len(AddEntry(s, e)) < MaxEntries =>
              /\ Len(s) < MaxEntries
              /\ \/ AddEntry(s, e) = Append(s, e)
                 \/ /\ AddEntry(s, e) = s
                    /\ \E x \in LogsOf(s) : EntryKey(x) = EntryKey(e)
         /\ \A c, n : Cardinality(Places(AddEntry(s, e), c, n))
                        <= Cardinality(Places(s, c, n))
                             + (IF e.line.container = c /\ e.line.n = n THEN 1 ELSE 0)
<1> DEFINE t == Append(s, e)
<1>1. s \in Seq(Msg) /\ e \in Msg /\ e.type = "LOG" /\ MaxEntries \in Nat \ {0} /\ Len(s) \in Nat
  BY Messages, LogTailAssumption
<1>2. t \in Seq(LogMsg) /\ Len(t) = Len(s) + 1 /\ LogsOf(t) = LogsOf(s) \cup {e}
  BY <1>1, LogsOfAppend
<1>3. \A c, n : Cardinality(Places(s, c, n)) \in Nat /\ Cardinality(Places(t, c, n)) \in Nat
                /\ Cardinality(Places(Newest(t), c, n)) \in Nat
  BY <1>2, PlacesFinite, NewestEntries
<1>4. CASE \E i \in DOMAIN s : EntryKey(s[i]) = EntryKey(e)
  <2>1. AddEntry(s, e) = s
    BY <1>4 DEF AddEntry
  <2>2. \E x \in LogsOf(s) : EntryKey(x) = EntryKey(e)
    <3>1. PICK i \in 1..Len(s) : EntryKey(s[i]) = EntryKey(e)
      BY <1>4
    <3>2. s[i].type = "LOG"
      BY Messages
    <3> QED
      BY <1>1, <3>1, <3>2, LogsOfType
  <2> QED
    BY <1>3, <2>1, <2>2
<1>5. CASE ~(\E i \in DOMAIN s : EntryKey(s[i]) = EntryKey(e))
  <2>1. AddEntry(s, e) = Newest(t)
    BY <1>5 DEF AddEntry
  <2>2. /\ Newest(t) \in Seq(LogMsg) /\ LogsOf(Newest(t)) \subseteq LogsOf(t)
        /\ Len(Newest(t)) < MaxEntries => Newest(t) = t
    BY <1>2, NewestEntries
  <2>3. ASSUME NEW c, NEW n
        PROVE  Cardinality(Places(Newest(t), c, n))
                 <= Cardinality(Places(s, c, n))
                      + (IF e.line.container = c /\ e.line.n = n THEN 1 ELSE 0)
    <3>1. Cardinality(Places(Newest(t), c, n)) <= Cardinality(Places(t, c, n))
      BY <1>2, NewestEntries
    <3>2. Cardinality(Places(t, c, n))
            <= Cardinality(Places(s, c, n))
                 + (IF e.line.container = c /\ e.line.n = n THEN 1 ELSE 0)
      BY PlacesOfAppend
    <3> QED
      BY <1>3, <3>1, <3>2
  <2>4. Len(Newest(t)) < MaxEntries => Len(s) < MaxEntries /\ Newest(t) = Append(s, e)
    BY <1>1, <1>2, <2>2
  <2> HIDE DEF t
  <2> QED
    BY <1>2, <2>1, <2>2, <2>3, <2>4
<1> QED
  BY <1>4, <1>5

\* A line that is not added is too many, or the tab has one of its key.
LEMMA AddsOrHas ==
  ASSUME NEW s \in Seq(LogMsg), NEW e \in LogMsg, Len(AddEntry(s, e)) < MaxEntries,
         AddEntry(s, e) # Append(s, e)
  PROVE  \E x \in LogsOf(s) : EntryKey(x) = EntryKey(e)
  BY Adds

-----------------------------------------------------------------------------
(* The initial lines.                                                      *)

\* A line of a log.
LEMMA LineType ==
  ASSUME LogTailTypeOK, NEW c \in Container, NEW n \in 1..Len(written[c])
  PROVE  /\ Line(c, n) \in LineOf
         /\ Line(c, n).container = c /\ Line(c, n).n = n /\ Line(c, n).time = written[c][n]
<1>1. written[c] \in Seq(Nat) /\ n \in Nat \ {0}
  BY DEF LogTailTypeOK
<1>2. written[c][n] \in Nat
  BY <1>1
<1> QED
  BY <1>1, <1>2 DEF Line, LineOf

\* No line comes before itself.
LEMMA PrecedesIrreflexive == \A l \in LineOf : ~Precedes(l, l)
<1> SUFFICES ASSUME NEW l \in LineOf PROVE ~Precedes(l, l)
  OBVIOUS
<1>1. l.container \in Container /\ l.time \in Nat /\ l.n \in Nat
  BY DEF LineOf
<1>2. \E i \in DOMAIN Containers : Containers[i] = l.container
  BY <1>1 DEF Container
<1>3. Place(l.container) \in DOMAIN Containers
  BY <1>2 DEF Place
<1>4. Place(l.container) \in Nat
  BY <1>3, LogTailAssumption
<1> QED
  BY <1>1, <1>4 DEF Precedes

\* The messages of sorted lines.
LinesInOrder(order) == [j \in DOMAIN order |-> Log(order[j], j - 1)]

\* Sorted lines are numbered apart: each is there once.
LEMMA SortedLines ==
  ASSUME NEW lines \in SUBSET LineOf, IsFiniteSet(lines), NEW order \in Sorted(lines),
         NEW s, s = LinesInOrder(order)
  PROVE  /\ s \in Seq(LogMsg)
         /\ \A m \in LogsOf(s) : m.line \in lines
         /\ \A l \in lines : \E m \in LogsOf(s) : m.line = l
         /\ \A i, j \in 1..Len(s) : s[i].line = s[j].line => i = j
         /\ \A x, y \in LogsOf(s) : x.seq = y.seq => x = y
<1> DEFINE k == Cardinality(lines)
<1>1. k \in Nat
  BY FS_CardinalityType
<1>2. /\ order \in [1..k -> lines] /\ DOMAIN order = 1..k
      /\ \A l \in lines : \E i \in 1..k : order[i] = l
      /\ \A i, j \in 1..k : i < j => Precedes(order[i], order[j])
  BY DEF Sorted
<1> HIDE DEF k
<1>3. \A j \in 1..k : /\ order[j] \in lines /\ order[j] \in LineOf /\ j - 1 \in Nat
                      /\ s[j] = Log(order[j], j - 1)
  BY <1>1, <1>2 DEF LinesInOrder
<1>4. \A j \in 1..k : /\ s[j] \in LogMsg /\ s[j].line = order[j]
                     /\ s[j].seq = j - 1 /\ s[j].type = "LOG"
  BY <1>3, Messages
<1>5. s \in [1..k -> LogMsg]
  BY <1>2, <1>4 DEF LinesInOrder
<1>6. s \in Seq(LogMsg) /\ Len(s) = k
  BY <1>1, <1>5
<1>7. \A m \in LogsOf(s) : \E j \in 1..k : m = s[j]
  BY <1>6 DEF LogsOf
<1>8. \A j \in 1..k : s[j] \in LogsOf(s)
  BY <1>4, <1>6 DEF LogsOf
<1>9. ASSUME NEW i \in 1..k, NEW j \in 1..k, order[i] = order[j] PROVE i = j
  <2>1. ~(i < j) /\ ~(j < i)
    BY <1>2, <1>3, <1>9, PrecedesIrreflexive
  <2> QED
    BY <2>1
<1>10. \A x, y \in LogsOf(s) : x.seq = y.seq => x = y
  <2> SUFFICES ASSUME NEW x \in LogsOf(s), NEW y \in LogsOf(s), x.seq = y.seq PROVE x = y
    OBVIOUS
  <2>1. PICK i \in 1..k : x = s[i]
    BY <1>7
  <2>2. PICK j \in 1..k : y = s[j]
    BY <1>7
  <2>3. i - 1 = j - 1
    BY <1>4, <2>1, <2>2
  <2> QED
    BY <2>1, <2>2, <2>3
<1>11. \A m \in LogsOf(s) : m.line \in lines
  BY <1>3, <1>4, <1>7
<1>12. \A l \in lines : \E m \in LogsOf(s) : m.line = l
  BY <1>2, <1>4, <1>8
<1> QED
  BY <1>4, <1>6, <1>9, <1>10, <1>11, <1>12

\* How many lines of a log of this length are too old to be read first.
FirstRead(end) == IF end > TailLines THEN end - TailLines ELSE 0

\* The lines that were read, and those of container c after the first start.
LinesRead(c, start, end) == LinesOf(initial) \cup {Line(c, n) : n \in start + 1..end}

\* The lines that a container adds to those that were read before it. None is there yet,
\* because the container was not read.
LEMMA ReadLines ==
  ASSUME LogTailInv, phase = "read", toRead # <<>>,
         NEW c, c = Head(toRead), NEW end, end = Len(written[c]),
         NEW start, start = FirstRead(end),
         NEW lines, lines = LinesRead(c, start, end)
  PROVE  /\ c \in Container /\ end \in Nat /\ start \in Nat /\ start <= end /\ read[c] = 0
         /\ lines \in SUBSET LineOf /\ IsFiniteSet(lines)
         /\ \A l \in lines : (\E m \in LogsOf(initial) : m.line = l)
                               \/ \E n \in start + 1..end : l = Line(c, n)
         /\ \A m \in LogsOf(initial) : m.line \in lines
         /\ \A n \in start + 1..end : Line(c, n) \in lines
         /\ \A l \in lines : /\ l.n <= Len(written[l.container])
                             /\ l.time = written[l.container][l.n]
                             /\ l.container = c \/ l.n <= read[l.container]
                             /\ l.container = c => l.n \in start + 1..end
<1>1. /\ LogTailTypeOK /\ Phases /\ Genuine
      /\ toRead \in Seq(Container) /\ initial \in Seq(LogMsg) /\ written \in [Container -> Seq(Nat)]
      /\ read \in [Container -> Nat] /\ TailLines \in Nat
  BY LogTailAssumption DEF LogTailInv, LogTailTypeOK
<1>2. c \in Container /\ read[c] = 0
  <2>1. 1 \in 1..Len(toRead) /\ c = toRead[1] /\ toRead[1] \in Container
    BY <1>1
  <2> QED
    BY <1>1, <2>1 DEF Phases
<1>3. end \in Nat /\ start \in Nat /\ start <= end
  <2>1. end \in Nat
    BY <1>1, <1>2
  <2>2. start = IF end > TailLines THEN end - TailLines ELSE 0
    BY DEF FirstRead
  <2>3. TailLines \in Nat
    BY LogTailAssumption
  <2> QED
    BY <2>1, <2>2, <2>3
<1>4. \A n \in start + 1..end : n \in 1..Len(written[c])
  BY <1>3
<1>5. \A n \in start + 1..end : /\ Line(c, n) \in LineOf
                                /\ Line(c, n).container = c /\ Line(c, n).n = n
                                /\ Line(c, n).time = written[c][n]
  BY <1>1, <1>2, <1>4, LineType
<1>6. initial \in Seq(Msg) /\ \A i \in 1..Len(initial) : initial[i].type = "LOG"
  BY <1>1, Messages
<1>7. \A l : l \in LinesOf(initial) <=> \E m \in LogsOf(initial) : m.line = l
  <2>1. \A m : m \in LogsOf(initial) <=> \E i \in 1..Len(initial) : m = initial[i]
    BY <1>6, LogsOfType
  <2>2. DOMAIN initial = 1..Len(initial)
    BY <1>1
  <2> QED
    BY <2>1, <2>2 DEF LinesOf
<1>8. LogsOf(initial) \subseteq LogMsg
  BY <1>6, LogsOfType
<1>9. LinesOf(initial) \subseteq LineOf
  BY <1>7, <1>8, Messages
<1>10. IsFiniteSet(lines)
  <2>1. IsFiniteSet(LinesOf(initial))
    <3> DEFINE f == [i \in 1..Len(initial) |-> initial[i].line]
    <3>1. f \in Surjection(1..Len(initial), LinesOf(initial))
      <4>1. DOMAIN initial = 1..Len(initial)
        BY <1>1
      <4>2. \A l : l \in LinesOf(initial) <=> \E i \in 1..Len(initial) : initial[i].line = l
        BY <4>1 DEF LinesOf
      <4> QED
        BY <4>2 DEF Surjection
    <3>2. IsFiniteSet(1..Len(initial))
      BY <1>1, FS_Interval
    <3> HIDE DEF f
    <3> QED
      BY <3>1, <3>2, FS_Surjection
  <2>2. IsFiniteSet({Line(c, n) : n \in start + 1..end})
    <3> DEFINE f == [n \in start + 1..end |-> Line(c, n)]
               T == {Line(c, n) : n \in start + 1..end}
    <3>1. f \in Surjection(start + 1..end, T)
      BY DEF Surjection
    <3>2. IsFiniteSet(start + 1..end)
      <4>1. start + 1 \in Int /\ end \in Int
        BY <1>3
      <4> QED
        BY <4>1, FS_Interval
    <3> HIDE DEF f, T
    <3>3. IsFiniteSet(T)
      BY <3>1, <3>2, FS_Surjection
    <3> QED
      BY <3>3 DEF T
  <2> QED
    BY <2>1, <2>2, FS_Union DEF LinesRead
<1>11. \A l \in lines : (\E m \in LogsOf(initial) : m.line = l)
                          \/ \E n \in start + 1..end : l = Line(c, n)
  BY <1>7 DEF LinesRead
<1>12. ASSUME NEW l \in lines
       PROVE  /\ l.n <= Len(written[l.container])
              /\ l.time = written[l.container][l.n]
              /\ l.container = c \/ l.n <= read[l.container]
              /\ l.container = c => l.n \in start + 1..end
  <2>1. CASE \E m \in LogsOf(initial) : m.line = l
    <3>1. PICK m \in LogsOf(initial) : m.line = l
      BY <2>1
    <3>2. /\ l.n <= Len(written[l.container]) /\ l.time = written[l.container][l.n]
          /\ l.n <= read[l.container] /\ l.n \in Nat \ {0}
      BY <1>1, <1>8, <3>1, Messages DEF Genuine, Waiting
    <3> QED
      BY <1>2, <3>2
  <2>2. CASE \E n \in start + 1..end : l = Line(c, n)
    BY <1>4, <1>5, <2>2
  <2> QED
    BY <1>11, <2>1, <2>2
<1>13. lines \in SUBSET LineOf
  <2>1. \A n \in start + 1..end : Line(c, n) \in LineOf
    BY <1>5
  <2> QED
    BY <1>9, <2>1 DEF LinesRead
<1>14. /\ \A m \in LogsOf(initial) : m.line \in lines
       /\ \A n \in start + 1..end : Line(c, n) \in lines
  BY <1>7 DEF LinesRead
<1> QED
  BY <1>2, <1>3, <1>10, <1>11, <1>12, <1>13, <1>14

\* Among finite sets there is one of least size.
LEMMA SmallestSet ==
  ASSUME NEW T, T # {}, \A s \in T : IsFiniteSet(s)
  PROVE  \E s \in T : \A r \in T : ~(Cardinality(r) < Cardinality(s))
<1> DEFINE N == {Cardinality(s) : s \in T}
<1>1. N \subseteq Nat /\ N # {}
  BY FS_CardinalityType
<1>2. PICK k \in N : \A i \in N : ~(<<i, k>> \in OpToRel(<, Nat))
  <2> HIDE DEF N
  <2> QED
    BY <1>1, WFMin, NatLessThanWellFounded
<1>3. PICK s \in T : k = Cardinality(s)
  OBVIOUS
<1>4. ASSUME NEW r \in T, Cardinality(r) < Cardinality(s) PROVE FALSE
  <2>1. Cardinality(r) \in N /\ Cardinality(r) \in Nat /\ k \in Nat
    BY <1>1
  <2>2. <<Cardinality(r), k>> \in OpToRel(<, Nat)
    BY <1>3, <1>4, <2>1 DEF OpToRel
  <2> QED
    BY <1>2, <2>1, <2>2
<1> QED
  BY <1>4

\* A container's place is its own.
LEMMA PlaceOf ==
  ASSUME NEW c \in Container
  PROVE  Place(c) \in Nat /\ Place(c) \in DOMAIN Containers /\ Containers[Place(c)] = c
<1>1. \E i \in DOMAIN Containers : Containers[i] = c
  BY DEF Container
<1>2. Place(c) \in DOMAIN Containers /\ Containers[Place(c)] = c
  BY <1>1 DEF Place
<1> QED
  BY <1>2, LogTailAssumption

\* Lines are in a strict total order.
LEMMA PrecedesOrders ==
  ASSUME NEW a \in LineOf, NEW b \in LineOf, NEW c \in LineOf
  PROVE  /\ a # b => Precedes(a, b) \/ Precedes(b, a)
         /\ Precedes(a, b) /\ Precedes(b, c) => Precedes(a, c)
<1>1. /\ a.time \in Nat /\ b.time \in Nat /\ c.time \in Nat
      /\ a.n \in Nat /\ b.n \in Nat /\ c.n \in Nat
      /\ a.container \in Container /\ b.container \in Container /\ c.container \in Container
  BY DEF LineOf
<1>2. /\ Place(a.container) \in Nat /\ Place(b.container) \in Nat /\ Place(c.container) \in Nat
      /\ Place(a.container) = Place(b.container) => a.container = b.container
  BY <1>1, PlaceOf
<1>3. a.time = b.time /\ a.container = b.container /\ a.n = b.n => a = b
  BY DEF LineOf
<1>4. a # b => Precedes(a, b) \/ Precedes(b, a)
  BY <1>1, <1>2, <1>3 DEF Precedes
<1>5. Precedes(a, b) /\ Precedes(b, c) => Precedes(a, c)
  BY <1>1, <1>2 DEF Precedes
<1> QED
  BY <1>4, <1>5

\* Lines that are not none have a last one.
LastOf(lines, m) == m \in lines /\ \A l \in lines \ {m} : Precedes(l, m)

\* Otherwise some least set of lines has no last one, although without one of its lines it
\* has, and one of these two is last.
LEMMA LastLine ==
  ASSUME NEW lines \in SUBSET LineOf, IsFiniteSet(lines), lines # {}
  PROVE  \E m : LastOf(lines, m)
<1> DEFINE T == {s \in SUBSET LineOf : IsFiniteSet(s) /\ s # {} /\ ~\E m : LastOf(s, m)}
<1> SUFFICES ASSUME T # {} PROVE FALSE
  OBVIOUS
<1>1. PICK s \in T : \A r \in T : ~(Cardinality(r) < Cardinality(s))
  <2>1. \A r \in T : IsFiniteSet(r)
    OBVIOUS
  <2> HIDE DEF T
  <2> QED
    BY <2>1, SmallestSet
<1>2. PICK x : x \in s
  OBVIOUS
<1> DEFINE r == s \ {x}
<1>3. IsFiniteSet(r) /\ Cardinality(r) < Cardinality(s) /\ r \in SUBSET LineOf
  <2>1. IsFiniteSet(s) /\ Cardinality(s) \in Nat /\ s \in SUBSET LineOf
    BY FS_CardinalityType
  <2>2. IsFiniteSet(s \ {x}) /\ Cardinality(s \ {x}) = Cardinality(s) - 1
    BY <1>2, <2>1, FS_RemoveElement
  <2> QED
    BY <2>1, <2>2
<1>4. CASE r = {}
  BY <1>2, <1>4 DEF LastOf
<1>5. CASE r # {}
  <2>1. r \notin T
    BY <1>1, <1>3
  <2>2. PICK m : LastOf(r, m)
    BY <1>3, <1>5, <2>1
  <2>3. m \in LineOf /\ x \in LineOf /\ m # x /\ m \in s
    BY <1>2, <2>2 DEF LastOf
  <2>4. CASE Precedes(m, x)
    <3>1. ASSUME NEW l \in s \ {x} PROVE Precedes(l, x)
      <4>1. l \in LineOf /\ (l = m \/ Precedes(l, m))
        BY <2>2 DEF LastOf
      <4> QED
        BY <2>3, <2>4, <4>1, PrecedesOrders
    <3> QED
      BY <1>2, <3>1 DEF LastOf
  <2>5. CASE Precedes(x, m)
    <3>1. LastOf(s, m)
      BY <2>2, <2>3, <2>5 DEF LastOf
    <3> QED
      BY <3>1
  <2> QED
    BY <2>3, <2>4, <2>5, PrecedesOrders
<1> QED
  BY <1>4, <1>5

\* Sorted lines with a later one after them are sorted.
LEMMA SortedAppend ==
  ASSUME NEW s \in SUBSET LineOf, IsFiniteSet(s), NEW m, LastOf(s, m),
         NEW order \in Sorted(s \ {m})
  PROVE  Sorted(s) # {}
<1> DEFINE r == s \ {m}
           k == Cardinality(r)
<1>1. IsFiniteSet(r) /\ k \in Nat /\ Cardinality(s) = k + 1 /\ m \in s
  <2>1. m \in s /\ Cardinality(s) \in Nat
    BY FS_CardinalityType DEF LastOf
  <2>2. IsFiniteSet(s \ {m}) /\ Cardinality(s \ {m}) = Cardinality(s) - 1
    BY <2>1, FS_RemoveElement
  <2>3. Cardinality(s \ {m}) \in Nat
    BY <2>2, FS_CardinalityType
  <2> QED
    BY <2>1, <2>2, <2>3
<1>2. /\ order \in [1..k -> r] /\ DOMAIN order = 1..k
      /\ \A l \in r : \E i \in 1..k : order[i] = l
      /\ \A i, j \in 1..k : i < j => Precedes(order[i], order[j])
  BY DEF Sorted
<1>3. \A l \in r : Precedes(l, m)
  BY DEF LastOf
<1>4. s = r \cup {m}
  BY <1>1
<1> HIDE DEF r, k
<1> DEFINE p == [i \in 1..k + 1 |-> IF i = k + 1 THEN m ELSE order[i]]
<1>5. 1..k + 1 = 1..k \cup {k + 1} /\ k + 1 \notin 1..k
  BY <1>1
<1>6. p[k + 1] = m /\ \A i \in 1..k : p[i] = order[i]
  BY <1>1, <1>5
<1>7. p \in [1..k + 1 -> s] /\ DOMAIN p = 1..k + 1
  BY <1>2, <1>4, <1>5
<1> HIDE DEF p
<1>8. \A l \in s : \E i \in 1..k + 1 : p[i] = l
  BY <1>2, <1>4, <1>5, <1>6
<1>9. ASSUME NEW i \in 1..k + 1, NEW j \in 1..k + 1, i < j PROVE Precedes(p[i], p[j])
  <2>1. i \in 1..k
    BY <1>1, <1>9
  <2>2. CASE j \in 1..k
    BY <1>2, <1>6, <1>9, <2>1, <2>2
  <2>3. CASE j = k + 1
    BY <1>2, <1>3, <1>6, <2>1, <2>3
  <2> QED
    BY <1>5, <2>2, <2>3
<1>10. p \in Sorted(s)
  BY <1>1, <1>7, <1>8, <1>9 DEF Sorted
<1> QED
  BY <1>10

\* sortLogLines has a result, and one only: ReadContainer never waits for it, and leaves
\* nothing to choose (logmgr.go:448-461).
THEOREM InitialLinesHaveOneOrder ==
  ASSUME NEW lines \in SUBSET LineOf, IsFiniteSet(lines)
  PROVE  \E order \in Sorted(lines) : Sorted(lines) = {order}
<1>1. Sorted(lines) # {}
  <2> DEFINE T == {s \in SUBSET LineOf : IsFiniteSet(s) /\ Sorted(s) = {}}
  <2> SUFFICES ASSUME T # {} PROVE FALSE
    OBVIOUS
  <2>1. PICK s \in T : \A r \in T : ~(Cardinality(r) < Cardinality(s))
    <3>1. \A r \in T : IsFiniteSet(r)
      OBVIOUS
    <3> HIDE DEF T
    <3> QED
      BY <3>1, SmallestSet
  <2>2. s \in SUBSET LineOf /\ IsFiniteSet(s) /\ Sorted(s) = {}
    OBVIOUS
  <2>3. CASE s = {}
    <3> DEFINE p == [i \in 1..Cardinality(s) |-> 0]
    <3>1. 1..Cardinality(s) = {}
      <4>1. Cardinality(s) = 0
        BY <2>3, FS_EmptySet
      <4> QED
        BY <4>1
    <3>2. p \in [1..Cardinality(s) -> s] /\ DOMAIN p = {}
      BY <3>1
    <3> HIDE DEF p
    <3>3. p \in Sorted(s)
      BY <2>3, <3>2 DEF Sorted
    <3> QED
      BY <2>2, <3>3
  <2>4. CASE s # {}
    <3>1. PICK m : LastOf(s, m)
      BY <2>2, <2>4, LastLine
    <3> DEFINE r == s \ {m}
    <3>2. r \in SUBSET LineOf /\ IsFiniteSet(r) /\ Cardinality(r) < Cardinality(s)
      <4>1. m \in s /\ Cardinality(s) \in Nat
        BY <2>2, <3>1, FS_CardinalityType DEF LastOf
      <4>2. IsFiniteSet(s \ {m}) /\ Cardinality(s \ {m}) = Cardinality(s) - 1
        BY <2>2, <4>1, FS_RemoveElement
      <4> QED
        BY <2>2, <4>1, <4>2
    <3>3. Sorted(r) # {}
      BY <2>1, <3>2
    <3> QED
      BY <2>2, <3>1, <3>3, SortedAppend
  <2> QED
    BY <2>3, <2>4
<1>2. ASSUME NEW o \in Sorted(lines), NEW p \in Sorted(lines) PROVE o = p
  <2> DEFINE k == Cardinality(lines)
             D == {i \in 1..k : o[i] # p[i]}
  <2>1. /\ o \in [1..k -> lines] /\ p \in [1..k -> lines] /\ k \in Nat
        /\ DOMAIN o = 1..k /\ DOMAIN p = 1..k
        /\ \A l \in lines : (\E i \in 1..k : o[i] = l) /\ \E i \in 1..k : p[i] = l
        /\ \A i, j \in 1..k : i < j => Precedes(o[i], o[j]) /\ Precedes(p[i], p[j])
    BY FS_CardinalityType DEF Sorted
  <2> HIDE DEF k
  <2> SUFFICES ASSUME D # {} PROVE FALSE
    <3>1. o \in [1..k -> lines] /\ p \in [1..k -> lines]
      BY <2>1
    <3>2. ASSUME D = {} PROVE o = p
      <4>1. \A i \in 1..k : o[i] = p[i]
        BY <3>2
      <4>2. o = [i \in 1..k |-> o[i]] /\ p = [i \in 1..k |-> p[i]]
        BY <3>1
      <4>3. [i \in 1..k |-> o[i]] = [i \in 1..k |-> p[i]]
        BY <4>1
      <4> QED
        BY <4>2, <4>3
    <3> QED
      BY <3>2
  <2>2. PICK i \in D : \A j \in D : ~(<<j, i>> \in OpToRel(<, Nat))
    <3>1. D \subseteq Nat
      OBVIOUS
    <3> HIDE DEF D
    <3> QED
      BY <3>1, WFMin, NatLessThanWellFounded
  <2>3. ASSUME NEW j \in 1..k, j < i PROVE o[j] = p[j]
    <3>1. <<j, i>> \in OpToRel(<, Nat)
      BY <2>3 DEF OpToRel
    <3> QED
      BY <2>2, <3>1
  <2>4. /\ i \in 1..k /\ o[i] # p[i] /\ \A j \in 1..k : j < i \/ j = i \/ i < j
        /\ \A j \in 1..k : o[j] \in LineOf /\ p[j] \in LineOf
    <3>1. i \in 1..k /\ o[i] # p[i]
      BY <2>2
    <3>2. \A j \in 1..k : j < i \/ j = i \/ i < j
      BY <3>1
    <3>3. \A j \in 1..k : o[j] \in LineOf /\ p[j] \in LineOf
      BY <2>1
    <3> QED
      BY <3>1, <3>2, <3>3
  <2>5. Precedes(p[i], o[i])
    <3>1. PICK j \in 1..k : p[j] = o[i]
      BY <2>1, <2>4
    <3>2. CASE j < i
      BY <2>1, <2>3, <2>4, <3>1, <3>2, PrecedesIrreflexive
    <3>3. CASE i < j
      BY <2>1, <2>4, <3>1, <3>3
    <3> QED
      BY <2>4, <3>1, <3>2, <3>3
  <2>6. Precedes(o[i], p[i])
    <3>1. PICK j \in 1..k : o[j] = p[i]
      BY <2>1, <2>4
    <3>2. CASE j < i
      BY <2>1, <2>3, <2>4, <3>1, <3>2, PrecedesIrreflexive
    <3>3. CASE i < j
      BY <2>1, <2>4, <3>1, <3>3
    <3> QED
      BY <2>4, <3>1, <3>2, <3>3
  <2> QED
    BY <2>4, <2>5, <2>6, PrecedesIrreflexive, PrecedesOrders
<1> QED
  BY <1>1, <1>2

-----------------------------------------------------------------------------
(* Steps that send no line.                                                *)

\* Where messages are.
LEMMA Flows ==
  ASSUME LogTailTypeOK
  PROVE  /\ channel \in Seq(Msg) /\ initial \in Seq(LogMsg) /\ initial \in Seq(Msg)
         /\ tab.entries \in Seq(LogMsg) /\ tab.entries \in Seq(Msg)
         /\ Waiting \cup Received \subseteq LogMsg
<1>1. channel \in Seq(Msg) /\ initial \in Seq(LogMsg) /\ tab.entries \in Seq(LogMsg)
  BY DEF LogTailTypeOK, TabState
<1>2. initial \in Seq(Msg) /\ tab.entries \in Seq(Msg)
  BY <1>1, Messages, SeqMonotonic
<1> QED
  BY <1>1, <1>2, LogsOfType DEF Waiting, Received

\* It holds before the tab is opened.
LEMMA InitInv == LogTailInit => LogTailInv
<1> SUFFICES ASSUME LogTailInit PROVE LogTailInv
  OBVIOUS
<1>1. /\ written = [c \in Container |-> <<>>] /\ time = 0 /\ phase = "none"
      /\ toRead = <<>> /\ initial = <<>> /\ channel = <<>>
      /\ read = [c \in Container |-> 0] /\ seq = [c \in Container |-> 0]
      /\ follow = [c \in Container |-> "none"] /\ oldest = [c \in Container |-> 0]
      /\ skipped = {} /\ connections = 0 /\ blank = {}
  BY DEF LogTailInit
<1>2. tab \in TabState /\ tab.conn = "closed" /\ tab.entries = <<>>
  <2>1. tab = [conn |-> "closed", entries |-> <<>>, loading |-> FALSE, error |-> ""]
    BY DEF LogTailInit, NoTab
  <2>2. <<>> \in Seq(LogMsg)
    OBVIOUS
  <2> QED
    BY <2>1, <2>2 DEF TabState
<1>3. LogTailTypeOK
  BY <1>1, <1>2 DEF LogTailTypeOK
<1>4. Waiting = {} /\ Received = {}
  BY <1>1, <1>2, LogsOfEmpty DEF Waiting, Received
<1>5. Phases
  BY <1>1, <1>2 DEF Phases
<1>6. Genuine
  <2>1. \A c \in Container : Len(written[c]) = 0 /\ read[c] = 0
    BY <1>1
  <2> QED
    BY <1>4, <2>1 DEF Genuine
<1>7. UnderWayOnce
  BY <1>1, LogsOfEmpty DEF UnderWayOnce, Alone
<1>8. ShownOnce
  <2>1. ASSUME NEW c, NEW n
        PROVE  Cardinality(Shown(c, n)) + (IF Due(c, n) THEN 1 ELSE 0) <= connections
    <3>1. Shown(c, n) = {} /\ ~Due(c, n)
      BY <1>1, <1>2 DEF Shown, Due
    <3>2. Cardinality(Shown(c, n)) = 0
      BY <3>1, FS_EmptySet
    <3> QED
      BY <1>1, <3>1, <3>2
  <2> QED
    BY <2>1 DEF ShownOnce
<1>9. KeysDiffer /\ ErrorClears
  BY <1>1 DEF KeysDiffer, ErrorClears
<1>10. AllAccounted
  <2>1. \A c \in Container : oldest[c] + 1..read[c] = {}
    BY <1>1
  <2> QED
    BY <2>1 DEF AllAccounted
<1> QED
  BY <1>3, <1>5, <1>6, <1>7, <1>8, <1>9, <1>10 DEF LogTailInv

\* A step that sends a note at most, and opens no stream.
LEMMA Quiet ==
  ASSUME LogTailInv, UNCHANGED <<clusterVars, initial, read, seq, tab, historyVars>>,
         channel' = channel \/ (\E m \in {Info, Failure} : channel' = Append(channel, m)),
         phase # "none", phase' \in {"get", "read", "send", "follow", "done"},
         toRead' \in Seq(Container),
         follow' \in [Container -> {"none", "opening", "open", "asleep", "ended"}],
         \A c \in Container : follow'[c] = "open" => follow[c] = "open",
         Phases', ErrorClears'
  PROVE  LogTailInv'
<1>1. /\ UNCHANGED <<written, time, blank, initial, read, seq, tab, oldest, skipped, connections>>
      /\ LogTailTypeOK /\ channel \in Seq(Msg)
  BY DEF clusterVars, historyVars, LogTailInv, LogTailTypeOK
<1>2. channel' \in Seq(Msg) /\ LogsOf(channel') = LogsOf(channel) /\ Alone(channel')
  <2>1. Alone(channel)
    BY DEF LogTailInv, UnderWayOnce
  <2>2. CASE channel' = channel
    BY <1>1, <2>1, <2>2
  <2>3. ASSUME NEW m \in {Info, Failure}, channel' = Append(channel, m)
        PROVE  channel' \in Seq(Msg) /\ LogsOf(channel') = LogsOf(channel) /\ Alone(channel')
    <3>1. m \in Msg /\ m.type # "LOG"
      BY Messages
    <3> QED
      BY <1>1, <2>1, <2>3, <3>1, LogsOfAppend, AloneKept
  <2> QED
    BY <2>2, <2>3
<1>3. Waiting' = Waiting /\ Received' = Received
  BY <1>1, <1>2 DEF Waiting, Received
<1>4. LogTailTypeOK'
  BY <1>1, <1>2 DEF LogTailTypeOK
<1>5. Genuine'
  BY <1>1, <1>3 DEF LogTailInv, Genuine
<1>6. UnderWayOnce'
  BY <1>1, <1>2 DEF LogTailInv, UnderWayOnce, Alone
<1>7. ShownOnce'
  <2>1. \A c, n : (Shown(c, n))' = Shown(c, n) /\ (Due(c, n)' <=> Due(c, n))
    BY <1>1, <1>3 DEF Shown, Due
  <2> QED
    BY <1>1, <2>1 DEF LogTailInv, ShownOnce
<1>8. KeysDiffer'
  <2>1. KeysDiffer
    BY DEF LogTailInv
  <2>2. \A x, c : Numbered(x, c)' <=> Numbered(x, c)
    BY <1>1 DEF Numbered
  <2> QED
    BY <1>1, <1>3, <2>1, <2>2 DEF KeysDiffer, EntryKey, SameLine
<1>9. AllAccounted'
  <2>1. AllAccounted
    BY DEF LogTailInv
  <2>2. \A c, n : Shown(c, n)' = Shown(c, n)
    BY <1>1 DEF Shown
  <2>3. \A c, n : Accounted(c, n)' <=> Accounted(c, n)
    BY <1>1, <1>3, <2>2 DEF Accounted
  <2> QED
    BY <1>1, <2>1, <2>3 DEF AllAccounted
<1> QED
  BY <1>4, <1>5, <1>6, <1>7, <1>8, <1>9 DEF LogTailInv

\* Sending is appending.
LEMMA SendsFails ==
  ASSUME LogTailInv, NEW m \in {Info, Failure}, Sends(m)
  PROVE  /\ channel' = Append(channel, m) /\ channel' # <<>>
         /\ \E x \in {Info, Failure} : channel' = Append(channel, x)
         /\ LogsOf(channel') = LogsOf(channel)
<1>1. channel \in Seq(Msg) /\ m \in Msg /\ m.type # "LOG" /\ channel' = Append(channel, m)
  BY Messages DEF LogTailInv, LogTailTypeOK, Sends
<1>2. channel' # <<>>
  BY <1>1
<1> QED
  BY <1>1, <1>2, LogsOfAppend

\* The pod is there: its containers are read. Or it is not, and nothing more comes.
LEMMA GetPodKeeps ==
  ASSUME LogTailInv, GetPod
  PROVE  LogTailInv'
<1>1. /\ LogTailTypeOK /\ Phases /\ phase = "get"
      /\ UNCHANGED <<clusterVars, initial, read, follow, seq, tab, historyVars>>
      /\ UNCHANGED connections
  BY DEF GetPod, LogTailInv, historyVars
<1>2. CASE phase' = "read" /\ toRead' = Containers /\ UNCHANGED channel
  <2>1. toRead' \in Seq(Container)
    BY <1>2, LogTailAssumption
  <2>2. \A i \in 1..Len(toRead') : toRead'[i] \in Container
    BY <2>1
  <2>3. \A i, j \in 1..Len(toRead') : toRead'[i] = toRead'[j] => i = j
    BY <1>2, <2>1, LogTailAssumption
  <2>4. Phases'
    BY <1>1, <1>2, <2>2, <2>3, LogsOfEmpty DEF Phases
  <2>5. ErrorClears'
    BY <1>2 DEF ErrorClears
  <2> QED
    BY <1>1, <1>2, <2>1, <2>4, <2>5, Quiet DEF LogTailTypeOK
<1>3. CASE phase' = "done" /\ Sends(Failure) /\ UNCHANGED toRead
  <2>1. \E m \in {Info, Failure} : channel' = Append(channel, m)
    BY <1>3, SendsFails
  <2>2. Phases'
    BY <1>1, <1>3 DEF Phases
  <2>3. ErrorClears'
    BY <1>3 DEF ErrorClears
  <2> QED
    BY <1>1, <1>3, <2>1, <2>2, <2>3, Quiet DEF LogTailTypeOK
<1> QED
  BY <1>2, <1>3 DEF GetPod

\* The note "following logs" is under way when following begins.
LEMMA StartFollowingKeeps ==
  ASSUME LogTailInv, StartFollowing
  PROVE  LogTailInv'
<1>1. /\ LogTailTypeOK /\ Phases /\ phase = "send" /\ phase' = "follow" /\ initial = <<>>
      /\ UNCHANGED <<clusterVars, toRead, initial, read, seq, tab, historyVars>>
      /\ UNCHANGED connections
      /\ follow' = [c \in Container |-> IF c \in Followed THEN "opening" ELSE "ended"]
  BY DEF StartFollowing, LogTailInv, historyVars
<1>2. channel' # <<>> /\ \E m \in {Info, Failure} : channel' = Append(channel, m)
  BY SendsFails DEF StartFollowing
<1>3. /\ follow' \in [Container -> {"none", "opening", "open", "asleep", "ended"}]
      /\ \A c \in Container : follow'[c] # "open"
  BY <1>1
<1>4. Phases'
  BY <1>1 DEF Phases
<1>5. ErrorClears'
  <2>1. channel \in Seq(Msg)
    BY <1>1 DEF LogTailTypeOK
  <2> QED
    BY <1>2, <2>1, ClearingKept, Messages DEF ErrorClears
<1> QED
  BY <1>1, <1>2, <1>3, <1>4, <1>5, Quiet DEF LogTailTypeOK

\* A stream or a request that fails or ends, and the sleep after it.
LEMMA FollowEndsKeeps ==
  ASSUME LogTailInv, NEW c \in Container, FollowFails(c) \/ FollowBreaks(c) \/ Wakes(c)
  PROVE  LogTailInv'
<1>1. /\ LogTailTypeOK /\ Phases /\ ErrorClears
      /\ UNCHANGED <<clusterVars, phase, toRead, initial, read, seq, tab, historyVars>>
      /\ UNCHANGED connections
      /\ UNCHANGED channel \/ Sends(Failure)
  BY DEF FollowFails, FollowBreaks, Wakes, LogTailInv, historyVars
<1>2. PICK to \in {"opening", "asleep", "ended"} :
        /\ follow[c] \in {"opening", "open", "asleep"}
        /\ follow' = [follow EXCEPT ![c] = to]
  BY DEF FollowFails, FollowBreaks, Wakes, Follows
<1>3. phase = "follow"
  BY <1>1, <1>2 DEF Phases
<1>4. /\ follow' \in [Container -> {"none", "opening", "open", "asleep", "ended"}]
      /\ \A d \in Container : follow'[d] = "open" => follow[d] = "open"
  BY <1>1, <1>2 DEF LogTailTypeOK
<1>5. \/ channel' = channel
      \/ channel' # <<>> /\ \E m \in {Info, Failure} : channel' = Append(channel, m)
  BY <1>1, SendsFails
<1>6. Phases'
  BY <1>1, <1>3 DEF Phases
<1>7. ErrorClears'
  <2>1. channel \in Seq(Msg)
    BY <1>1 DEF LogTailTypeOK
  <2>2. Clearing(channel) => Clearing(channel')
    <3>1. CASE channel' = channel
      BY <3>1
    <3>2. ASSUME NEW m \in {Info, Failure}, channel' = Append(channel, m)
          PROVE  Clearing(channel')
      BY <2>1, <3>2, ClearingKept, Messages
    <3> QED
      BY <1>5, <3>1, <3>2
  <2> QED
    BY <1>1, <2>2 DEF ErrorClears
<1> QED
  BY <1>1, <1>3, <1>4, <1>5, <1>6, <1>7, Quiet DEF LogTailTypeOK

\* The subscription ends when nothing follows any more.
LEMMA AllEndedKeeps ==
  ASSUME LogTailInv, AllEnded
  PROVE  LogTailInv'
<1>1. /\ LogTailTypeOK /\ Phases /\ phase = "follow" /\ phase' = "done"
      /\ \A c \in Container : follow[c] = "ended"
      /\ UNCHANGED <<clusterVars, toRead, initial, read, follow, seq, channel, tab, historyVars>>
      /\ UNCHANGED connections
  BY DEF AllEnded, LogTailInv, historyVars
<1>2. Phases'
  BY <1>1 DEF Phases
<1>3. ErrorClears'
  BY <1>1 DEF ErrorClears
<1> QED
  BY <1>1, <1>2, <1>3, Quiet DEF LogTailTypeOK

\* A line that is written comes after all that are there.
LEMMA WritesKeeps ==
  ASSUME LogTailInv, NEW c \in Container, Writes(c)
  PROVE  LogTailInv'
<1>1. /\ LogTailTypeOK /\ Genuine /\ written \in [Container -> Seq(Nat)] /\ time \in Nat
      /\ read \in [Container -> Nat]
      /\ UNCHANGED <<time, phase, toRead, initial, read, follow, seq, channel, tab, oldest,
                     skipped, connections>>
      /\ written' = [written EXCEPT ![c] = Append(written[c], time)]
      /\ blank \subseteq blank' /\ blank' \subseteq blank \cup {<<c, Len(written[c]) + 1>>}
  BY DEF Writes, serverVars, historyVars, LogTailInv, LogTailTypeOK
<1>2. /\ written' \in [Container -> Seq(Nat)]
      /\ \A d \in Container :
           /\ Len(written[d]) \in Nat /\ Len(written'[d]) \in Nat
           /\ Len(written[d]) <= Len(written'[d])
           /\ \A n \in 1..Len(written[d]) : written'[d][n] = written[d][n]
           /\ \A n \in 1..Len(written'[d]) : n \in 1..Len(written[d]) \/ written'[d][n] = time
  <2>1. written[c] \in Seq(Nat) /\ Append(written[c], time) \in Seq(Nat)
    BY <1>1
  <2>2. written' \in [Container -> Seq(Nat)]
    BY <1>1, <2>1
  <2>3. /\ Len(written'[c]) = Len(written[c]) + 1 /\ written'[c][Len(written[c]) + 1] = time
        /\ \A n \in 1..Len(written[c]) : written'[c][n] = written[c][n]
        /\ Len(written[c]) \in Nat
    BY <1>1, <2>1
  <2>4. \A d \in Container : d # c => written'[d] = written[d]
    BY <1>1
  <2>5. \A n \in 1..Len(written'[c]) : n \in 1..Len(written[c]) \/ n = Len(written[c]) + 1
    BY <2>3
  <2> QED
    BY <1>1, <2>2, <2>3, <2>4, <2>5
<1>3. LogTailTypeOK'
  <2>1. <<c, Len(written[c]) + 1>> \in Container \X Nat
    BY <1>1, <1>2
  <2>2. blank' \subseteq Container \X Nat
    BY <1>1, <2>1 DEF LogTailTypeOK
  <2> QED
    BY <1>1, <1>2, <2>2 DEF LogTailTypeOK
<1>4. Waiting' = Waiting /\ Received' = Received /\ \A d, n : Shown(d, n)' = Shown(d, n)
  <2>1. Waiting' = Waiting /\ Received' = Received
    BY <1>1 DEF Waiting, Received
  <2>2. \A d, n : Shown(d, n)' = Shown(d, n)
    BY <1>1 DEF Shown
  <2> QED
    BY <2>1, <2>2
<1>5. Waiting \cup Received \subseteq LogMsg
  BY <1>1, Flows
<1>6. Phases' /\ UnderWayOnce' /\ ErrorClears'
  BY <1>1 DEF LogTailInv, Phases, UnderWayOnce, Alone, ErrorClears
<1>7. ShownOnce'
  <2>1. \A d, n : Due(d, n)' <=> Due(d, n)
    BY <1>1, <1>4 DEF Due
  <2> QED
    BY <1>1, <1>4, <2>1 DEF LogTailInv, ShownOnce
<1>8. Genuine'
  <2>1. ASSUME NEW m \in Waiting \cup Received
        PROVE  /\ m.line.n <= Len(written'[m.line.container])
               /\ m.line.time = written'[m.line.container][m.line.n]
    <3>1. m.line.container \in Container /\ m.line.n \in Nat \ {0}
      BY <1>5, Messages
    <3>2. /\ m.line.n <= Len(written[m.line.container])
          /\ m.line.time = written[m.line.container][m.line.n]
      BY <1>1 DEF Genuine
    <3> DEFINE d == m.line.container
               n == m.line.n
    <3>3. n \in 1..Len(written[d]) /\ d \in Container
      BY <1>2, <3>1, <3>2
    <3> HIDE DEF d, n
    <3>4. written'[d][n] = written[d][n] /\ n <= Len(written'[d])
      BY <1>2, <3>3
    <3> QED
      BY <3>2, <3>4 DEF d, n
  <2>2. \A d \in Container : read[d] <= Len(written'[d])
    BY <1>1, <1>2 DEF Genuine
  <2>3. \A d \in Container : \A n \in 1..Len(written'[d]) : written'[d][n] <= time
    BY <1>1, <1>2 DEF Genuine
  <2> QED
    BY <1>1, <1>4, <2>1, <2>2, <2>3 DEF Genuine
<1>9. KeysDiffer'
  <2>1. ASSUME NEW d \in Container, NEW x, Numbered(x, d) PROVE Numbered(x, d)'
    <3>1. CASE x.seq < seq[d]
      BY <1>1, <3>1 DEF Numbered
    <3>2. CASE /\ x.line.time < time
               /\ \A n \in read[d] + 1..Len(written[d]) : x.line.time < written[d][n]
      <4>1. ASSUME NEW n \in read[d] + 1..Len(written'[d]) PROVE x.line.time < written'[d][n]
        <5>1. read[d] \in Nat /\ Len(written[d]) \in Nat /\ Len(written'[d]) \in Nat
          BY <1>1, <1>2
        <5>2. n \in 1..Len(written'[d])
          BY <5>1
        <5>3. CASE n \in 1..Len(written[d])
          <6>1. n \in read[d] + 1..Len(written[d])
            BY <5>1, <5>3
          <6> QED
            BY <1>2, <3>2, <5>3, <6>1
        <5>4. CASE written'[d][n] = time
          BY <3>2, <5>4
        <5> QED
          BY <1>2, <5>2, <5>3, <5>4
      <4> QED
        BY <1>1, <3>2, <4>1 DEF Numbered
    <3> QED
      BY <2>1, <3>1, <3>2 DEF Numbered
  <2> QED
    BY <1>1, <1>4, <2>1 DEF LogTailInv, KeysDiffer, EntryKey, SameLine
<1>10. AllAccounted'
  <2>1. ASSUME NEW d \in Container, NEW n \in oldest[d] + 1..read[d], Accounted(d, n)
        PROVE  Accounted(d, n)'
    <3>1. n \in 1..Len(written[d])
      BY <1>1, <1>2 DEF Genuine, LogTailTypeOK
    <3>2. \A m \in 1..Len(written[d]) : m \in 1..Len(written'[d]) /\ written'[d][m] = written[d][m]
      BY <1>2
    <3>3. ASSUME NEW m \in 1..Len(written[d]), Shown(d, m) # {}, written[d][m] = written[d][n]
          PROVE  \E k \in 1..Len(written'[d]) : Shown(d, k) # {} /\ written'[d][k] = written'[d][n]
      BY <3>1, <3>2, <3>3
    <3> QED
      BY <1>1, <1>4, <2>1, <3>3 DEF Accounted
  <2> QED
    BY <1>1, <2>1 DEF LogTailInv, AllAccounted
<1> QED
  BY <1>3, <1>6, <1>7, <1>8, <1>9, <1>10 DEF LogTailInv

\* A subscription that ends takes with it what is under way; the tab keeps its entries
\* or is cleared.
LEMMA IdleKeeps ==
  ASSUME LogTailInv, Idle, UNCHANGED clusterVars, tab' \in TabState, tab'.conn # "open",
         \/ /\ tab'.entries = <<>> /\ connections' = 0 /\ skipped' = {}
            /\ oldest' = [c \in Container |-> 0]
         \/ /\ tab'.entries = tab.entries /\ connections > 0 /\ UNCHANGED historyVars
  PROVE  LogTailInv'
<1>1. /\ phase' = "none" /\ toRead' = <<>> /\ initial' = <<>> /\ channel' = <<>>
      /\ read' = [c \in Container |-> 0] /\ follow' = [c \in Container |-> "none"]
      /\ seq' = [c \in Container |-> 0] /\ UNCHANGED <<written, time, blank>>
      /\ LogTailTypeOK /\ Genuine /\ ShownOnce /\ KeysDiffer
      /\ tab.entries \in Seq(LogMsg) /\ connections \in Nat
  BY DEF Idle, clusterVars, LogTailInv, LogTailTypeOK, TabState
<1>2. LogTailTypeOK'
  BY <1>1 DEF LogTailTypeOK, historyVars
<1>3. /\ Waiting' = {} /\ Received' \subseteq Received
      /\ connections' = 0 \/ (connections' = connections /\ connections > 0)
  <2>1. Waiting' = {}
    BY <1>1, LogsOfEmpty DEF Waiting
  <2>2. CASE tab'.entries = <<>> /\ connections' = 0
    BY <2>1, <2>2, LogsOfEmpty DEF Received
  <2>3. CASE tab'.entries = tab.entries /\ connections > 0 /\ UNCHANGED historyVars
    BY <2>1, <2>3 DEF Received, historyVars
  <2> QED
    BY <2>2, <2>3
<1>4. Phases'
  BY <1>1, <1>3 DEF Phases, historyVars
<1>5. Genuine'
  <2>1. \A c \in Container : read'[c] <= Len(written'[c])
    BY <1>1 DEF LogTailTypeOK
  <2> QED
    BY <1>1, <1>3, <2>1 DEF Genuine
<1>6. UnderWayOnce'
  BY <1>1, LogsOfEmpty DEF UnderWayOnce, Alone
<1>7. ShownOnce'
  <2>1. ASSUME NEW c \in Container, NEW n \in Nat
        PROVE  Cardinality(Shown(c, n)') + (IF Due(c, n)' THEN 1 ELSE 0) <= connections'
    <3>1. ~Due(c, n)'
      BY <1>1 DEF Due
    <3>2. CASE tab'.entries = <<>>
      <4>1. Shown(c, n)' = {}
        BY <3>2 DEF Shown
      <4>2. Cardinality(Shown(c, n)') = 0
        BY <4>1, FS_EmptySet
      <4> QED
        BY <1>1, <1>3, <3>1, <4>2
    <3>3. CASE tab'.entries = tab.entries /\ connections' = connections
      <4>1. Shown(c, n)' = Shown(c, n) /\ Shown(c, n) = Places(tab.entries, c, n)
        BY <3>3 DEF Shown, Places
      <4>2. Cardinality(Shown(c, n)) \in Nat
        BY <1>1, <4>1, PlacesFinite
      <4>3. Cardinality(Shown(c, n)) + (IF Due(c, n) THEN 1 ELSE 0) <= connections
        BY <1>1 DEF ShownOnce
      <4>4. Cardinality(Shown(c, n)) <= connections
        BY <1>1, <4>2, <4>3
      <4> QED
        BY <1>1, <3>1, <3>3, <4>1, <4>2, <4>4
    <3> QED
      BY <3>2, <3>3 DEF historyVars
  <2> QED
    BY <2>1 DEF ShownOnce
<1>8. KeysDiffer'
  <2>1. connections' = 1 => connections = 1
    BY <1>3
  <2>2. \A c \in Container : follow'[c] # "open"
    BY <1>1
  <2> QED
    BY <1>1, <1>3, <2>1, <2>2 DEF KeysDiffer, EntryKey, SameLine
<1>9. AllAccounted'
  <2>1. \A c \in Container : oldest'[c] + 1..read'[c] = {}
    BY <1>1, <1>2 DEF LogTailTypeOK
  <2> QED
    BY <2>1 DEF AllAccounted
<1>10. ErrorClears'
  BY <1>1 DEF ErrorClears
<1> QED
  BY <1>2, <1>4, <1>5, <1>6, <1>7, <1>8, <1>9, <1>10 DEF LogTailInv

-----------------------------------------------------------------------------
(* The tab's connection.                                                   *)

\* The tab is opened, closed, or begins anew.
LEMMA EffectKeeps ==
  ASSUME LogTailInv, NEW open \in BOOLEAN, EffectRuns(open)
  PROVE  LogTailInv'
<1>1. Idle /\ UNCHANGED clusterVars /\ connections' = 0 /\ skipped' = {}
      /\ oldest' = [c \in Container |-> 0]
  BY DEF EffectRuns
<1>2. tab' \in TabState /\ tab'.conn # "open" /\ tab'.entries = <<>>
  <2>1. <<>> \in Seq(LogMsg)
    OBVIOUS
  <2>2. CASE open
    <3>1. tab' = [NoTab EXCEPT !.conn = "connecting", !.loading = TRUE]
      BY <2>2 DEF EffectRuns
    <3>2. tab' = [conn |-> "connecting", entries |-> <<>>, loading |-> TRUE, error |-> ""]
      BY <3>1 DEF NoTab
    <3> QED
      BY <2>1, <3>2 DEF TabState
  <2>3. CASE ~open
    <3>1. tab' = [conn |-> "closed", entries |-> <<>>, loading |-> FALSE, error |-> ""]
      BY <2>3 DEF EffectRuns, NoTab
    <3> QED
      BY <2>1, <3>1 DEF TabState
  <2> QED
    BY <2>2, <2>3
<1> QED
  BY <1>1, <1>2, IdleKeeps

\* An interruption leaves the entries, and those were numbered by a connection.
LEMMA InterruptedKeeps ==
  ASSUME LogTailInv, Interrupted
  PROVE  LogTailInv'
<1>1. /\ tab.conn = "open" /\ Idle /\ UNCHANGED <<clusterVars, historyVars>>
      /\ tab \in TabState /\ tab.error \in {"", Reconnecting, "server"}
  BY DEF Interrupted, LogTailInv, LogTailTypeOK, TabState
<1>2. connections > 0
  BY <1>1 DEF LogTailInv, Phases
<1>3. tab' \in TabState /\ tab'.conn = "connecting" /\ tab'.entries = tab.entries
  <2> DEFINE error == AfterInterruption(tab.error)
  <2>1. tab' = [tab EXCEPT !.conn = "connecting", !.loading = FALSE, !.error = error]
    BY DEF Interrupted
  <2>2. error \in {"", Reconnecting, "server"}
    BY <1>1 DEF AfterInterruption
  <2> HIDE DEF error
  <2> QED
    BY <1>1, <2>1, <2>2 DEF TabState
<1> QED
  BY <1>1, <1>2, <1>3, IdleKeeps

\* A connection begins: every line is still to be shown once more.
LEMMA ConnectsKeeps ==
  ASSUME LogTailInv, Connects
  PROVE  LogTailInv'
<1>1. /\ LogTailTypeOK /\ Phases /\ Genuine /\ ShownOnce
      /\ tab.conn = "connecting" /\ phase' = "get" /\ skipped' = {}
      /\ connections' = connections + 1
      /\ UNCHANGED <<written, time, blank, toRead, initial, read, follow, seq, channel, oldest>>
      /\ tab \in TabState /\ connections \in Nat
  BY DEF Connects, clusterVars, LogTailInv, LogTailTypeOK
<1>2. /\ phase = "none" /\ channel = <<>> /\ initial = <<>>
      /\ \A c \in Container : read[c] = 0 /\ follow[c] \in {"none", "ended"}
  BY <1>1 DEF Phases
<1>3. tab' \in TabState /\ tab'.conn = "open" /\ tab'.entries = tab.entries
  <2>1. tab' = [tab EXCEPT !.conn = "open"]
    BY DEF Connects
  <2> QED
    BY <1>1, <2>1 DEF TabState
<1>4. LogTailTypeOK'
  BY <1>1, <1>3 DEF LogTailTypeOK
<1>5. Waiting' = {} /\ Waiting = {} /\ Received' = Received
  BY <1>1, <1>2, <1>3, LogsOfEmpty DEF Waiting, Received
<1>6. Phases'
  BY <1>1, <1>2, <1>3 DEF Phases
<1>7. Genuine'
  BY <1>1, <1>5 DEF Genuine
<1>8. UnderWayOnce'
  BY <1>1, <1>2, LogsOfEmpty DEF UnderWayOnce, Alone
<1>9. ShownOnce'
  <2>1. ASSUME NEW c \in Container, NEW n \in Nat
        PROVE  Cardinality(Shown(c, n)') + (IF Due(c, n)' THEN 1 ELSE 0) <= connections'
    <3>1. Shown(c, n)' = Shown(c, n) /\ Shown(c, n) = Places(tab.entries, c, n)
      BY <1>3 DEF Shown, Places
    <3>2. Cardinality(Shown(c, n)) \in Nat
      BY <1>1, <3>1, PlacesFinite, Flows
    <3>3. Cardinality(Shown(c, n)) + (IF Due(c, n) THEN 1 ELSE 0) <= connections
      BY <1>1 DEF ShownOnce
    <3>4. ~Due(c, n)
      BY <1>2 DEF Due
    <3> QED
      BY <1>1, <3>1, <3>2, <3>3, <3>4
  <2> QED
    BY <2>1 DEF ShownOnce
<1>10. KeysDiffer'
  <2>1. ASSUME connections' = 1 PROVE Received = {}
    <3>1. tab.entries = <<>>
      BY <1>1, <2>1 DEF Phases
    <3> QED
      BY <3>1, LogsOfEmpty DEF Received
  <2> QED
    BY <1>5, <2>1 DEF KeysDiffer
<1>11. AllAccounted'
  <2>1. \A c \in Container : oldest'[c] + 1..read'[c] = {}
    BY <1>1, <1>2 DEF LogTailTypeOK
  <2> QED
    BY <2>1 DEF AllAccounted
<1>12. ErrorClears'
  BY <1>1 DEF ErrorClears
<1> QED
  BY <1>4, <1>6, <1>7, <1>8, <1>9, <1>10, <1>11, <1>12 DEF LogTailInv

-----------------------------------------------------------------------------
(* Lines that are read, sent and received.                                 *)

\* What is sent of the initial lines stays under way.
LEMMA SendInitialKeeps ==
  ASSUME LogTailInv, SendInitial
  PROVE  LogTailInv'
<1> DEFINE h == Head(initial)
<1>1. /\ LogTailTypeOK /\ Phases /\ UnderWayOnce
      /\ phase = "send" /\ initial # <<>>
      /\ channel' = Append(channel, h) /\ initial' = Tail(initial)
      /\ UNCHANGED <<written, time, blank, phase, toRead, read, follow, seq, tab, oldest, skipped,
                     connections>>
  BY DEF SendInitial, Sends, clusterVars, historyVars, LogTailInv
<1>2. /\ channel \in Seq(Msg) /\ initial \in Seq(Msg) /\ initial \in Seq(LogMsg)
      /\ h \in LogMsg /\ h \in Msg /\ h.type = "LOG" /\ Tail(initial) \in Seq(LogMsg)
  <2>1. channel \in Seq(Msg) /\ initial \in Seq(Msg) /\ initial \in Seq(LogMsg)
    BY <1>1, Flows
  <2>2. h \in LogMsg /\ Tail(initial) \in Seq(LogMsg)
    BY <1>1, <2>1
  <2> QED
    BY <2>1, <2>2, Messages
<1> HIDE DEF h
<1>3. LogsOf(channel') = LogsOf(channel) \cup {h} /\ channel' \in Seq(Msg)
  BY <1>1, <1>2, LogsOfAppend
<1>4. /\ LogsOf(initial') \subseteq LogsOf(initial) /\ h \in LogsOf(initial)
      /\ \A m \in LogsOf(initial) : m = h \/ m \in LogsOf(initial')
  BY <1>1, <1>2, LogsOfTail DEF h
<1>5. LogsOf(channel') \cup LogsOf(initial') = LogsOf(channel) \cup LogsOf(initial)
  BY <1>3, <1>4
<1>6. Waiting' = Waiting /\ Received' = Received
  BY <1>1, <1>5 DEF Waiting, Received
<1>7. LogTailTypeOK'
  BY <1>1, <1>2, <1>3 DEF LogTailTypeOK
<1>8. Phases' /\ ErrorClears'
  BY <1>1 DEF Phases, ErrorClears
<1>9. UnderWayOnce'
  <2>1. Alone(Append(channel, h))
    BY <1>1, <1>2, <1>4, AloneKept DEF UnderWayOnce
  <2>2. Alone(Tail(initial)) /\ \A x \in LogsOf(Tail(initial)) : ~SameLine(x, h)
    BY <1>1, <1>2, AloneKept DEF UnderWayOnce, h
  <2>3. \A x \in LogsOf(channel'), y \in LogsOf(initial') : ~SameLine(x, y)
    BY <1>1, <1>3, <1>4, <2>2 DEF UnderWayOnce, SameLine
  <2> QED
    BY <1>1, <2>1, <2>2, <2>3 DEF UnderWayOnce, Alone, SameLine
<1>10. Genuine'
  BY <1>1, <1>6 DEF LogTailInv, Genuine
<1>11. ShownOnce'
  <2>1. \A c, n : (Shown(c, n))' = Shown(c, n) /\ (Due(c, n)' <=> Due(c, n))
    BY <1>1, <1>6 DEF Shown, Due
  <2> QED
    BY <1>1, <2>1 DEF LogTailInv, ShownOnce
<1>12. KeysDiffer'
  <2>1. \A x, c : Numbered(x, c)' <=> Numbered(x, c)
    BY <1>1 DEF Numbered
  <2> QED
    BY <1>1, <1>6, <2>1 DEF LogTailInv, KeysDiffer, EntryKey, SameLine
<1>13. AllAccounted'
  <2>1. \A c, n : Shown(c, n)' = Shown(c, n)
    BY <1>1 DEF Shown
  <2>2. \A c, n : Accounted(c, n)' <=> Accounted(c, n)
    BY <1>1, <1>6, <2>1 DEF Accounted
  <2> QED
    BY <1>1, <2>2 DEF LogTailInv, AllAccounted
<1> QED
  BY <1>7, <1>8, <1>9, <1>10, <1>11, <1>12, <1>13 DEF LogTailInv

\* A request that opens comes after every line that is there.
LEMMA Opens ==
  ASSUME LogTailInv, RequestOpens
  PROVE  /\ time' \in Nat /\ time <= time'
         /\ \A c \in Container : \A n \in 1..Len(written[c]) : written[c][n] < time'
<1>1. /\ time \in Nat /\ written \in [Container -> Seq(Nat)]
      /\ \A c \in Container : \A n \in 1..Len(written[c]) : written[c][n] <= time
  BY DEF LogTailInv, LogTailTypeOK, Genuine
<1>2. \A c \in Container : \A n \in 1..Len(written[c]) :
        n \in DOMAIN written[c] /\ written[c][n] \in Nat
  BY <1>1
<1>3. CASE \E c \in Container : \E n \in DOMAIN written[c] : written[c][n] = time
  <2>1. time' = time + 1
    BY <1>3 DEF RequestOpens
  <2> QED
    BY <1>1, <1>2, <2>1
<1>4. CASE ~(\E c \in Container : \E n \in DOMAIN written[c] : written[c][n] = time)
  <2>1. time' = time
    BY <1>4 DEF RequestOpens
  <2> QED
    BY <1>1, <1>2, <1>4, <2>1
<1> QED
  BY <1>3, <1>4

\* A step that makes no line due that was not keeps every line shown once.
LEMMA NoMoreDue ==
  ASSUME LogTailInv, UNCHANGED <<tab, connections>>,
         \A c \in Container, n \in Nat : Due(c, n)' => Due(c, n)
  PROVE  ShownOnce'
<1>1. LogTailTypeOK /\ ShownOnce /\ connections \in Nat
  BY DEF LogTailInv, LogTailTypeOK
<1>2. ASSUME NEW c \in Container, NEW n \in Nat
      PROVE  Cardinality(Shown(c, n)') + (IF Due(c, n)' THEN 1 ELSE 0) <= connections'
  <2>1. Shown(c, n)' = Shown(c, n) /\ Shown(c, n) = Places(tab.entries, c, n)
    BY DEF Shown, Places
  <2>2. Cardinality(Shown(c, n)) \in Nat
    BY <1>1, <2>1, PlacesFinite, Flows
  <2>3. Cardinality(Shown(c, n)) + (IF Due(c, n) THEN 1 ELSE 0) <= connections
    BY <1>1 DEF ShownOnce
  <2>4. Due(c, n)' => Due(c, n)
    OBVIOUS
  <2> QED
    BY <1>1, <2>1, <2>2, <2>3, <2>4
<1> QED
  BY <1>2 DEF ShownOnce

\* The container that is read next, and those that are left.
LEMMA NextToRead ==
  ASSUME LogTailInv, ReadContainer
  PROVE  /\ phase = "read" /\ phase' \in {"read", "send"} /\ toRead' \in Seq(Container)
         /\ LogsOf(channel) = {} /\ Waiting = LogsOf(initial)
         /\ \A c \in Container : follow[c] \in {"none", "ended"}
         /\ UNCHANGED <<written, blank, follow, seq, tab, skipped, connections>>
         /\ \A i, j \in 1..Len(toRead') : toRead'[i] = toRead'[j] => i = j
         /\ \A i \in 1..Len(toRead') : /\ toRead'[i] # Head(toRead) /\ toRead'[i] \in Container
                                       /\ read[toRead'[i]] = 0
<1>1. /\ LogTailTypeOK /\ Phases /\ toRead \in Seq(Container)
      /\ phase = "read" /\ phase' \in {"read", "send"} /\ toRead # <<>> /\ toRead' = Tail(toRead)
      /\ UNCHANGED <<written, blank, follow, seq, tab, skipped, connections>>
  BY DEF ReadContainer, LogTailInv, LogTailTypeOK
<1>2. /\ LogsOf(channel) = {}
      /\ \A c \in Container : follow[c] \in {"none", "ended"}
      /\ \A i, j \in 1..Len(toRead) : toRead[i] = toRead[j] => i = j
      /\ \A i \in 1..Len(toRead) : read[toRead[i]] = 0
  BY <1>1 DEF Phases
<1>3. /\ toRead' \in Seq(Container) /\ Len(toRead) \in Nat \ {0} /\ Head(toRead) = toRead[1]
      /\ Len(toRead') = Len(toRead) - 1
      /\ \A i \in 1..Len(toRead') : toRead'[i] = toRead[i + 1] /\ i + 1 \in 1..Len(toRead)
  BY <1>1
<1>4. \A i \in 1..Len(toRead') : toRead'[i] \in Container /\ i + 1 # 1
  BY <1>3
<1>5. \A i, j \in 1..Len(toRead') : toRead'[i] = toRead'[j] => i = j
  <2> SUFFICES ASSUME NEW i \in 1..Len(toRead'), NEW j \in 1..Len(toRead'),
                      toRead'[i] = toRead'[j]
               PROVE  i = j
    OBVIOUS
  <2>1. i + 1 = j + 1
    BY <1>2, <1>3
  <2> QED
    BY <2>1
<1>6. \A i \in 1..Len(toRead') : toRead'[i] # Head(toRead)
  <2>1. 1 \in 1..Len(toRead)
    BY <1>3
  <2> QED
    BY <1>2, <1>3, <1>4, <2>1
<1> QED
  BY <1>1, <1>2, <1>3, <1>4, <1>5, <1>6 DEF Waiting

\* The last lines of the next container are among the initial lines, each once.
LEMMA ReadKeeps ==
  ASSUME LogTailInv, ReadContainer, RequestOpens,
         NEW c, c = Head(toRead), NEW end, end = Len(written[c]),
         NEW start, start = FirstRead(end),
         NEW lines, lines = LinesRead(c, start, end),
         NEW order \in Sorted(lines), initial' = LinesInOrder(order),
         read' = [read EXCEPT ![c] = end], oldest' = [oldest EXCEPT ![c] = start],
         UNCHANGED channel
  PROVE  LogTailInv'
<1>1. /\ LogTailTypeOK /\ Phases /\ Genuine /\ UnderWayOnce /\ KeysDiffer /\ AllAccounted
      /\ phase = "read" /\ phase' \in {"read", "send"} /\ toRead' \in Seq(Container)
      /\ LogsOf(channel) = {} /\ Waiting = LogsOf(initial)
      /\ \A d \in Container : follow[d] \in {"none", "ended"}
      /\ UNCHANGED <<written, blank, follow, seq, tab, skipped, connections, channel>>
      /\ read \in [Container -> Nat] /\ oldest \in [Container -> Nat]
      /\ toRead # <<>>
  BY NextToRead DEF LogTailInv, LogTailTypeOK, ReadContainer
<1>2. /\ c \in Container /\ end \in Nat /\ start \in Nat /\ start <= end /\ read[c] = 0
      /\ lines \in SUBSET LineOf /\ IsFiniteSet(lines)
      /\ \A l \in lines : (\E m \in LogsOf(initial) : m.line = l)
                            \/ \E n \in start + 1..end : l = Line(c, n)
      /\ \A m \in LogsOf(initial) : m.line \in lines
      /\ \A n \in start + 1..end : Line(c, n) \in lines
      /\ \A l \in lines : /\ l.n <= Len(written[l.container])
                          /\ l.time = written[l.container][l.n]
                          /\ l.container = c \/ l.n <= read[l.container]
                          /\ l.container = c => l.n \in start + 1..end
  <2>1. phase = "read" /\ toRead # <<>>
    BY <1>1
  <2> QED
    BY <2>1, ReadLines
<1>3. /\ initial' \in Seq(LogMsg)
      /\ \A m \in LogsOf(initial') : m.line \in lines
      /\ \A l \in lines : \E m \in LogsOf(initial') : m.line = l
      /\ \A i, j \in 1..Len(initial') : initial'[i].line = initial'[j].line => i = j
      /\ \A x, y \in LogsOf(initial') : x.seq = y.seq => x = y
  <2> DEFINE s == initial'
  <2>1. s = LinesInOrder(order)
    OBVIOUS
  <2> HIDE DEF s
  <2>2. /\ s \in Seq(LogMsg)
        /\ \A m \in LogsOf(s) : m.line \in lines
        /\ \A l \in lines : \E m \in LogsOf(s) : m.line = l
        /\ \A i, j \in 1..Len(s) : s[i].line = s[j].line => i = j
        /\ \A x, y \in LogsOf(s) : x.seq = y.seq => x = y
    <3>1. lines \in SUBSET LineOf /\ IsFiniteSet(lines)
      BY <1>2
    <3> QED
      BY <2>1, <3>1, SortedLines
  <2> QED
    BY <2>2 DEF s
<1>4. /\ read' \in [Container -> Nat] /\ oldest' \in [Container -> Nat]
      /\ read'[c] = end /\ oldest'[c] = start
      /\ \A d \in Container : d # c => read'[d] = read[d] /\ oldest'[d] = oldest[d]
  BY <1>1, <1>2
<1>5. /\ time' \in Nat /\ time <= time'
      /\ \A d \in Container : \A n \in 1..Len(written[d]) : written[d][n] < time'
  BY Opens
<1>6. Waiting' = LogsOf(initial') /\ Received' = Received
  BY <1>1 DEF Waiting, Received
<1>7. Waiting \cup Received \subseteq LogMsg
  BY <1>1, Flows
<1>8. LogTailTypeOK'
  BY <1>1, <1>3, <1>4, <1>5 DEF LogTailTypeOK
<1>9. Phases'
  <2>1. \A i, j \in 1..Len(toRead') : toRead'[i] = toRead'[j] => i = j
    BY NextToRead
  <2>2. \A i \in 1..Len(toRead') : read'[toRead'[i]] = 0
    BY <1>4, NextToRead
  <2> QED
    BY <1>1, <2>1, <2>2 DEF Phases
<1>10. \A l \in lines : /\ l.container \in Container /\ l.n \in Nat /\ l.n <= read'[l.container]
                        /\ l.n <= Len(written[l.container])
                        /\ l.time = written[l.container][l.n]
  <2> SUFFICES ASSUME NEW l \in lines
               PROVE  /\ l.container \in Container /\ l.n \in Nat /\ l.n <= read'[l.container]
                      /\ l.n <= Len(written[l.container])
                      /\ l.time = written[l.container][l.n]
    OBVIOUS
  <2>1. l.container \in Container /\ l.n \in Nat
    BY <1>2 DEF LineOf
  <2> QED
    BY <1>2, <1>4, <2>1
<1>11. Genuine'
  <2>1. \A m \in Waiting' : /\ m.line.n <= Len(written[m.line.container])
                            /\ m.line.time = written[m.line.container][m.line.n]
                            /\ m.line.n <= read'[m.line.container]
    BY <1>3, <1>6, <1>10
  <2>2. \A d \in Container : read'[d] <= Len(written[d])
    BY <1>1, <1>2, <1>4 DEF Genuine
  <2>3. \A d \in Container : \A n \in 1..Len(written[d]) : written[d][n] <= time'
    <3> SUFFICES ASSUME NEW d \in Container, NEW n \in 1..Len(written[d])
                 PROVE  written[d][n] <= time'
      OBVIOUS
    <3>1. written[d][n] < time' /\ written[d] \in Seq(Nat)
      BY <1>1, <1>5 DEF LogTailTypeOK
    <3>2. written[d][n] \in Nat
      BY <3>1
    <3> QED
      BY <1>5, <3>1, <3>2
  <2>4. \A m \in Received : /\ m.line.n <= Len(written[m.line.container])
                            /\ m.line.time = written[m.line.container][m.line.n]
    BY <1>1 DEF Genuine
  <2> QED
    BY <1>1, <1>6, <2>1, <2>2, <2>3, <2>4 DEF Genuine
<1>12. UnderWayOnce'
  <2>1. ASSUME NEW i \in 1..Len(initial'), NEW j \in 1..Len(initial'),
               SameLine(initial'[i], initial'[j])
        PROVE  i = j
    <3>1. initial'[i] \in LogsOf(initial') /\ initial'[j] \in LogsOf(initial')
      <4> DEFINE s == initial'
      <4>1. s \in Seq(LogMsg) /\ \A k \in 1..Len(s) : s[k] \in LogMsg
        BY <1>3
      <4> HIDE DEF s
      <4>2. \A k \in 1..Len(s) : s[k] \in LogsOf(s)
        BY <4>1, Messages DEF LogsOf
      <4> QED
        BY <4>2 DEF s
    <3> DEFINE k == initial'[i].line
               l == initial'[j].line
    <3>2. k \in lines /\ l \in lines /\ k.container = l.container /\ k.n = l.n
      BY <1>3, <2>1, <3>1 DEF SameLine
    <3>3. k = l => i = j
      BY <1>3
    <3> HIDE DEF k, l
    <3>4. k.time = l.time /\ k \in LineOf /\ l \in LineOf
      BY <1>2, <1>10, <3>2
    <3>5. k = l
      BY <3>2, <3>4 DEF LineOf
    <3> QED
      BY <3>3, <3>5
  <2> QED
    BY <1>1, <2>1 DEF UnderWayOnce, Alone, SameLine
<1>13. ShownOnce'
  <2>1. ASSUME NEW d \in Container, NEW n \in Nat, Due(d, n)' PROVE Due(d, n)
    <3>1. CASE n > read'[d]
      <4>1. n > read[d]
        BY <1>1, <1>2, <1>4, <3>1
      <4> QED
        BY <1>1, <4>1 DEF Due
    <3>2. CASE \E m \in Waiting' : m.line.container = d /\ m.line.n = n
      <4>1. PICK m \in LogsOf(initial') : m.line.container = d /\ m.line.n = n
        BY <1>6, <3>2
      <4>2. m.line \in lines
        BY <1>3
      <4>3. CASE d = c
        <5>1. n \in start + 1..end
          BY <1>2, <4>1, <4>2, <4>3
        <5>2. n > read[d]
          BY <1>2, <4>3, <5>1
        <5> QED
          BY <1>1, <5>2 DEF Due
      <4>4. CASE d # c
        <5>1. \A k : Line(c, k).container = c
          BY DEF Line
        <5>2. PICK x \in LogsOf(initial) : x.line = m.line
          BY <1>2, <4>1, <4>2, <4>4, <5>1
        <5> QED
          BY <1>1, <4>1, <5>2 DEF Due, Waiting
      <4> QED
        BY <4>3, <4>4
    <3> QED
      BY <2>1, <3>1, <3>2 DEF Due
  <2> QED
    BY <1>1, <2>1, NoMoreDue
<1>14. KeysDiffer'
  <2>1. ASSUME connections' = 1
        PROVE  \A x, y \in Waiting' \cup Received' : EntryKey(x) = EntryKey(y) => SameLine(x, y)
    <3>1. tab.entries = <<>>
      BY <1>1, <2>1 DEF Phases
    <3>2. Received' = {}
      BY <1>6, <3>1, LogsOfEmpty DEF Received
    <3> QED
      BY <1>3, <1>6, <3>2 DEF EntryKey, SameLine
  <2>2. \A d \in Container : follow'[d] # "open"
    BY <1>1
  <2> QED
    BY <2>1, <2>2 DEF KeysDiffer, EntryKey, SameLine
<1>15. AllAccounted'
  <2>1. \A d, n : Shown(d, n)' = Shown(d, n)
    BY <1>1 DEF Shown
  <2>2. ASSUME NEW n \in start + 1..end PROVE Accounted(c, n)'
    <3>1. Line(c, n) \in lines /\ Line(c, n).container = c /\ Line(c, n).n = n
      BY <1>2 DEF Line
    <3>2. PICK m \in LogsOf(initial') : m.line = Line(c, n)
      BY <1>3, <3>1
    <3>3. m \in Waiting' /\ m.line.container = c /\ m.line.n = n
      BY <1>6, <3>1, <3>2
    <3> QED
      BY <3>3 DEF Accounted
  <2>3. ASSUME NEW d, NEW n, Accounted(d, n) PROVE Accounted(d, n)'
    <3>1. ASSUME NEW m \in Waiting, m.line.container = d, m.line.n = n
          PROVE  \E x \in Waiting' : x.line.container = d /\ x.line.n = n
      <4>1. m.line \in lines
        BY <1>1, <1>2, <3>1
      <4>2. PICK x \in LogsOf(initial') : x.line = m.line
        BY <1>3, <4>1
      <4> QED
        BY <1>6, <3>1, <4>2
    <3> QED
      BY <1>1, <2>1, <2>3, <3>1 DEF Accounted
  <2> QED
    BY <1>1, <1>4, <2>2, <2>3 DEF AllAccounted
<1>16. ErrorClears'
  BY <1>1 DEF ErrorClears
<1> QED
  BY <1>8, <1>9, <1>11, <1>12, <1>13, <1>14, <1>15, <1>16 DEF LogTailInv

\* A container that cannot be read is passed over: none of its lines is expected.
LEMMA ReadFailsKeeps ==
  ASSUME LogTailInv, ReadContainer, Sends(Failure),
         NEW c, c = Head(toRead), NEW end, end = Len(written[c]),
         read' = [read EXCEPT ![c] = end], oldest' = [oldest EXCEPT ![c] = end],
         UNCHANGED <<time, initial>>
  PROVE  LogTailInv'
<1>1. /\ LogTailTypeOK /\ Phases /\ Genuine /\ UnderWayOnce /\ KeysDiffer /\ AllAccounted
      /\ phase = "read" /\ phase' \in {"read", "send"} /\ toRead' \in Seq(Container)
      /\ LogsOf(channel) = {} /\ Waiting = LogsOf(initial)
      /\ \A d \in Container : follow[d] \in {"none", "ended"}
      /\ UNCHANGED <<written, time, blank, follow, seq, tab, skipped, connections, initial>>
      /\ read \in [Container -> Nat] /\ oldest \in [Container -> Nat]
      /\ written \in [Container -> Seq(Nat)] /\ channel \in Seq(Msg)
  BY NextToRead DEF LogTailInv, LogTailTypeOK
<1>2. c \in Container /\ end \in Nat /\ read[c] <= end
  <2>1. toRead \in Seq(Container) /\ toRead # <<>>
    BY <1>1 DEF LogTailTypeOK, ReadContainer
  <2>2. c \in Container
    BY <2>1
  <2> QED
    BY <1>1, <2>2 DEF Genuine
<1>3. /\ channel' = Append(channel, Failure) /\ channel' # <<>>
      /\ LogsOf(channel') = LogsOf(channel)
  <2>1. Failure \in {Info, Failure}
    OBVIOUS
  <2>2. channel' = Append(channel, Failure)
    BY DEF Sends
  <2>3. channel' # <<>> /\ LogsOf(channel') = LogsOf(channel)
    BY <2>1, SendsFails
  <2> QED
    BY <2>2, <2>3
<1>4. channel' \in Seq(Msg) /\ Alone(channel')
  <2>1. Failure \in Msg /\ Failure.type # "LOG" /\ Alone(channel)
    BY <1>1, Messages DEF UnderWayOnce
  <2> QED
    BY <1>1, <1>3, <2>1, LogsOfAppend, AloneKept
<1>5. /\ read' \in [Container -> Nat] /\ oldest' \in [Container -> Nat]
      /\ read'[c] = end /\ oldest'[c] = end
      /\ \A d \in Container : d # c => read'[d] = read[d] /\ oldest'[d] = oldest[d]
      /\ \A d \in Container : read[d] <= read'[d]
  BY <1>1, <1>2
<1>6. Waiting' = Waiting /\ Received' = Received
  BY <1>1, <1>3 DEF Waiting, Received
<1>7. Waiting \subseteq LogMsg
  BY <1>1, Flows
<1>8. LogTailTypeOK'
  BY <1>1, <1>4, <1>5 DEF LogTailTypeOK
<1>9. Phases'
  <2>1. \A i, j \in 1..Len(toRead') : toRead'[i] = toRead'[j] => i = j
    BY NextToRead
  <2>2. \A i \in 1..Len(toRead') : read'[toRead'[i]] = 0
    BY <1>5, NextToRead
  <2> QED
    BY <1>1, <1>3, <2>1, <2>2 DEF Phases
<1>10. Genuine'
  <2>1. \A m \in Waiting : m.line.n <= read'[m.line.container]
    <3> SUFFICES ASSUME NEW m \in Waiting PROVE m.line.n <= read'[m.line.container]
      OBVIOUS
    <3>1. m.line.container \in Container /\ m.line.n \in Nat
      BY <1>7, Messages
    <3>2. m.line.n <= read[m.line.container]
      BY <1>1 DEF Genuine
    <3> QED
      BY <1>1, <1>5, <3>1, <3>2
  <2>2. \A d \in Container : read'[d] <= Len(written[d])
    BY <1>1, <1>2, <1>5 DEF Genuine
  <2> QED
    BY <1>1, <1>6, <2>1, <2>2 DEF Genuine
<1>11. UnderWayOnce'
  BY <1>1, <1>3, <1>4 DEF UnderWayOnce, Alone
<1>12. ShownOnce'
  <2>1. ASSUME NEW d \in Container, NEW n \in Nat, Due(d, n)' PROVE Due(d, n)
    <3>1. n > read'[d] => n > read[d]
      BY <1>1, <1>5
    <3> QED
      BY <1>1, <1>6, <2>1, <3>1 DEF Due
  <2> QED
    BY <1>1, <2>1, NoMoreDue
<1>13. KeysDiffer'
  <2>1. \A d \in Container : follow'[d] # "open"
    BY <1>1
  <2> QED
    BY <1>1, <1>6, <2>1 DEF KeysDiffer, EntryKey, SameLine
<1>14. AllAccounted'
  <2>1. \A d, n : Shown(d, n)' = Shown(d, n)
    BY <1>1 DEF Shown
  <2>2. \A d, n : Accounted(d, n)' <=> Accounted(d, n)
    BY <1>1, <1>6, <2>1 DEF Accounted
  <2>3. end + 1..end = {}
    BY <1>2
  <2> QED
    BY <1>1, <1>5, <2>2, <2>3 DEF AllAccounted
<1>15. ErrorClears'
  BY <1>1 DEF ErrorClears
<1> QED
  BY <1>8, <1>9, <1>10, <1>11, <1>12, <1>13, <1>14, <1>15 DEF LogTailInv

\* readContainerLogs.
LEMMA ReadContainerKeeps ==
  ASSUME LogTailInv, ReadContainer
  PROVE  LogTailInv'
<1> DEFINE c == Head(toRead)
           end == Len(written[c])
           start == FirstRead(end)
           lines == LinesRead(c, start, end)
<1>1. \/ /\ RequestOpens
         /\ \E order \in Sorted(lines) : initial' = LinesInOrder(order)
         /\ read' = [read EXCEPT ![c] = end]
         /\ oldest' = [oldest EXCEPT ![c] = start]
         /\ UNCHANGED channel
      \/ /\ Sends(Failure)
         /\ oldest' = [oldest EXCEPT ![c] = end]
         /\ read' = [read EXCEPT ![c] = end]
         /\ UNCHANGED <<time, initial>>
  BY DEF ReadContainer, FirstRead, LinesRead, LinesInOrder
<1> HIDE DEF c, end, start, lines
<1>2. ASSUME Sends(Failure), oldest' = [oldest EXCEPT ![c] = end],
             read' = [read EXCEPT ![c] = end], UNCHANGED <<time, initial>>
      PROVE  LogTailInv'
  <2>1. c = Head(toRead) /\ end = Len(written[c])
    BY DEF c, end
  <2> QED
    BY <1>2, <2>1, ReadFailsKeeps
<1>3. ASSUME RequestOpens, NEW order \in Sorted(lines), initial' = LinesInOrder(order),
             read' = [read EXCEPT ![c] = end], oldest' = [oldest EXCEPT ![c] = start],
             UNCHANGED channel
      PROVE  LogTailInv'
  <2>1. /\ c = Head(toRead) /\ end = Len(written[c]) /\ start = FirstRead(end)
        /\ lines = LinesRead(c, start, end)
    BY DEF c, end, start, lines
  <2> QED
    BY <1>3, <2>1, ReadKeeps
<1> QED
  BY <1>1, <1>2, <1>3

-----------------------------------------------------------------------------
(* Following a container.                                                  *)

\* A stream that opens: what it passes over is recorded, and its numbers are for lines
\* that are not written yet.
LEMMA FollowOpensKeeps ==
  ASSUME LogTailInv, NEW c \in Container, FollowOpens(c)
  PROVE  LogTailInv'
<1> DEFINE end == Len(written[c])
<1>1. /\ LogTailTypeOK /\ Phases /\ Genuine /\ UnderWayOnce /\ KeysDiffer /\ AllAccounted
      /\ ErrorClears
      /\ RequestOpens /\ follow[c] = "opening" /\ follow' = [follow EXCEPT ![c] = "open"]
      /\ read' = [read EXCEPT ![c] = end] /\ seq' = [seq EXCEPT ![c] = 0]
      /\ skipped' = skipped \cup {<<c, n>> : n \in read[c] + 1..end}
      /\ UNCHANGED <<written, blank, phase, toRead, initial, channel, tab, oldest, connections>>
      /\ read \in [Container -> Nat] /\ oldest \in [Container -> Nat] /\ seq \in [Container -> Nat]
      /\ written \in [Container -> Seq(Nat)]
  BY DEF FollowOpens, Follows, FollowStart, LogTailInv, LogTailTypeOK
<1>2. end \in Nat /\ read[c] <= end
  BY <1>1 DEF Genuine
<1> HIDE DEF end
<1>3. phase = "follow" /\ initial = <<>>
  BY <1>1 DEF Phases
<1>4. /\ read' \in [Container -> Nat] /\ seq' \in [Container -> Nat]
      /\ follow' \in [Container -> {"none", "opening", "open", "asleep", "ended"}]
      /\ read'[c] = end /\ seq'[c] = 0
      /\ \A d \in Container : d # c => /\ read'[d] = read[d] /\ seq'[d] = seq[d]
                                       /\ follow'[d] = follow[d]
      /\ \A d \in Container : read[d] <= read'[d]
  BY <1>1, <1>2 DEF LogTailTypeOK
<1>5. /\ time' \in Nat /\ time <= time' /\ time \in Nat
      /\ \A d \in Container : \A n \in 1..Len(written[d]) : written[d][n] < time'
  BY <1>1, Opens DEF LogTailTypeOK
<1>6. Waiting' = Waiting /\ Received' = Received
  BY <1>1 DEF Waiting, Received
<1>7. Waiting \cup Received \subseteq LogMsg
  BY <1>1, Flows
<1>8. skipped' \subseteq Container \X Nat
  <2>1. \A n \in read[c] + 1..end : n \in Nat
    BY <1>1, <1>2
  <2> QED
    BY <1>1, <2>1 DEF LogTailTypeOK
<1>9. LogTailTypeOK'
  BY <1>1, <1>4, <1>5, <1>8 DEF LogTailTypeOK
<1>10. Phases'
  BY <1>1, <1>3 DEF Phases
<1>11. Genuine'
  <2>1. \A m \in Waiting : m.line.n <= read'[m.line.container]
    <3> SUFFICES ASSUME NEW m \in Waiting PROVE m.line.n <= read'[m.line.container]
      OBVIOUS
    <3>1. m.line.container \in Container /\ m.line.n \in Nat
      BY <1>7, Messages
    <3>2. m.line.n <= read[m.line.container]
      BY <1>1 DEF Genuine
    <3> QED
      BY <1>1, <1>4, <3>1, <3>2
  <2>2. \A d \in Container : read'[d] <= Len(written[d])
    BY <1>1, <1>4 DEF Genuine, end
  <2>3. \A d \in Container : \A n \in 1..Len(written[d]) : written[d][n] <= time'
    <3> SUFFICES ASSUME NEW d \in Container, NEW n \in 1..Len(written[d])
                 PROVE  written[d][n] <= time'
      OBVIOUS
    <3>1. written[d][n] < time' /\ written[d] \in Seq(Nat)
      BY <1>1, <1>5
    <3>2. written[d][n] \in Nat
      BY <3>1
    <3> QED
      BY <1>5, <3>1, <3>2
  <2> QED
    BY <1>1, <1>6, <2>1, <2>2, <2>3 DEF Genuine
<1>12. UnderWayOnce'
  BY <1>1 DEF UnderWayOnce, Alone, SameLine
<1>13. ShownOnce'
  <2>1. ASSUME NEW d \in Container, NEW n \in Nat, Due(d, n)' PROVE Due(d, n)
    <3>1. n > read'[d] => n > read[d]
      BY <1>1, <1>4
    <3> QED
      BY <1>1, <1>6, <2>1, <3>1 DEF Due
  <2> QED
    BY <1>1, <2>1, NoMoreDue
<1>14. KeysDiffer'
  <2>1. ASSUME NEW x \in Waiting \cup Received, x.line.container = c PROVE Numbered(x, c)'
    <3>1. /\ x.line.n \in 1..Len(written[c]) /\ x.line.time = written[c][x.line.n]
      <4>1. x.line.n \in Nat \ {0} /\ x.line.n <= Len(written[c])
        BY <1>1, <1>7, <2>1, Messages DEF Genuine
      <4>2. x.line.time = written[c][x.line.n]
        BY <1>1, <2>1 DEF Genuine
      <4> QED
        BY <1>1, <4>1, <4>2
    <3>2. x.line.time < time'
      BY <1>5, <3>1
    <3>3. read'[c] + 1..Len(written[c]) = {}
      BY <1>2, <1>4 DEF end
    <3> QED
      BY <1>1, <3>2, <3>3 DEF Numbered
  <2>2. ASSUME NEW d \in Container, d # c, NEW x \in Waiting \cup Received, Numbered(x, d)
        PROVE  Numbered(x, d)'
    <3>1. x.line.time \in Nat
      BY <1>7, Messages
    <3> QED
      BY <1>1, <1>4, <1>5, <2>2, <3>1 DEF Numbered
  <2> QED
    BY <1>1, <1>4, <1>6, <2>1, <2>2 DEF KeysDiffer, EntryKey, SameLine
<1>15. AllAccounted'
  <2>1. \A d, n : Shown(d, n)' = Shown(d, n)
    BY <1>1 DEF Shown
  <2>2. \A d, n : Accounted(d, n) => Accounted(d, n)'
    BY <1>1, <1>6, <2>1 DEF Accounted
  <2>3. \A n \in read[c] + 1..end : Accounted(c, n)'
    BY <1>1 DEF Accounted
  <2>4. ASSUME NEW n \in oldest[c] + 1..end
        PROVE  n \in oldest[c] + 1..read[c] \/ n \in read[c] + 1..end
    BY <1>1, <1>2
  <2> QED
    BY <1>1, <1>4, <2>2, <2>3, <2>4 DEF AllAccounted
<1>16. ErrorClears'
  BY <1>1 DEF ErrorClears
<1> QED
  BY <1>9, <1>10, <1>11, <1>12, <1>13, <1>14, <1>15, <1>16 DEF LogTailInv

\* A line that a stream sends has a number that no line of its time had.
LEMMA FollowSendsKeeps ==
  ASSUME LogTailInv, NEW c \in Container, FollowSends(c)
  PROVE  LogTailInv'
<1> PICK k : k = read[c] + 1
  OBVIOUS
<1> PICK m : m = Log(Line(c, k), seq[c])
  OBVIOUS
<1>1. /\ LogTailTypeOK /\ Phases /\ Genuine /\ UnderWayOnce /\ KeysDiffer /\ AllAccounted
      /\ follow[c] = "open" /\ read[c] < Len(written[c]) /\ channel' = Append(channel, m)
      /\ read' = [read EXCEPT ![c] = k] /\ seq' = [seq EXCEPT ![c] = seq[c] + 1]
      /\ UNCHANGED <<written, time, blank, phase, toRead, initial, follow, tab, oldest, skipped,
                     connections>>
      /\ read \in [Container -> Nat] /\ oldest \in [Container -> Nat] /\ seq \in [Container -> Nat]
      /\ written \in [Container -> Seq(Nat)] /\ channel \in Seq(Msg) /\ time \in Nat
  BY DEF FollowSends, Sends, clusterVars, historyVars, LogTailInv, LogTailTypeOK
<1>2. k \in 1..Len(written[c]) /\ read[c] \in Nat /\ seq[c] \in Nat /\ k \in Nat
  BY <1>1
<1>3. /\ m \in LogMsg /\ m \in Msg /\ m.type = "LOG" /\ m.seq = seq[c]
      /\ m.line.container = c /\ m.line.n = k /\ m.line.time = written[c][k]
  <2>1. /\ Line(c, k) \in LineOf /\ Line(c, k).container = c /\ Line(c, k).n = k
        /\ Line(c, k).time = written[c][k]
    BY <1>1, <1>2, LineType
  <2> QED
    BY <1>2, <2>1, Messages
<1>4. phase = "follow" /\ initial = <<>>
  BY <1>1 DEF Phases
<1>5. channel' \in Seq(Msg) /\ LogsOf(channel') = LogsOf(channel) \cup {m}
  BY <1>1, <1>3, LogsOfAppend
<1>6. /\ Waiting = LogsOf(channel) /\ Waiting' = Waiting \cup {m} /\ Received' = Received
      /\ LogsOf(initial) = {}
  BY <1>1, <1>4, <1>5, LogsOfEmpty DEF Waiting, Received
<1>7. Waiting \cup Received \subseteq LogMsg
  BY <1>1, Flows
<1>8. /\ read' \in [Container -> Nat] /\ seq' \in [Container -> Nat]
      /\ read'[c] = k /\ seq'[c] = seq[c] + 1
      /\ \A d \in Container : d # c => read'[d] = read[d] /\ seq'[d] = seq[d]
      /\ \A d \in Container : read[d] <= read'[d]
  BY <1>1, <1>2
<1>9. \A x \in Waiting : ~SameLine(x, m)
  <2> SUFFICES ASSUME NEW x \in Waiting, SameLine(x, m) PROVE FALSE
    OBVIOUS
  <2>1. x.line.container = c /\ x.line.n = k
    BY <1>3 DEF SameLine
  <2>2. x.line.n <= read[c]
    BY <1>1, <2>1 DEF Genuine
  <2> QED
    BY <1>2, <2>1, <2>2
<1>10. LogTailTypeOK'
  BY <1>1, <1>5, <1>8 DEF LogTailTypeOK
<1>11. Phases'
  BY <1>1, <1>4 DEF Phases
<1>12. Genuine'
  <2>1. \A x \in Waiting : x.line.n <= read'[x.line.container]
    <3> SUFFICES ASSUME NEW x \in Waiting PROVE x.line.n <= read'[x.line.container]
      OBVIOUS
    <3>1. x.line.container \in Container /\ x.line.n \in Nat
      BY <1>7, Messages
    <3>2. x.line.n <= read[x.line.container]
      BY <1>1 DEF Genuine
    <3>3. /\ read[x.line.container] \in Nat /\ read'[x.line.container] \in Nat
          /\ read[x.line.container] <= read'[x.line.container]
      BY <1>1, <1>8, <3>1
    <3> QED
      BY <3>1, <3>2, <3>3
  <2>2. \A d \in Container : read'[d] <= Len(written[d])
    BY <1>1, <1>2, <1>8 DEF Genuine
  <2>3. /\ m.line.n <= Len(written[m.line.container])
        /\ m.line.time = written[m.line.container][m.line.n]
        /\ m.line.n <= read'[m.line.container]
    BY <1>2, <1>3, <1>8
  <2> QED
    BY <1>1, <1>6, <2>1, <2>2, <2>3 DEF Genuine
<1>13. UnderWayOnce'
  <2>1. Alone(Append(channel, m))
    BY <1>1, <1>3, <1>6, <1>9, AloneKept DEF UnderWayOnce
  <2> QED
    BY <1>1, <1>6, <2>1 DEF UnderWayOnce, Alone, SameLine
<1>14. ShownOnce'
  <2>1. ASSUME NEW d \in Container, NEW n \in Nat, Due(d, n)' PROVE Due(d, n)
    <3>1. n > read'[d] => n > read[d]
      BY <1>1, <1>8
    <3>2. m.line.container = d /\ m.line.n = n => n > read[d]
      BY <1>2, <1>3
    <3> QED
      BY <1>1, <1>6, <2>1, <3>1, <3>2 DEF Due
  <2> QED
    BY <1>1, <2>1, NoMoreDue
<1>15. KeysDiffer'
  <2> SUFFICES ASSUME connections = 1
               PROVE  /\ \A x, y \in Waiting' \cup Received' :
                           EntryKey(x) = EntryKey(y) => SameLine(x, y)
                      /\ \A d \in Container : follow[d] = "open" =>
                           \A x \in Waiting' \cup Received' :
                             x.line.container = d => Numbered(x, d)'
    BY <1>1 DEF KeysDiffer, EntryKey, SameLine
  <2>1. /\ \A x, y \in Waiting \cup Received : EntryKey(x) = EntryKey(y) => SameLine(x, y)
        /\ \A d \in Container : follow[d] = "open" =>
             \A x \in Waiting \cup Received : x.line.container = d => Numbered(x, d)
    BY <1>1 DEF KeysDiffer
  <2>2. ASSUME NEW x \in Waiting \cup Received PROVE EntryKey(x) # EntryKey(m)
    <3> SUFFICES ASSUME EntryKey(x) = EntryKey(m) PROVE FALSE
      OBVIOUS
    <3>1. x.line.time = written[c][k] /\ x.line.container = c /\ x.seq = seq[c]
      BY <1>3 DEF EntryKey
    <3>2. Numbered(x, c)
      BY <1>1, <2>1, <3>1
    <3>3. x.seq \in Nat /\ x.line.time \in Nat
      BY <1>7, Messages
    <3>4. k \in read[c] + 1..Len(written[c])
      BY <1>1, <1>2
    <3>5. x.line.time < written[c][k]
      BY <1>2, <3>1, <3>2, <3>3, <3>4 DEF Numbered
    <3> QED
      BY <3>1, <3>3, <3>5
  <2>3. SameLine(m, m)
    BY DEF SameLine
  <2>4. \A x, y \in Waiting' \cup Received' : EntryKey(x) = EntryKey(y) => SameLine(x, y)
    BY <1>6, <2>1, <2>2, <2>3
  <2>5. ASSUME NEW d \in Container, NEW x \in Waiting \cup Received, Numbered(x, d)
        PROVE  Numbered(x, d)'
    <3>1. x.seq \in Nat /\ seq[d] \in Nat /\ read[d] \in Nat /\ read'[d] \in Nat
          /\ Len(written[d]) \in Nat /\ read[d] <= read'[d]
      BY <1>1, <1>7, <1>8, Messages
    <3>2. \A n \in read'[d] + 1..Len(written[d]) : n \in read[d] + 1..Len(written[d])
      BY <3>1
    <3>3. x.seq < seq[d] => x.seq < seq'[d]
      <4>1. seq'[d] = seq[d] \/ seq'[d] = seq[d] + 1
        BY <1>8
      <4> QED
        BY <3>1, <4>1
    <3> QED
      BY <1>1, <2>5, <3>2, <3>3 DEF Numbered
  <2>6. Numbered(m, c)'
    BY <1>2, <1>3, <1>8 DEF Numbered
  <2>7. ASSUME NEW d \in Container, follow[d] = "open", NEW x \in Waiting' \cup Received',
               x.line.container = d
        PROVE  Numbered(x, d)'
    BY <1>3, <1>6, <2>1, <2>5, <2>6, <2>7
  <2> QED
    BY <2>4, <2>7
<1>16. AllAccounted'
  <2>1. \A d, n : Shown(d, n)' = Shown(d, n)
    BY <1>1 DEF Shown
  <2>2. \A d, n : Accounted(d, n) => Accounted(d, n)'
    BY <1>1, <1>6, <2>1 DEF Accounted
  <2>3. Accounted(c, k)'
    BY <1>3, <1>6 DEF Accounted
  <2>4. ASSUME NEW n \in oldest[c] + 1..k PROVE n \in oldest[c] + 1..read[c] \/ n = k
    BY <1>1, <1>2
  <2> QED
    BY <1>1, <1>8, <2>2, <2>3, <2>4 DEF AllAccounted
<1>17. ErrorClears'
  BY <1>1, <1>3, ClearingKept DEF LogTailInv, ErrorClears
<1> QED
  BY <1>10, <1>11, <1>12, <1>13, <1>14, <1>15, <1>16, <1>17 DEF LogTailInv

-----------------------------------------------------------------------------
(* What the tab receives.                                                  *)

\* An entry has a place, and keeps one when another is added.
LEMMA PlacesThere ==
  ASSUME NEW s \in Seq(LogMsg), NEW e \in LogMsg
  PROVE  /\ \A y \in LogsOf(s) : Places(s, y.line.container, y.line.n) # {}
         /\ Places(Append(s, e), e.line.container, e.line.n) # {}
         /\ \A c, n : Places(s, c, n) # {} => Places(Append(s, e), c, n) # {}
<1>1. ASSUME NEW y \in LogsOf(s) PROVE Places(s, y.line.container, y.line.n) # {}
  <2>1. PICK i \in 1..Len(s) : y = s[i]
    BY DEF LogsOf
  <2>2. i \in DOMAIN s
    BY <2>1
  <2> QED
    BY <2>1, <2>2 DEF Places
<1> DEFINE t == Append(s, e)
<1>2. /\ DOMAIN s = 1..Len(s) /\ DOMAIN t = 1..Len(s) \cup {Len(s) + 1}
      /\ t[Len(s) + 1] = e /\ \A i \in 1..Len(s) : t[i] = s[i]
  OBVIOUS
<1> HIDE DEF t
<1>3. Places(t, e.line.container, e.line.n) # {}
  BY <1>2 DEF Places
<1>4. \A c, n : Places(s, c, n) # {} => Places(t, c, n) # {}
  BY <1>2 DEF Places
<1> QED
  BY <1>1, <1>3, <1>4 DEF t

\* What a message makes of the tab: only a blank line leaves the error of an
\* interruption.
LEMMA TabReceives ==
  ASSUME LogTailInv, Receive, NEW m, m = Head(channel)
  PROVE  /\ channel # <<>> /\ m \in Msg
         /\ tab' \in TabState /\ tab'.conn = tab.conn
         /\ tab'.error # Reconnecting \/ (Ignored(m) /\ tab'.error = tab.error)
         /\ m.type = "LOG" => m \in LogMsg
         /\ m.type = "LOG" /\ ~Ignored(m) => tab'.entries = AddEntry(tab.entries, m)
         /\ m.type # "LOG" \/ Ignored(m) => tab'.entries = tab.entries
<1>1. /\ channel \in Seq(Msg) /\ channel # <<>> /\ tab \in TabState
      /\ tab.entries \in Seq(LogMsg) /\ tab.error \in {"", Reconnecting, "server"}
  BY DEF Receive, LogTailInv, LogTailTypeOK, TabState
<1>2. m \in Msg
  BY <1>1, LogsOfTail
<1>3. m.type \in {"LOG", "INFO", "ERROR"} /\ (m.type = "LOG" => m \in LogMsg)
  BY <1>2, Messages
<1> DEFINE error == Recovered(tab.error, m)
           entries == AddEntry(tab.entries, m)
<1>4. error \in {"", Reconnecting, "server"} /\ error # Reconnecting
  BY <1>1 DEF Recovered, Reconnecting
<1>8. CASE Ignored(m)
  <2>1. tab' = tab
    BY <1>8 DEF Receive, Ignored
  <2> QED
    BY <1>1, <1>2, <1>3, <1>8, <2>1
<1>5. CASE m.type = "LOG" /\ ~Ignored(m)
  <2>1. tab' = [tab EXCEPT !.loading = FALSE, !.error = error, !.entries = entries]
    BY <1>5 DEF Receive
  <2>2. entries \in Seq(LogMsg)
    BY <1>1, <1>3, <1>5, Adds
  <2> HIDE DEF error, entries
  <2>3. tab' \in TabState /\ tab'.conn = tab.conn /\ tab'.error = error /\ tab'.entries = entries
    BY <1>1, <1>4, <2>1, <2>2 DEF TabState
  <2>4. tab'.entries = AddEntry(tab.entries, m) /\ ~Ignored(m)
    BY <1>5, <2>3 DEF entries
  <2> QED
    BY <1>1, <1>2, <1>3, <1>4, <1>5, <2>3, <2>4
<1>9. m.type # "LOG" => ~Ignored(m)
  BY DEF Ignored
<1>6. CASE m.type = "INFO"
  <2>1. tab' = [tab EXCEPT !.error = error]
    BY <1>6 DEF Receive, Ignored
  <2> HIDE DEF error
  <2>2. tab' \in TabState /\ tab'.conn = tab.conn /\ tab'.error = error
        /\ tab'.entries = tab.entries
    BY <1>1, <1>4, <2>1 DEF TabState
  <2> QED
    BY <1>1, <1>2, <1>4, <1>6, <1>9, <2>2
<1>7. CASE m.type = "ERROR"
  <2>1. tab' = [tab EXCEPT !.loading = FALSE, !.error = "server"]
    BY <1>7 DEF Receive, Ignored
  <2>2. tab' \in TabState /\ tab'.conn = tab.conn /\ tab'.error = "server"
        /\ tab'.entries = tab.entries
    BY <1>1, <2>1 DEF TabState
  <2> QED
    BY <1>1, <1>2, <1>7, <1>9, <2>2 DEF Reconnecting
<1> QED
  BY <1>3, <1>5, <1>6, <1>7, <1>8

\* A line that the tab receives is not under way any more: it is shown, or a line of the
\* same key is.
LEMMA ReceiveKeeps ==
  ASSUME LogTailInv, Receive
  PROVE  LogTailInv'
<1> PICK m : m = Head(channel)
  OBVIOUS
<1>1. /\ LogTailTypeOK /\ Phases /\ Genuine /\ UnderWayOnce /\ ShownOnce /\ KeysDiffer
      /\ AllAccounted /\ channel' = Tail(channel)
      /\ UNCHANGED <<written, time, blank, phase, toRead, initial, read, follow, seq, oldest,
                     skipped,
                     connections>>
      /\ channel \in Seq(Msg) /\ tab.entries \in Seq(LogMsg) /\ connections \in Nat
      /\ read \in [Container -> Nat] /\ written \in [Container -> Seq(Nat)]
  BY DEF Receive, clusterVars, historyVars, LogTailInv, LogTailTypeOK, TabState
<1>2. /\ channel # <<>> /\ m \in Msg
      /\ tab' \in TabState /\ tab'.conn = tab.conn
      /\ tab'.error # Reconnecting \/ (Ignored(m) /\ tab'.error = tab.error)
      /\ m.type = "LOG" => m \in LogMsg
      /\ m.type = "LOG" /\ ~Ignored(m) => tab'.entries = AddEntry(tab.entries, m)
      /\ m.type # "LOG" \/ Ignored(m) => tab'.entries = tab.entries
  BY TabReceives
<1>3. phase \notin {"none", "get"} /\ connections > 0
  BY <1>1, <1>2 DEF Phases
<1>4. /\ channel' \in Seq(Msg) /\ LogsOf(channel') \subseteq LogsOf(channel)
      /\ \A x \in LogsOf(channel) : x = m \/ x \in LogsOf(channel')
      /\ m.type = "LOG" => m \in LogsOf(channel)
  BY <1>1, <1>2, LogsOfTail
<1>5. /\ Alone(channel')
      /\ m.type = "LOG" => \A x \in LogsOf(channel') : ~SameLine(x, m)
  <2>1. /\ Alone(Tail(channel))
        /\ m.type = "LOG" => \A x \in LogsOf(Tail(channel)) : ~SameLine(x, m)
    BY <1>1, <1>2, AloneKept DEF UnderWayOnce
  <2> QED
    BY <1>1, <2>1 DEF Alone, SameLine
<1>6. /\ Waiting' \subseteq Waiting /\ \A x \in Waiting : x = m \/ x \in Waiting'
      /\ m.type = "LOG" => m \in Waiting
  BY <1>1, <1>4 DEF Waiting
<1>7. Received' \subseteq Waiting \cup Received
  <2>1. CASE m.type = "LOG" /\ ~Ignored(m)
    <3> DEFINE s == AddEntry(tab.entries, m)
    <3>1. LogsOf(s) \subseteq LogsOf(tab.entries) \cup {m}
      BY <1>1, <1>2, <2>1, Adds
    <3> HIDE DEF s
    <3>2. tab'.entries = s
      BY <1>2, <2>1 DEF s
    <3> QED
      BY <1>6, <2>1, <3>1, <3>2 DEF Received
  <2>2. CASE m.type # "LOG" \/ Ignored(m)
    BY <1>2, <2>2 DEF Received
  <2> QED
    BY <2>1, <2>2
<1>8. Waiting \cup Received \subseteq LogMsg
  BY <1>1, Flows
<1>9. LogTailTypeOK'
  BY <1>1, <1>2, <1>4 DEF LogTailTypeOK
<1>10. Phases'
  <2>1. phase = "read" => LogsOf(channel') = {} /\ tab'.entries = tab.entries
    BY <1>1, <1>2, <1>4 DEF Phases
  <2> QED
    BY <1>1, <1>2, <1>3, <2>1 DEF Phases
<1>11. Genuine'
  BY <1>1, <1>6, <1>7 DEF Genuine
<1>12. UnderWayOnce'
  <2>1. \A x \in LogsOf(channel'), y \in LogsOf(initial) : ~SameLine(x, y)
    BY <1>1, <1>4 DEF UnderWayOnce
  <2> QED
    BY <1>1, <1>5, <2>1 DEF UnderWayOnce, Alone, SameLine
<1>13. ShownOnce'
  <2>1. ASSUME NEW c \in Container, NEW n \in Nat
        PROVE  Cardinality(Shown(c, n)') + (IF Due(c, n)' THEN 1 ELSE 0) <= connections'
    <3>1. /\ Shown(c, n) = Places(tab.entries, c, n)
          /\ Shown(c, n)' = Places(tab'.entries, c, n)
      BY DEF Shown, Places
    <3>2. tab'.entries \in Seq(LogMsg)
      BY <1>2 DEF TabState
    <3>3. Cardinality(Shown(c, n)) \in Nat /\ Cardinality(Shown(c, n)') \in Nat
      BY <1>1, <3>1, <3>2, PlacesFinite
    <3>4. Cardinality(Shown(c, n)) + (IF Due(c, n) THEN 1 ELSE 0) <= connections
      BY <1>1 DEF ShownOnce
    <3>5. CASE m.type = "LOG" /\ m.line.container = c /\ m.line.n = n
      <4>1. Due(c, n)
        BY <1>3, <1>6, <3>5 DEF Due
      <4>2. ~Due(c, n)'
        <5>1. n <= read[c] /\ read[c] \in Nat
          BY <1>1, <1>6, <3>5 DEF Genuine
        <5>2. ASSUME NEW x \in Waiting', x.line.container = c, x.line.n = n PROVE FALSE
          <6>1. SameLine(x, m) /\ SameLine(m, x)
            BY <3>5, <5>2 DEF SameLine
          <6>2. x \in LogsOf(channel') \/ x \in LogsOf(initial)
            BY <1>1, <5>2 DEF Waiting
          <6> QED
            BY <1>1, <1>4, <1>5, <3>5, <6>1, <6>2 DEF UnderWayOnce
        <5>3. ~(n > read'[c])
          BY <1>1, <5>1
        <5> QED
          BY <5>2, <5>3 DEF Due
      <4>3. Cardinality(Shown(c, n)') <= Cardinality(Shown(c, n)) + 1
        <5>1. Cardinality(Places(AddEntry(tab.entries, m), c, n))
                <= Cardinality(Places(tab.entries, c, n))
                     + (IF m.line.container = c /\ m.line.n = n THEN 1 ELSE 0)
          BY <1>1, <1>2, <3>5, Adds
        <5> QED
          BY <1>2, <3>1, <3>3, <3>5, <5>1
      <4> QED
        BY <1>1, <3>3, <3>4, <4>1, <4>2, <4>3
    <3>6. CASE ~(m.type = "LOG" /\ m.line.container = c /\ m.line.n = n)
      <4>1. Due(c, n)' => Due(c, n)
        BY <1>1, <1>6 DEF Due
      <4>2. Cardinality(Shown(c, n)') <= Cardinality(Shown(c, n))
        <5>1. CASE m.type = "LOG" /\ ~Ignored(m)
          <6>1. Cardinality(Places(AddEntry(tab.entries, m), c, n))
                  <= Cardinality(Places(tab.entries, c, n))
                       + (IF m.line.container = c /\ m.line.n = n THEN 1 ELSE 0)
            BY <1>1, <1>2, <5>1, Adds
          <6> QED
            BY <1>2, <3>1, <3>3, <3>6, <5>1, <6>1
        <5>2. CASE m.type # "LOG" \/ Ignored(m)
          BY <1>2, <3>1, <3>3, <5>2
        <5> QED
          BY <5>1, <5>2
      <4> QED
        BY <1>1, <3>3, <3>4, <4>1, <4>2
    <3> QED
      BY <3>5, <3>6
  <2> QED
    BY <2>1 DEF ShownOnce
<1>14. KeysDiffer'
  <2>1. \A x, c : Numbered(x, c)' <=> Numbered(x, c)
    BY <1>1 DEF Numbered
  <2>2. Waiting' \cup Received' \subseteq Waiting \cup Received
    BY <1>6, <1>7
  <2> QED
    BY <1>1, <2>1, <2>2 DEF KeysDiffer, EntryKey, SameLine
<1>15. AllAccounted'
  <2> SUFFICES ASSUME Len(tab'.entries) < MaxEntries
               PROVE  \A c \in Container : \A n \in oldest[c] + 1..read[c] : Accounted(c, n)'
    BY <1>1 DEF AllAccounted
  <2>1. /\ Len(tab.entries) < MaxEntries
        /\ m.type = "LOG" => \/ tab'.entries = Append(tab.entries, m)
                             \/ Ignored(m) /\ tab'.entries = tab.entries
                             \/ /\ tab'.entries = tab.entries
                                /\ \E x \in Received : EntryKey(x) = EntryKey(m)
    <3>1. CASE m.type = "LOG" /\ ~Ignored(m)
      <4> DEFINE s == AddEntry(tab.entries, m)
      <4>1. Len(s) < MaxEntries => /\ Len(tab.entries) < MaxEntries
                                   /\ \/ s = Append(tab.entries, m)
                                      \/ /\ s = tab.entries
                                         /\ \E x \in LogsOf(tab.entries) : EntryKey(x) = EntryKey(m)
        <5>1. tab.entries \in Seq(LogMsg) /\ m \in LogMsg
          BY <1>1, <1>2, <3>1
        <5>2. Len(s) < MaxEntries => /\ Len(tab.entries) < MaxEntries
                                     /\ s = tab.entries \/ s = Append(tab.entries, m)
          BY <5>1, Adds
        <5>3. \/ s = Append(tab.entries, m) \/ ~(Len(s) < MaxEntries)
              \/ \E x \in LogsOf(tab.entries) : EntryKey(x) = EntryKey(m)
          BY <5>1, AddsOrHas
        <5> HIDE DEF s
        <5> QED
          BY <5>2, <5>3
      <4> HIDE DEF s
      <4>2. tab'.entries = s
        BY <1>2, <3>1 DEF s
      <4> QED
        BY <4>1, <4>2 DEF Received
    <3>2. CASE m.type # "LOG" \/ Ignored(m)
      BY <1>2, <3>2
    <3> QED
      BY <3>1, <3>2
  <2>2. \A c, n : /\ Shown(c, n) = Places(tab.entries, c, n)
                  /\ Shown(c, n)' = Places(tab'.entries, c, n)
    BY DEF Shown, Places
  <2>3. \A c, n : Shown(c, n) # {} => Shown(c, n)' # {}
    <3>1. CASE tab'.entries = tab.entries
      BY <2>2, <3>1
    <3>2. CASE m.type = "LOG" /\ tab'.entries = Append(tab.entries, m)
      BY <1>1, <1>2, <2>2, <3>2, PlacesThere
    <3> QED
      BY <1>2, <2>1, <3>1, <3>2
  <2>4. ASSUME NEW c \in Container, NEW n, m.type = "LOG", m.line.container = c, m.line.n = n
        PROVE  Accounted(c, n)'
    <3>1. CASE tab'.entries = Append(tab.entries, m)
      <4>1. Shown(c, n)' # {}
        BY <1>1, <1>2, <2>2, <2>4, <3>1, PlacesThere
      <4> QED
        BY <4>1 DEF Accounted
    <3>2. ASSUME tab'.entries = tab.entries, NEW x \in Received, EntryKey(x) = EntryKey(m)
          PROVE  Accounted(c, n)'
      <4>1. x.line.container = c /\ x.line.time = m.line.time
        BY <2>4, <3>2 DEF EntryKey
      <4>2. Shown(c, x.line.n)' # {}
        BY <1>1, <1>2, <2>2, <2>4, <3>2, <4>1, PlacesThere DEF Received
      <4>3. CASE connections = 1
        <5>1. SameLine(x, m)
          BY <1>1, <1>6, <2>4, <3>2, <4>3 DEF KeysDiffer
        <5>2. x.line.n = n
          BY <2>4, <5>1 DEF SameLine
        <5> QED
          BY <4>2, <5>2 DEF Accounted
      <4>4. CASE connections > 1
        <5>1. x.line.n \in Nat \ {0} /\ x.line.n <= Len(written[c])
              /\ x.line.time = written[c][x.line.n] /\ m.line.time = written[c][n]
          <6>1. x \in LogMsg /\ m \in Waiting
            BY <1>6, <1>8, <2>4, <3>2
          <6>2. /\ x.line.n <= Len(written[x.line.container])
                /\ x.line.time = written[x.line.container][x.line.n]
                /\ m.line.time = written[m.line.container][m.line.n]
            BY <1>1, <3>2, <6>1 DEF Genuine
          <6> QED
            BY <2>4, <4>1, <6>1, <6>2, Messages
        <5>2. x.line.n \in 1..Len(written[c]) /\ written[c][x.line.n] = written[c][n]
          BY <1>1, <4>1, <5>1
        <5> QED
          BY <1>1, <4>2, <4>4, <5>2 DEF Accounted
      <4> QED
        BY <1>1, <1>3, <4>3, <4>4
    <3>3. CASE Ignored(m)
      <4>1. <<c, n>> \in blank
        BY <2>4, <3>3 DEF Ignored, HasText
      <4> QED
        BY <1>1, <4>1 DEF Accounted
    <3> QED
      BY <2>1, <2>4, <3>1, <3>2, <3>3
  <2>5. ASSUME NEW c \in Container, NEW n \in oldest[c] + 1..read[c], Accounted(c, n)
        PROVE  Accounted(c, n)'
    <3>1. ASSUME NEW x \in Waiting, x.line.container = c, x.line.n = n
          PROVE  Accounted(c, n)'
      <4>1. CASE x \in Waiting'
        BY <3>1, <4>1 DEF Accounted
      <4>2. CASE x = m
        <5>1. m.type = "LOG"
          BY <1>8, <3>1, <4>2, Messages
        <5> QED
          BY <2>4, <3>1, <4>2, <5>1
      <4> QED
        BY <1>6, <3>1, <4>1, <4>2
    <3> QED
      BY <1>1, <2>3, <2>5, <3>1 DEF Accounted
  <2> QED
    BY <1>1, <2>1, <2>5 DEF AllAccounted
<1>16. ErrorClears'
  <2>1. Ignored(m) => m.type = "LOG"
    BY DEF Ignored
  <2> QED
    BY <1>1, <1>2, <2>1, ClearingKept DEF LogTailInv, ErrorClears
<1> QED
  BY <1>9, <1>10, <1>11, <1>12, <1>13, <1>14, <1>15, <1>16 DEF LogTailInv

-----------------------------------------------------------------------------
(* The theorems.                                                           *)

\* Every step keeps the invariant.
LEMMA LogTailInductive ==
  ASSUME LogTailInv, [Next]_vars
  PROVE  LogTailInv'
<1>1. ASSUME NEW c \in Container, Writes(c) PROVE LogTailInv'
  BY <1>1, WritesKeeps
<1>2. ASSUME NEW c \in Container, FollowStep(c) PROVE LogTailInv'
  <2>1. CASE FollowOpens(c)
    BY <2>1, FollowOpensKeeps
  <2>2. CASE FollowSends(c)
    BY <2>2, FollowSendsKeeps
  <2>3. CASE FollowFails(c) \/ FollowBreaks(c) \/ Wakes(c)
    BY <2>3, FollowEndsKeeps
  <2> QED
    BY <1>2, <2>1, <2>2, <2>3 DEF FollowStep
<1>3. CASE GetPod
  BY <1>3, GetPodKeeps
<1>4. CASE ReadContainer
  BY <1>4, ReadContainerKeeps
<1>5. CASE SendInitial
  BY <1>5, SendInitialKeeps
<1>6. CASE StartFollowing
  BY <1>6, StartFollowingKeeps
<1>7. CASE AllEnded
  BY <1>7, AllEndedKeeps
<1>8. CASE OpenTab \/ OptionsChange
  <2>1. EffectRuns(TRUE)
    BY <1>8 DEF OpenTab, OptionsChange
  <2> QED
    BY <2>1, EffectKeeps
<1>9. CASE CloseTab
  <2>1. EffectRuns(FALSE)
    BY <1>9 DEF CloseTab
  <2> QED
    BY <2>1, EffectKeeps
<1>10. CASE Connects
  BY <1>10, ConnectsKeeps
<1>11. CASE Interrupted
  BY <1>11, InterruptedKeeps
<1>12. CASE Receive
  BY <1>12, ReceiveKeeps
<1>13. CASE UNCHANGED vars
  <2>1. UNCHANGED <<clusterVars, initial, read, seq, tab, historyVars>>
    BY <1>13 DEF vars, serverVars
  <2>2. /\ UNCHANGED <<written, time, blank, phase, toRead, initial, read, follow, seq, channel,
                       tab,
                       oldest, skipped, connections>>
    BY <1>13 DEF vars, clusterVars, serverVars, historyVars
  <2>3. LogTailTypeOK' /\ Phases' /\ UnderWayOnce' /\ ErrorClears'
    BY <2>2 DEF LogTailInv, LogTailTypeOK, Phases, UnderWayOnce, Alone, SameLine, ErrorClears
  <2>4. Waiting' = Waiting /\ Received' = Received /\ \A c, n : Shown(c, n)' = Shown(c, n)
    BY <2>2 DEF Waiting, Received, Shown
  <2>5. Genuine'
    BY <2>2, <2>4 DEF LogTailInv, Genuine
  <2>6. ShownOnce'
    <3>1. \A c, n : Due(c, n)' <=> Due(c, n)
      BY <2>2, <2>4 DEF Due
    <3> QED
      BY <2>2, <2>4, <3>1 DEF LogTailInv, ShownOnce
  <2>7. KeysDiffer'
    <3>1. \A x, c : Numbered(x, c)' <=> Numbered(x, c)
      BY <2>2 DEF Numbered
    <3> QED
      BY <2>2, <2>4, <3>1 DEF LogTailInv, KeysDiffer, EntryKey, SameLine
  <2>8. AllAccounted'
    <3>1. \A c, n : Accounted(c, n)' <=> Accounted(c, n)
      BY <2>2, <2>4 DEF Accounted
    <3> QED
      BY <2>2, <3>1 DEF LogTailInv, AllAccounted
  <2> QED
    BY <2>3, <2>5, <2>6, <2>7, <2>8 DEF LogTailInv
<1> QED
  BY <1>1, <1>2, <1>3, <1>4, <1>5, <1>6, <1>7, <1>8, <1>9, <1>10, <1>11, <1>12, <1>13 DEF Next

\* The inductive invariant: types, how far the subscription is (Phases), messages carry
\* lines of the logs up to where it has read (Genuine), each once (UnderWayOnce, ShownOnce),
\* with keys of their own in the first connection (KeysDiffer), and a line that was passed
\* is under way, shown or skipped (AllAccounted) (logmgr.go:231-390).
THEOREM LogTailInvariant == Spec => []LogTailInv
<1>1. LogTailInit => LogTailInv
  BY InitInv
<1>2. LogTailInv /\ [Next]_vars => LogTailInv'
  BY LogTailInductive
<1> QED
  BY <1>1, <1>2, PTL DEF Spec

\* However many lines the containers write and however their requests fail, the tab shows
\* no line more often than it has connected so far, and once in its first connection: what
\* a follow request sends was not read before (logmgr.go:297-390, resourceUtils.ts:25).
THEOREM NoLineTwice == Spec => []OncePerConnection
<1>1. LogTailInv => OncePerConnection
  <2> SUFFICES ASSUME LogTailInv, NEW c \in Container, NEW n \in DOMAIN written[c]
               PROVE  Cardinality(Shown(c, n)) <= connections
    BY DEF OncePerConnection
  <2>1. n \in Nat /\ connections \in Nat /\ tab.entries \in Seq(LogMsg)
    <3>1. LogTailTypeOK /\ written[c] \in Seq(Nat) /\ connections \in Nat
      BY DEF LogTailInv, LogTailTypeOK
    <3> QED
      BY <3>1, Flows
  <2>2. Shown(c, n) = Places(tab.entries, c, n)
    BY DEF Shown, Places
  <2>3. Cardinality(Shown(c, n)) \in Nat
    BY <2>1, <2>2, PlacesFinite
  <2>4. Cardinality(Shown(c, n)) + (IF Due(c, n) THEN 1 ELSE 0) <= connections
    BY <2>1 DEF LogTailInv, ShownOnce
  <2> QED
    BY <2>1, <2>3, <2>4
<1> QED
  BY <1>1, LogTailInvariant, PTL

\* With nothing under way, a line of a container that is followed is in the tab, is blank, or
\* is in the gap between two requests: no line is lost because it looks like another, but for
\* one that an earlier connection numbered (useResourceLogs.ts:86-100).
THEOREM OnlyGapsMissing == Spec => []OnlyGapsAreMissing
<1>1. LogTailInv => OnlyGapsAreMissing
  <2> SUFFICES ASSUME LogTailInv, NEW c \in Followed, follow[c] = "open", channel = <<>>,
                      Len(tab.entries) < MaxEntries, NEW n \in oldest[c] + 1..read[c]
               PROVE  \/ <<c, n>> \in skipped \/ <<c, n>> \in blank
                      \/ Shown(c, n) # {}
                      \/ /\ connections > 1
                         /\ \E m \in DOMAIN written[c] :
                              Shown(c, m) # {} /\ written[c][m] = written[c][n]
    BY DEF OnlyGapsAreMissing
  <2>1. c \in Container
    BY LogTailAssumption
  <2>2. phase = "follow"
    BY <2>1 DEF LogTailInv, Phases
  <2>3. initial = <<>>
    BY <2>2 DEF LogTailInv, Phases
  <2>4. Waiting = {}
    BY <2>3, LogsOfEmpty DEF Waiting
  <2>5. Accounted(c, n)
    BY <2>1 DEF LogTailInv, AllAccounted
  <2>6. DOMAIN written[c] = 1..Len(written[c])
    BY <2>1 DEF LogTailInv, LogTailTypeOK
  <2> QED
    BY <2>4, <2>5, <2>6 DEF Accounted
<1> QED
  BY <1>1, LogTailInvariant, PTL

\* Once the server follows the pod and nothing is under way, the tab does not say any more
\* that it waits to be connected again: the note with which following starts has cleared
\* that error, also for a pod that writes nothing (useResourceLogs.ts:88, 104, 117).
THEOREM ReconnectErrorGone == Spec => []ReconnectErrorClears
<1>1. LogTailInv => ReconnectErrorClears
  BY DEF LogTailInv, ErrorClears, ReconnectErrorClears, Clearing
<1> QED
  BY <1>1, LogTailInvariant, PTL

================================================================================
