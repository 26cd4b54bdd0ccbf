------------------------------- MODULE LogTail -------------------------------
(***************************************************************************)
(* The logs of one pod, from its containers to the Logs tab: streamPod     *)
(* (logmgr.go) reads the last lines of every container and then follows    *)
(* each of them with a goroutine; the tab (useResourceLogs.ts) adds the    *)
(* lines it does not have. LogStreams models a deployment's pods, each     *)
(* with such a stream.                                                     *)
(*                                                                         *)
(* A follow request asks for no old lines (TailLines is 0): it gets what   *)
(* is written after it was opened, and its SinceTime selects nothing. What *)
(* is written between two requests for a container is never sent: "skipped"*)
(* records it.                                                             *)
(*                                                                         *)
(* All lines have the same text, but for the blank ones, which have none:  *)
(* they are sent without the field for it (omitempty), and the tab ignores *)
(* such a message. Several lines may have the same time, but not lines     *)
(* before and after a request was opened, which takes longer than the      *)
(* resolution of the timestamps (1 ns): the time changes then.             *)
(*                                                                         *)
(* Operators whose name begins with Bug are mutated forms of the operator  *)
(* that follows them: each shows that some property detects the fault.     *)
(***************************************************************************)
EXTENDS Naturals, Sequences, FiniteSets

CONSTANTS Containers,  \* podContainerNames: init, regular, ephemeral
          Followed,    \* podFollowContainerNames: all but the init containers
          TailLines,   \* lines read first of each container (200)
          MaxEntries,  \* lines that the tab keeps (10000)
          Cap,         \* capacity of the subscription's channel (512)
          MaxLines,    \* MaxLines[c]: bound on the lines that c writes
          MaxConnections  \* bound on the connections of one tab

Container == {Containers[i] : i \in DOMAIN Containers}

\* Kubernetes does not accept two containers of a name in a pod.
ASSUME LogTailAssumption ==
  /\ Containers \in Seq(Container)
  /\ \A i, j \in DOMAIN Containers : Containers[i] = Containers[j] => i = j
  /\ Followed \subseteq Container
  /\ TailLines \in Nat /\ MaxEntries \in Nat \ {0} /\ Cap \in Nat \ {0}

VARIABLES written,  \* written[c]: the times of the lines in c's log
          blank,    \* the lines (container and place) that have no text
          time,
          phase,    \* where streamPodLogs is
          toRead,   \* the containers it has still to read
          initial,  \* the lines it has read and not sent
          read,     \* read[c]: lines of c's log that this subscription passed
          follow,   \* follow[c]: where followContainerLogs is
          seq,      \* seq[c]: the next number in the open stream
          channel,  \* messages between streamPodLogs and the tab
          tab,      \* [conn, entries, loading, error] of useResourceLogs
          oldest,   \* oldest[c]: lines of c before the first that was read
          skipped,  \* lines that no request will send (history)
          connections  \* since the tab's effect ran (history)

clusterVars == <<written, time, blank>>
serverVars == <<phase, toRead, initial, read, follow, seq, channel>>
historyVars == <<oldest, skipped, connections>>
vars == <<clusterVars, serverVars, tab, historyVars>>

-----------------------------------------------------------------------------
Reconnecting == "reconnecting"  \* LOG_RECONNECT_ERROR

\* n is the line's place in its container's log; the tab does not know it.
Line(c, n) == [container |-> c, n |-> n, time |-> written[c][n]]
HasText(line) == <<line.container, line.n>> \notin blank
Log(line, number) == [type |-> "LOG", line |-> line, seq |-> number]
Info == [type |-> "INFO"]
Failure == [type |-> "ERROR"]

NoTab == [conn |-> "closed", entries |-> <<>>, loading |-> FALSE, error |-> ""]

Idle == /\ phase' = "none" /\ toRead' = <<>> /\ initial' = <<>> /\ channel' = <<>>
        /\ read' = [c \in Container |-> 0]
        /\ follow' = [c \in Container |-> "none"]
        /\ seq' = [c \in Container |-> 0]

LogTailInit ==
  /\ written = [c \in Container |-> <<>>]
  /\ time = 0 /\ blank = {}
  /\ phase = "none" /\ toRead = <<>> /\ initial = <<>> /\ channel = <<>>
  /\ read = [c \in Container |-> 0]
  /\ follow = [c \in Container |-> "none"]
  /\ seq = [c \in Container |-> 0]
  /\ tab = NoTab
  /\ oldest = [c \in Container |-> 0]
  /\ skipped = {} /\ connections = 0

\* A container writes a line, which may be blank.
Writes(c) ==
  /\ Len(written[c]) < MaxLines[c]
  /\ written' = [written EXCEPT ![c] = Append(@, time)]
  /\ blank' \in {blank, blank \cup {<<c, Len(written[c]) + 1>>}}
  /\ UNCHANGED <<time, serverVars, tab, historyVars>>

-----------------------------------------------------------------------------
(* The server. Everything it sends waits for room in the channel.          *)

Sends(m) == Len(channel) < Cap /\ channel' = Append(channel, m)

RequestOpens ==
  time' = IF \E c \in Container : \E n \in DOMAIN written[c] : written[c][n] = time
          THEN time + 1 ELSE time

\* The request for the pod: it is there, and has containers, or cannot be had.
GetPod ==
  /\ phase = "get"
  /\ \/ phase' = "read" /\ toRead' = Containers /\ UNCHANGED channel
     \/ phase' = "done" /\ Sends(Failure) /\ UNCHANGED toRead
  /\ UNCHANGED <<clusterVars, initial, read, follow, seq, tab, historyVars>>

\* sortLogLines: by time, then by container (by name there; here in the order of
\* Containers); lines of a container keep their order. The place is the line's seq.
Place(c) == CHOOSE i \in DOMAIN Containers : Containers[i] = c
Precedes(a, b) ==
  \/ a.time < b.time
  \/ a.time = b.time /\ Place(a.container) < Place(b.container)
  \/ a.time = b.time /\ a.container = b.container /\ a.n < b.n
Sorted(lines) ==
  {order \in [1..Cardinality(lines) -> lines] :
     /\ \A line \in lines : \E i \in DOMAIN order : order[i] = line
     /\ \A i, j \in DOMAIN order : i < j => Precedes(order[i], order[j])}

LinesOf(s) == {s[i].line : i \in DOMAIN s}

\* readContainerLogs, container after container; one that fails is passed over.
ReadContainer ==
  /\ phase = "read" /\ toRead # <<>>
  /\ toRead' = Tail(toRead)
  /\ phase' = IF Len(toRead) = 1 THEN "send" ELSE "read"
  /\ LET c == Head(toRead)
         end == Len(written[c])
         start == IF end > TailLines THEN end - TailLines ELSE 0
         lines == LinesOf(initial) \cup {Line(c, n) : n \in start + 1..end}
     IN  \/ /\ RequestOpens
            /\ \E order \in Sorted(lines) :
                 initial' = [j \in DOMAIN order |-> Log(order[j], j - 1)]
            /\ read' = [read EXCEPT ![c] = end]
            /\ oldest' = [oldest EXCEPT ![c] = start]
            /\ UNCHANGED channel
         \/ /\ Sends(Failure)
            /\ oldest' = [oldest EXCEPT ![c] = end]
            /\ read' = [read EXCEPT ![c] = end]
            /\ UNCHANGED <<time, initial>>
  /\ UNCHANGED <<written, blank, follow, seq, tab, skipped, connections>>

SendInitial ==
  /\ phase = "send" /\ initial # <<>>
  /\ Sends(Head(initial))
  /\ initial' = Tail(initial)
  /\ UNCHANGED <<clusterVars, phase, toRead, read, follow, seq, tab, historyVars>>

\* "following logs for pod": the goroutines start.
StartFollowing ==
  /\ phase = "send" /\ initial = <<>>
  /\ Sends(Info)
  /\ phase' = "follow"
  /\ follow' = [c \in Container |-> IF c \in Followed THEN "opening" ELSE "ended"]
  /\ UNCHANGED <<clusterVars, toRead, initial, read, seq, tab, historyVars>>

Follows(c, from, to) == follow[c] = from /\ follow' = [follow EXCEPT ![c] = to]

\* Where a stream that is opened now begins.
BugFollowStart(c) == oldest[c]
FollowStart(c) == Len(written[c])

FollowOpens(c) ==
  /\ Follows(c, "opening", "open")
  /\ RequestOpens
  /\ read' = [read EXCEPT ![c] = FollowStart(c)]
  /\ seq' = [seq EXCEPT ![c] = 0]
  /\ skipped' = skipped \cup {<<c, n>> : n \in read[c] + 1..FollowStart(c)}
  /\ UNCHANGED <<written, blank, phase, toRead, initial, channel, tab, oldest, connections>>

\* The request fails: the goroutine sleeps a second, or ends when the pod or the
\* container is not there any more.
FollowFails(c) ==
  /\ \/ Follows(c, "opening", "asleep")
     \/ Follows(c, "opening", "ended")
  /\ Sends(Failure)
  /\ UNCHANGED <<clusterVars, phase, toRead, initial, read, seq, tab, historyVars>>

FollowSends(c) ==
  /\ follow[c] = "open" /\ read[c] < Len(written[c])
  /\ Sends(Log(Line(c, read[c] + 1), seq[c]))
  /\ read' = [read EXCEPT ![c] = @ + 1]
  /\ seq' = [seq EXCEPT ![c] = @ + 1]
  /\ UNCHANGED <<clusterVars, phase, toRead, initial, follow, tab, historyVars>>

\* The stream ends, or breaks, perhaps with lines that were not read yet.
FollowBreaks(c) ==
  /\ Follows(c, "open", "asleep")
  /\ UNCHANGED channel \/ Sends(Failure)
  /\ UNCHANGED <<clusterVars, phase, toRead, initial, read, seq, tab, historyVars>>

Wakes(c) ==
  /\ Follows(c, "asleep", "opening")
  /\ UNCHANGED <<clusterVars, phase, toRead, initial, read, seq, channel, tab, historyVars>>

AllEnded ==
  /\ phase = "follow" /\ \A c \in Container : follow[c] = "ended"
  /\ phase' = "done"
  /\ UNCHANGED <<clusterVars, toRead, initial, read, follow, seq, channel, tab, historyVars>>

-----------------------------------------------------------------------------
(* The tab.                                                                *)

\* The effect of useResourceLogs: the tab is opened or closed, or its object,
\* the containers or the number of lines change.
EffectRuns(open) ==
  /\ tab' = IF open THEN [NoTab EXCEPT !.conn = "connecting", !.loading = TRUE] ELSE NoTab
  /\ Idle
  /\ skipped' = {} /\ connections' = 0
  /\ oldest' = [c \in Container |-> 0]
  /\ UNCHANGED clusterVars

OpenTab == tab.conn = "closed" /\ EffectRuns(TRUE)
OptionsChange == tab.conn # "closed" /\ EffectRuns(TRUE)
CloseTab == tab.conn # "closed" /\ EffectRuns(FALSE)

\* The browser's request arrives: a subscription of its own, from the beginning.
Connects ==
  /\ tab.conn = "connecting" /\ connections < MaxConnections
  /\ tab' = [tab EXCEPT !.conn = "open"]
  /\ phase' = "get"
  /\ skipped' = {}
  /\ connections' = connections + 1
  /\ UNCHANGED <<clusterVars, toRead, initial, read, follow, seq, channel, oldest>>

\* es.onerror: the connection is lost, or the server has nothing more to send.
AfterInterruption(error) == IF error = "" THEN Reconnecting ELSE error

Interrupted ==
  /\ tab.conn = "open"
  /\ tab' = [tab EXCEPT !.conn = "connecting", !.loading = FALSE,
                        !.error = AfterInterruption(@)]
  /\ Idle
  /\ UNCHANGED <<clusterVars, historyVars>>

\* Anything but a failure says that the connection is back.
BugRecovered(error, m) == IF m.type = "LOG" /\ error = Reconnecting THEN "" ELSE error
Recovered(error, m) == IF error = Reconnecting THEN "" ELSE error

\* logEntryKey: the timestamp, the pod, the container, the number and the text.
BugEntryKey(e) == <<e.line.time, e.line.container>>
EntryKey(e) == <<e.line.time, e.line.container, e.seq>>

\* slice(-10000)
Newest(s) == IF Len(s) > MaxEntries THEN SubSeq(s, Len(s) - MaxEntries + 1, Len(s)) ELSE s

AddEntry(entries, e) ==
  IF \E i \in DOMAIN entries : EntryKey(entries[i]) = EntryKey(e) THEN entries
  ELSE Newest(Append(entries, e))

\* A LOG message without text is neither a line nor a sign of life to the tab.
Ignored(m) == m.type = "LOG" /\ ~HasText(m.line)

Receive ==
  /\ channel # <<>>
  /\ channel' = Tail(channel)
  /\ LET m == Head(channel)
     IN  tab' = CASE Ignored(m) -> tab
                  [] m.type = "LOG" /\ ~Ignored(m) ->
                       [tab EXCEPT !.loading = FALSE, !.error = Recovered(@, m),
                                   !.entries = AddEntry(@, m)]
                  [] m.type = "INFO" -> [tab EXCEPT !.error = Recovered(@, m)]
                  [] m.type = "ERROR" -> [tab EXCEPT !.loading = FALSE, !.error = "server"]
  /\ UNCHANGED <<clusterVars, phase, toRead, initial, read, follow, seq, historyVars>>

-----------------------------------------------------------------------------
FollowStep(c) ==
  FollowOpens(c) \/ FollowFails(c) \/ FollowSends(c) \/ FollowBreaks(c) \/ Wakes(c)

Next ==
  \/ \E c \in Container : Writes(c) \/ FollowStep(c)
  \/ GetPod \/ ReadContainer \/ SendInitial \/ StartFollowing \/ AllEnded
  \/ OpenTab \/ OptionsChange \/ CloseTab
  \/ Connects \/ Interrupted \/ Receive

Spec == LogTailInit /\ [][Next]_vars

-----------------------------------------------------------------------------
Shown(c, n) == {i \in DOMAIN tab.entries :
                  tab.entries[i].line.container = c /\ tab.entries[i].line.n = n}

\* After n connections no line is shown more than n times: one connection shows it
\* once, although the end of a log is read by one request and followed by others;
\* only a connection made again, whose numbers differ, repeats lines
\* (logmgr.go:297-390, resourceUtils.ts:25).
OncePerConnection ==
  \A c \in Container : \A n \in DOMAIN written[c] :
    Cardinality(Shown(c, n)) <= connections

\* With a stream open and nothing under way, the tab has every line of a container
\* that it follows, from the first that was read, but the blank ones, those written
\* while no request was open, and those that the limit has pushed out: lines of the
\* same time and text are not taken for one another, unless it was another connection
\* that numbered the line that the tab has (useResourceLogs.ts:86-100).
OnlyGapsAreMissing ==
  \A c \in Followed :
    follow[c] = "open" /\ channel = <<>> /\ Len(tab.entries) < MaxEntries =>
      \A n \in oldest[c] + 1..read[c] :
        \/ <<c, n>> \in skipped \/ <<c, n>> \in blank
        \/ Shown(c, n) # {}
        \/ /\ connections > 1
           /\ \E m \in DOMAIN written[c] : Shown(c, m) # {} /\ written[c][m] = written[c][n]

\* "waiting for EventSource to reconnect" is gone once the server follows the pod
\* again, also a pod that writes nothing; a failure that the server reported is not
\* replaced by it (useResourceLogs.ts:88, 104, 117).
ReconnectErrorClears ==
  phase = "follow" /\ channel = <<>> => tab.error # Reconnecting
=============================================================================
