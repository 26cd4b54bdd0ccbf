------------------------------- MODULE LogStreams -------------------------------
(***************************************************************************)
(* One subscription to the logs of a deployment (logmgr.go): a loop lists  *)
(* and watches the deployment's pods and starts and stops one goroutine    *)
(* per pod, until the browser goes away and the channel is closed. The     *)
(* goroutines and the loop write to the subscription's channel; what their *)
(* messages say is left out.                                               *)
(*                                                                         *)
(* A stream is a goroutine of podLogStreams and stands for its id, which   *)
(* is used again once the goroutine has ended.                             *)
(*                                                                         *)
(* Operators whose name begins with Bug are mutated forms of the operator  *)
(* that follows them: each shows that some property detects the fault.     *)
(***************************************************************************)
EXTENDS Naturals, Sequences, FiniteSets

CONSTANTS Pod,        \* pod names
          Stream,     \* ids; bounds the goroutines that exist at a time
          NoStream,   \* no entry in s.cancels
          NoPod,      \* the pod of a goroutine that does not exist
          MaxPending, \* bound on the events under way in a watch
          Cap         \* capacity of the channel (512)

ASSUME NoStreamAssumption == NoStream \notin Stream /\ NoPod \notin Pod
ASSUME LogBoundsAssumption == MaxPending \in Nat /\ Cap \in Nat

VARIABLES pods,    \* the pods of the deployment
          events,  \* changes after the last list that the watch has ahead
          gone,    \* the subscription's context is cancelled
          found,   \* the deployment and its selector were had
          pc,      \* where the loop is, or goes on after the message it sends
          telling, \* the loop is in sendLogError or sendLogInfo
          announced, \* it has said how many pods it watches
          current, \* the pods it listed
          todo,    \* those it has still to start
          cancels, \* s.cancels, without the cancel functions
          stream,  \* stream[s]: where the goroutine is
          podOf,   \* podOf[s]: the pod it follows
          stopped, \* streams whose own context is cancelled
          out,     \* messages in the channel
          gaveUp   \* pods whose last stream ended by itself (history)

clusterVars == <<pods, events>>
tellVars    == <<found, telling, announced>>
loopVars    == <<tellVars, pc, current, todo>>
streamVars  == <<cancels, stream, podOf, stopped, gaveUp>>
logVars     == <<clusterVars, gone, loopVars, streamVars, out>>

PodState == {"absent", "alive", "terminating"}

\* "stopAll": streamDeployment returned, its deferred call is ahead; "wait":
\* in wg.Wait; "closed": the channel is closed.
LoopPC == {"get", "list", "start", "missing", "open", "watching", "pause", "stopAll",
           "wait", "closed"}

LogTypeOK ==
    /\ pods \in [Pod -> PodState]
    /\ events \in Seq(Pod \X PodState)
    /\ gone \in BOOLEAN
    /\ found \in BOOLEAN /\ telling \in BOOLEAN /\ announced \in BOOLEAN
    /\ pc \in LoopPC
    /\ current \subseteq Pod /\ todo \subseteq current
    /\ cancels \in [Pod -> Stream \cup {NoStream}]
    /\ stream \in [Stream -> {"none", "reading", "sending", "returning"}]
    /\ podOf \in [Stream -> Pod \cup {NoPod}]
    /\ stopped \subseteq {s \in Stream : stream[s] # "none"}
    /\ out \in 0..Cap
    /\ gaveUp \subseteq Pod

LogInit ==
    /\ pods \in [Pod -> {"absent", "alive"}]
    /\ events = <<>>
    /\ gone = FALSE
    /\ pc = "get" /\ found = FALSE
    /\ telling = FALSE /\ announced = FALSE
    /\ current = {} /\ todo = {}
    /\ cancels = [p \in Pod |-> NoStream]
    /\ stream = [s \in Stream |-> "none"]
    /\ podOf = [s \in Stream |-> NoPod]
    /\ stopped = {}
    /\ out = 0
    /\ gaveUp = {}

-----------------------------------------------------------------------------
(* The cluster and the browser.                                            *)

\* A pod is created, is told to terminate, or disappears.
PodChanges(p) ==
    \E new \in PodState \ {pods[p]} :
        /\ pods[p] = "absent" => new = "alive"
        /\ pods[p] = "terminating" => new = "absent"
        /\ pods' = [pods EXCEPT ![p] = new]
        /\ IF pc \in {"start", "missing", "open", "watching"}
           THEN Len(events) < MaxPending /\ events' = Append(events, <<p, new>>)
           ELSE UNCHANGED events
        /\ UNCHANGED <<gone, loopVars, streamVars, out>>

\* The handler writes a message to the browser.
Consume ==
    /\ ~gone /\ out > 0
    /\ out' = out - 1
    /\ UNCHANGED <<clusterVars, gone, loopVars, streamVars>>

\* The request ends: nobody reads the channel any more.
Unsubscribe ==
    /\ ~gone
    /\ gone' = TRUE
    /\ UNCHANGED <<clusterVars, loopVars, streamVars, out>>

-----------------------------------------------------------------------------
(* podLogStreams.                                                          *)

Free == {s \in Stream : stream[s] = "none"}

\* start, unless the pod has an entry.
Starts(p) ==
    IF cancels[p] # NoStream THEN UNCHANGED streamVars
    ELSE \E s \in Free :
            /\ cancels' = [cancels EXCEPT ![p] = s]
            /\ stream' = [stream EXCEPT ![s] = "reading"]
            /\ podOf' = [podOf EXCEPT ![s] = p]
            /\ gaveUp' = gaveUp \ {p}
            /\ UNCHANGED stopped

\* stop, for each of the pods: the entry is removed, then cancelled.
Stops(ps) ==
    /\ cancels' = [p \in Pod |-> IF p \in ps THEN NoStream ELSE cancels[p]]
    /\ stopped' = stopped \cup {cancels[p] : p \in {q \in ps : cancels[q] # NoStream}}
    /\ UNCHANGED <<stream, podOf, gaveUp>>

Cancelled(s) == gone \/ s \in stopped

StreamGoes(s, from, to) == stream[s] = from /\ stream' = [stream EXCEPT ![s] = to]

\* A line, or a message about a failed request, is there to be sent.
HasLine(s) ==
    /\ StreamGoes(s, "reading", "sending")
    /\ UNCHANGED <<clusterVars, gone, loopVars, cancels, podOf, stopped, gaveUp, out>>

\* sendLogEnvelope waits for room or for the end of its context.
HasRoom == out < Cap

SendLine(s) ==
    /\ StreamGoes(s, "sending", "reading")
    /\ HasRoom
    /\ out' = out + 1
    /\ UNCHANGED <<clusterVars, gone, loopVars, cancels, podOf, stopped, gaveUp>>

BugMayDrop(s) == FALSE
MayDrop(s) == Cancelled(s)

DropLine(s) ==
    /\ StreamGoes(s, "sending", "reading")
    /\ MayDrop(s)
    /\ UNCHANGED <<clusterVars, gone, loopVars, cancels, podOf, stopped, gaveUp, out>>

\* Its context ended ...
StreamIsDone(s) ==
    /\ StreamGoes(s, "reading", "returning")
    /\ Cancelled(s)
    /\ UNCHANGED <<clusterVars, gone, loopVars, cancels, podOf, stopped, gaveUp, out>>

\* ... or there is nothing to follow: no container, or all are not found.
StreamGivesUp(s) ==
    /\ StreamGoes(s, "reading", "returning")
    /\ gaveUp' = IF cancels[podOf[s]] = s THEN gaveUp \cup {podOf[s]} ELSE gaveUp
    /\ UNCHANGED <<clusterVars, gone, loopVars, cancels, podOf, stopped, out>>

\* finish leaves the entry of a later stream for the same pod alone.
BugIsMine(s) == TRUE
IsMine(s) == cancels[podOf[s]] = s

Finish(s) ==
    /\ StreamGoes(s, "returning", "none")
    /\ cancels' = IF IsMine(s) THEN [cancels EXCEPT ![podOf[s]] = NoStream] ELSE cancels
    /\ podOf' = [podOf EXCEPT ![s] = NoPod]
    /\ stopped' = stopped \ {s}
    /\ UNCHANGED <<clusterVars, gone, loopVars, gaveUp, out>>

-----------------------------------------------------------------------------
(* streamDeployment.                                                       *)

LoopAt(place) == pc = place /\ ~telling
LoopGoes(from, to) == LoopAt(from) /\ pc' = to

\* sendLogEnvelope again: there is room, or the context has ended.
LoopTells ==
    /\ telling
    /\ telling' = FALSE
    /\ \/ HasRoom /\ out' = out + 1
       \/ gone /\ UNCHANGED out
    /\ UNCHANGED <<clusterVars, gone, found, announced, pc, current, todo, streamVars>>

GotDeployment ==
    /\ LoopGoes("get", "list")
    /\ found' = TRUE
    /\ UNCHANGED <<clusterVars, gone, telling, announced, current, todo, streamVars, out>>

\* The deployment or its selector cannot be had: streamDeployment says so and returns
\* before there is anything for stopAll to stop.
TargetFails ==
    /\ LoopGoes("get", "wait")
    /\ telling' = TRUE
    /\ UNCHANGED <<clusterVars, gone, found, announced, current, todo, streamVars, out>>

\* ctx.Err() # nil, ctx.Done(), or sleepOrDone says so.
LoopReturns ==
    /\ gone
    /\ \E p \in {"list", "open", "watching", "pause"} : LoopGoes(p, "stopAll")
    /\ events' = <<>>
    /\ current' = {}
    /\ UNCHANGED <<pods, gone, tellVars, todo, streamVars, out>>

ListPods ==
    /\ ~gone
    /\ LoopGoes("list", "start")
    /\ current' = {p \in Pod : pods[p] # "absent"}
    /\ todo' = current'
    /\ UNCHANGED <<clusterVars, gone, tellVars, streamVars, out>>

\* The loop sleeps and lists again, ...
Relists ==
    /\ pc' = "pause"
    /\ events' = <<>>
    /\ current' = {}
    /\ UNCHANGED <<pods, gone, found, announced, todo, streamVars, out>>

\* ... as the list or the watch failed, or the watch has expired, which it says, ...
RequestFails ==
    /\ \/ LoopAt("watching")
       \/ ~gone /\ (LoopAt("list") \/ LoopAt("open"))
    /\ telling' = TRUE
    /\ Relists

\* ... or as the watch was closed.
WatchCloses == LoopAt("watching") /\ UNCHANGED telling /\ Relists

\* Another error of the watch is told, and the watch goes on.
WatchError ==
    /\ LoopAt("watching")
    /\ telling' = TRUE
    /\ UNCHANGED <<clusterVars, gone, found, announced, pc, current, todo, streamVars, out>>

PauseOver ==
    /\ LoopGoes("pause", "list")
    /\ UNCHANGED <<clusterVars, gone, tellVars, current, todo, streamVars, out>>

\* Whatever is listed is started, a terminating pod too.
StartListed(p) ==
    /\ LoopAt("start") /\ p \in todo
    /\ Starts(p)
    /\ todo' = todo \ {p}
    /\ UNCHANGED <<clusterVars, gone, tellVars, pc, current, out>>

AllStarted ==
    /\ LoopGoes("start", "missing")
    /\ todo = {}
    /\ UNCHANGED <<clusterVars, gone, tellVars, current, todo, streamVars, out>>

BugMissing == {}
Missing == {p \in Pod : cancels[p] # NoStream /\ p \notin current}

\* stopMissing, and once the number of pods.
StopMissing ==
    /\ LoopGoes("missing", "open")
    /\ Stops(Missing)
    /\ telling' = ~announced
    /\ announced' = TRUE
    /\ UNCHANGED <<clusterVars, gone, found, current, todo, out>>

WatchOpens ==
    /\ ~gone
    /\ LoopGoes("open", "watching")
    /\ current' = {}
    /\ UNCHANGED <<clusterVars, gone, tellVars, todo, streamVars, out>>

PodEvent ==
    /\ LoopAt("watching") /\ events # <<>>
    /\ events' = Tail(events)
    /\ LET p == Head(events)[1]
       IN  IF Head(events)[2] = "alive" THEN Starts(p) ELSE Stops({p})
    /\ UNCHANGED <<pods, gone, loopVars, out>>

StopAll ==
    /\ LoopGoes("stopAll", "wait")
    /\ Stops(Pod)
    /\ UNCHANGED <<clusterVars, gone, tellVars, current, todo, out>>

BugAllDone == TRUE
AllDone == \A s \in Stream : stream[s] = "none"

CloseChannel ==
    /\ LoopGoes("wait", "closed")
    /\ AllDone
    /\ UNCHANGED <<clusterVars, gone, tellVars, current, todo, streamVars, out>>

-----------------------------------------------------------------------------
LoopStep ==
    \/ LoopTells \/ LoopReturns \/ PauseOver \/ AllStarted \/ StopMissing \/ StopAll
    \/ CloseChannel
    \/ \E p \in Pod : StartListed(p)

DeploymentAnswer == GotDeployment \/ TargetFails

StreamEnds(s) == DropLine(s) \/ StreamIsDone(s) \/ Finish(s)

LogNext ==
    \/ \E p \in Pod : PodChanges(p)
    \/ Consume \/ Unsubscribe
    \/ LoopStep \/ DeploymentAnswer \/ ListPods \/ WatchOpens \/ PodEvent
    \/ RequestFails \/ WatchCloses \/ WatchError
    \/ \E s \in Stream : HasLine(s) \/ SendLine(s) \/ StreamGivesUp(s) \/ StreamEnds(s)

LogSpec == LogInit /\ [][LogNext]_logVars

\* Goroutines go on, sleeps end, and requests notice a cancelled context, the one for the
\* deployment as well. Where the loop's select finds the context done beside an event of the
\* watch it may take either, but not the event forever (SF of LoopReturns). A stream whose
\* context is cancelled may still have lines to send that it has read, but not forever (SF).
FairLogSpec ==
    /\ LogSpec
    /\ SF_logVars(LoopReturns) /\ WF_logVars(LoopStep) /\ WF_logVars(gone /\ DeploymentAnswer)
    /\ \A s \in Stream : WF_logVars(StreamEnds(s)) /\ SF_logVars(StreamIsDone(s))

-----------------------------------------------------------------------------
\* No line of a pod is sent twice by two streams: for each pod at most one
\* stream works that was not told to stop, whatever the order in which a
\* stopped stream finishes and the pod of the same name is started again.
OneStreamPerPod ==
    \A s, t \in Stream :
        (/\ stream[s] \in {"reading", "sending"} /\ stream[t] \in {"reading", "sending"}
         /\ podOf[s] = podOf[t] /\ ~Cancelled(s) /\ ~Cancelled(t)) => s = t

\* Once the loop has caught up with the watch, every pod that runs is followed
\* unless its stream gave up, and no pod that has disappeared has an entry.
FollowsCurrentPods ==
    ~gone /\ pc = "watching" /\ events = <<>> =>
        \A p \in Pod : /\ pods[p] = "alive" => cancels[p] # NoStream \/ p \in gaveUp
                       /\ pods[p] = "absent" => cancels[p] = NoStream

\* The channel is closed after the last send of the loop and of every stream (a send
\* to a closed channel panics), and with the browser still there only when the
\* deployment or its selector could not be had.
CloseIsLast ==
    pc = "closed" => /\ ~telling /\ \A s \in Stream : stream[s] = "none"
                     /\ found => gone

\* When the browser is gone everything ends, streams that wait for room in the
\* channel nobody reads included.
EverythingEnds == gone ~> pc = "closed"
=============================================================================
