--------------------------- MODULE LogStreamsProofs ---------------------------
(***************************************************************************)
(* Proofs about LogStreams, for any pods, streams, channel capacity and    *)
(* number of events under way. The registry of podLogStreams (cancels) and *)
(* the goroutines are two views of one fact, kept together by start, stop  *)
(* and finish: Registered says so, and OneStreamPerPod follows from it.    *)
(***************************************************************************)
EXTENDS LogStreams, SequenceTheorems, TLAPS

\* The registry names live goroutines of the right pod that were not told to
\* stop, and a goroutine it does not name was told to.
Registered ==
    /\ \A p \in Pod : cancels[p] # NoStream =>
          stream[cancels[p]] # "none" /\ podOf[cancels[p]] = p /\ cancels[p] \notin stopped
    /\ \A s \in Stream : stream[s] # "none" =>
          podOf[s] \in Pod /\ (s \in stopped \/ cancels[podOf[s]] = s)

\* The loop leaves only when the request has ended, or before it has listed pods;
\* nothing is left to start once it has gone on from starting.
LoopInOrder ==
    /\ pc \in {"stopAll", "wait", "closed"} => gone \/ (~found /\ pc # "stopAll")
    /\ pc = "get" => ~found
    /\ pc \notin {"get", "wait", "closed"} => found
    /\ pc # "start" => todo = {}

LogInv == LogTypeOK /\ Registered /\ LoopInOrder /\ CloseIsLast

-----------------------------------------------------------------------------
\* What the steps do to the queue of a watch keeps it a sequence of events.
LEMMA EventQueues ==
  ASSUME NEW S PROVE
    /\ <<>> \in Seq(S)
    /\ \A q \in Seq(S), x \in S : Append(q, x) \in Seq(S)
    /\ \A q \in Seq(S) : q # <<>> => Head(q) \in S /\ Tail(q) \in Seq(S)
  OBVIOUS

\* A subscription begins with the invariant: nothing is registered.
LEMMA LogInitInv == LogInit => LogInv
<1> SUFFICES ASSUME LogInit PROVE LogInv
  OBVIOUS
<1>1. LogTypeOK
  <2>1. events \in Seq(Pod \X PodState)
    <3>1. events = <<>>
      BY DEF LogInit
    <3> QED
      BY <3>1, EventQueues
  <2>2. pods \in [Pod -> PodState]
    BY DEF LogInit, PodState
  <2>3. cancels \in [Pod -> Stream \cup {NoStream}]
    BY DEF LogInit
  <2>4. podOf \in [Stream -> Pod \cup {NoPod}]
    BY DEF LogInit
  <2>5. stream \in [Stream -> {"none", "reading", "sending", "returning"}]
    BY DEF LogInit
  <2>6. gone \in BOOLEAN /\ found \in BOOLEAN /\ telling \in BOOLEAN /\ announced \in BOOLEAN
    BY DEF LogInit
  <2>7. pc \in LoopPC
    BY DEF LogInit, LoopPC
  <2>8. out \in 0..Cap
    <3>1. out = 0
      BY DEF LogInit
    <3> QED
      BY <3>1, LogBoundsAssumption
  <2>9. current \subseteq Pod /\ todo \subseteq current /\ gaveUp \subseteq Pod
        /\ stopped \subseteq {s \in Stream : stream[s] # "none"}
    BY DEF LogInit
  <2> QED
    BY <2>1, <2>2, <2>3, <2>4, <2>5, <2>6, <2>7, <2>8, <2>9 DEF LogTypeOK
<1> QED
  BY <1>1 DEF LogInit, LogInv, Registered, LoopInOrder, CloseIsLast

\* start keeps the invariant: it looks for an entry under the lock it adds one with.
LEMMA StartsInv ==
  ASSUME LogTypeOK, Registered, NEW p \in Pod, Starts(p)
  PROVE  /\ Registered'
         /\ cancels' \in [Pod -> Stream \cup {NoStream}]
         /\ stream' \in [Stream -> {"none", "reading", "sending", "returning"}]
         /\ podOf' \in [Stream -> Pod \cup {NoPod}]
         /\ stopped' \subseteq {s \in Stream : stream'[s] # "none"}
         /\ gaveUp' \subseteq Pod
<1>1. CASE cancels[p] # NoStream
  BY <1>1 DEF Starts, streamVars, LogTypeOK, Registered
<1>2. CASE cancels[p] = NoStream
  <2>1. PICK s \in Free : /\ cancels' = [cancels EXCEPT ![p] = s]
                          /\ stream' = [stream EXCEPT ![s] = "reading"]
                          /\ podOf' = [podOf EXCEPT ![s] = p]
                          /\ gaveUp' = gaveUp \ {p}
                          /\ UNCHANGED stopped
    BY <1>2 DEF Starts
  <2>2. s \in Stream /\ stream[s] = "none" /\ s \notin stopped /\ s # NoStream
    BY NoStreamAssumption DEF Free, LogTypeOK
  <2>3. \A q \in Pod : cancels[q] # s
    BY <2>2 DEF Registered
  <2>4. \A q \in Pod : cancels'[q] # NoStream =>
            /\ stream'[cancels'[q]] # "none" /\ podOf'[cancels'[q]] = q
            /\ cancels'[q] \notin stopped'
    BY <1>2, <2>1, <2>2, <2>3 DEF Registered, LogTypeOK
  <2>5. \A t \in Stream : stream'[t] # "none" =>
            podOf'[t] \in Pod /\ (t \in stopped' \/ cancels'[podOf'[t]] = t)
    BY <1>2, <2>1, <2>2, NoStreamAssumption DEF Registered, LogTypeOK
  <2> QED
    BY <2>1, <2>2, <2>4, <2>5 DEF LogTypeOK, Registered
<1> QED
  BY <1>1, <1>2

\* stop keeps it, for any number of pods: what leaves the registry is cancelled.
LEMMA StopsInv ==
  ASSUME LogTypeOK, Registered, NEW ps \in SUBSET Pod, Stops(ps)
  PROVE  /\ Registered'
         /\ cancels' \in [Pod -> Stream \cup {NoStream}]
         /\ stopped' \subseteq {s \in Stream : stream[s] # "none"}
<1>1. cancels' \in [Pod -> Stream \cup {NoStream}]
  BY DEF Stops, LogTypeOK
<1>2. stopped' \subseteq {s \in Stream : stream[s] # "none"}
  BY DEF Stops, LogTypeOK, Registered
<1>3. ASSUME NEW p \in Pod, cancels'[p] # NoStream
      PROVE  stream'[cancels'[p]] # "none" /\ podOf'[cancels'[p]] = p /\ cancels'[p] \notin stopped'
  <2>1. p \notin ps /\ cancels'[p] = cancels[p]
    BY <1>3 DEF Stops
  <2>2. \A q \in ps : cancels[q] # NoStream => cancels[q] # cancels[p]
    BY <1>3, <2>1 DEF Registered
  <2> QED
    BY <1>3, <2>1, <2>2 DEF Stops, Registered
<1>4. ASSUME NEW s \in Stream, stream'[s] # "none"
      PROVE  podOf'[s] \in Pod /\ (s \in stopped' \/ cancels'[podOf'[s]] = s)
  <2>1. podOf[s] \in Pod /\ (s \in stopped \/ cancels[podOf[s]] = s)
    BY <1>4 DEF Stops, Registered
  <2>2. s # NoStream
    BY NoStreamAssumption
  <2> QED
    BY <2>1, <2>2 DEF Stops
<1> QED
  BY <1>1, <1>2, <1>3, <1>4 DEF Registered

\* A goroutine that ends takes its own entry with it, and no other.
LEMMA FinishInv ==
  ASSUME LogInv, NEW s \in Stream, Finish(s) PROVE LogInv'
<1> USE DEF LogInv
<1>1. stream[s] = "returning" /\ podOf[s] \in Pod
  BY DEF Finish, StreamGoes, Registered
<1>2. \A p \in Pod : cancels'[p] = IF cancels[p] = s THEN NoStream ELSE cancels[p]
  BY <1>1 DEF Finish, IsMine, LogTypeOK, Registered, StreamGoes
<1>3. LogTypeOK'
  BY <1>1, NoStreamAssumption DEF Finish, StreamGoes, LogTypeOK, clusterVars, loopVars, tellVars
<1>4. \A p \in Pod : cancels'[p] # NoStream =>
          /\ stream'[cancels'[p]] # "none" /\ podOf'[cancels'[p]] = p
          /\ cancels'[p] \notin stopped'
  BY <1>1, <1>2 DEF Finish, StreamGoes, LogTypeOK, Registered
<1>5. \A t \in Stream : stream'[t] # "none" =>
          podOf'[t] \in Pod /\ (t \in stopped' \/ cancels'[podOf'[t]] = t)
  BY <1>1, <1>2 DEF Finish, StreamGoes, LogTypeOK, Registered
<1>6. LoopInOrder' /\ CloseIsLast'
  BY DEF Finish, StreamGoes, LogTypeOK, LoopInOrder, CloseIsLast, loopVars, tellVars
<1> QED
  BY <1>3, <1>4, <1>5, <1>6 DEF Registered

\* The other steps of a goroutine change where it is and what is in the channel.
LEMMA StreamStepInv ==
  ASSUME LogInv, NEW s \in Stream,
         HasLine(s) \/ SendLine(s) \/ StreamGivesUp(s) \/ DropLine(s) \/ StreamIsDone(s)
  PROVE  LogInv'
<1> USE DEF LogInv
<1>1. /\ UNCHANGED <<pods, events, gone, loopVars, cancels, podOf, stopped>>
      /\ stream[s] # "none"
      /\ \E to \in {"reading", "sending", "returning"} : stream' = [stream EXCEPT ![s] = to]
  BY DEF HasLine, SendLine, StreamGivesUp, DropLine, StreamIsDone, StreamGoes,
         clusterVars, loopVars, tellVars
<1>2. out' \in 0..Cap
  BY LogBoundsAssumption
     DEF HasLine, SendLine, StreamGivesUp, DropLine, StreamIsDone, HasRoom, LogTypeOK
<1>3. gaveUp' \subseteq Pod
  BY <1>1 DEF HasLine, SendLine, StreamGivesUp, DropLine, StreamIsDone, LogTypeOK, Registered
<1>4. LogTypeOK'
  BY <1>1, <1>2, <1>3 DEF LogTypeOK, loopVars, tellVars
<1>5. Registered'
  BY <1>1 DEF LogTypeOK, Registered
<1>6. LoopInOrder' /\ CloseIsLast'
  BY <1>1 DEF LogTypeOK, LoopInOrder, CloseIsLast, loopVars, tellVars
<1> QED
  BY <1>4, <1>5, <1>6

\* The cluster and the browser touch neither the registry nor the goroutines.
LEMMA OutsideInv ==
  ASSUME LogInv, (\E p \in Pod : PodChanges(p)) \/ Consume \/ Unsubscribe
  PROVE  LogInv'
<1> USE DEF LogInv
<1>1. CASE \E p \in Pod : PodChanges(p)
  <2>1. PICK p \in Pod : PodChanges(p)
    BY <1>1
  <2>2. PICK new \in PodState :
            /\ pods' = [pods EXCEPT ![p] = new]
            /\ events' = Append(events, <<p, new>>) \/ events' = events
    BY <2>1 DEF PodChanges
  <2>3. events' \in Seq(Pod \X PodState)
    <3> DEFINE E == Pod \X PodState
    <3>1. <<p, new>> \in E /\ events \in Seq(E)
      BY DEF LogTypeOK
    <3> HIDE DEF E
    <3>2. Append(events, <<p, new>>) \in Seq(E)
      BY <3>1, EventQueues
    <3> QED
      BY <2>2, <3>1, <3>2 DEF E
  <2> QED
    BY <2>1, <2>2, <2>3
       DEF PodChanges, LogTypeOK, Registered, LoopInOrder, CloseIsLast,
           loopVars, tellVars, streamVars
<1>2. CASE Consume
  BY <1>2, LogBoundsAssumption
     DEF Consume, LogTypeOK, Registered, LoopInOrder, CloseIsLast,
         clusterVars, loopVars, tellVars, streamVars
<1>3. CASE Unsubscribe
  BY <1>3 DEF Unsubscribe, LogTypeOK, Registered, LoopInOrder, CloseIsLast,
              clusterVars, loopVars, tellVars, streamVars
<1> QED
  BY <1>1, <1>2, <1>3

\* The loop's own message goes into the channel or is dropped.
LEMMA LoopTellsInv == ASSUME LogInv, LoopTells PROVE LogInv'
<1> USE DEF LogInv
<1>1. out' \in 0..Cap
  BY LogBoundsAssumption DEF LoopTells, HasRoom, LogTypeOK
<1>2. LogTypeOK'
  BY <1>1 DEF LoopTells, LogTypeOK, clusterVars, streamVars
<1>3. Registered' /\ LoopInOrder' /\ CloseIsLast'
  BY DEF LoopTells, Registered, LoopInOrder, CloseIsLast, clusterVars, streamVars
<1> QED
  BY <1>2, <1>3

\* The steps of the loop that neither start nor stop a stream.
LoopQuiet ==
    \/ LoopReturns \/ PauseOver \/ AllStarted \/ CloseChannel \/ DeploymentAnswer
    \/ ListPods \/ WatchOpens \/ RequestFails \/ WatchCloses \/ WatchError

LEMMA LoopQuietInv == ASSUME LogInv, LoopQuiet PROVE LogInv'
<1> USE DEF LogInv, LoopQuiet, DeploymentAnswer
<1>1. UNCHANGED <<pods, gone, out, cancels, stream, podOf, stopped, gaveUp>>
  BY DEF LoopReturns, PauseOver, AllStarted, CloseChannel, GotDeployment, TargetFails, ListPods,
         WatchOpens, RequestFails, WatchCloses, WatchError, Relists, clusterVars, streamVars
<1>2. events' \in Seq(Pod \X PodState)
  <2>1. events' = events \/ events' = <<>>
    BY DEF LoopReturns, PauseOver, AllStarted, CloseChannel, GotDeployment, TargetFails,
           ListPods, WatchOpens, RequestFails, WatchCloses, WatchError, Relists, clusterVars
  <2> QED
    BY <2>1, EventQueues DEF LogTypeOK
<1>3. /\ pc' \in LoopPC /\ current' \subseteq Pod /\ todo' \subseteq current' /\ LoopInOrder'
      /\ found' \in BOOLEAN /\ telling' \in BOOLEAN /\ announced' \in BOOLEAN
  <2>1. CASE LoopReturns \/ PauseOver \/ AllStarted \/ CloseChannel
    BY <2>1 DEF LoopReturns, PauseOver, AllStarted, CloseChannel, LoopGoes, LoopAt, LoopInOrder,
                LoopPC, LogTypeOK, tellVars
  <2>2. CASE DeploymentAnswer
    <3>1. pc = "get" /\ ~found /\ pc' \in {"list", "wait"} /\ UNCHANGED <<gone, current, todo>>
      BY <2>2 DEF GotDeployment, TargetFails, LoopGoes, LoopAt, LoopInOrder
    <3>2. /\ telling' \in BOOLEAN /\ announced' \in BOOLEAN
          /\ \/ found' = TRUE /\ pc' = "list"
             \/ found' = found /\ pc' = "wait"
      BY <2>2 DEF GotDeployment, TargetFails, LoopGoes, LogTypeOK
    <3>3. pc' \in LoopPC /\ current' \subseteq Pod /\ todo' \subseteq current' /\ found' \in BOOLEAN
      BY <3>1, <3>2 DEF LoopPC, LogTypeOK
    <3>4. todo' = {}
      BY <3>1 DEF LoopInOrder
    <3>5. LoopInOrder'
      BY <3>1, <3>2, <3>4 DEF LoopInOrder
    <3> QED
      BY <3>2, <3>3, <3>5
  <2>4. CASE ListPods
    BY <2>4 DEF ListPods, LoopGoes, LoopAt, LoopInOrder, LoopPC, LogTypeOK, tellVars
  <2>5. CASE WatchOpens
    BY <2>5 DEF WatchOpens, LoopGoes, LoopAt, LoopInOrder, LoopPC, LogTypeOK, tellVars
  <2>3. CASE RequestFails \/ WatchCloses \/ WatchError
    BY <2>3 DEF RequestFails, WatchCloses, WatchError, Relists, LoopAt, LoopInOrder, LoopPC,
                LogTypeOK
  <2> QED
    BY <2>1, <2>2, <2>3, <2>4, <2>5
<1>4. LogTypeOK'
  BY <1>1, <1>2, <1>3 DEF LogTypeOK
<1>5. Registered'
  BY <1>1 DEF Registered
<1>6. CloseIsLast'
  BY <1>1 DEF LoopReturns, PauseOver, AllStarted, CloseChannel, GotDeployment, TargetFails,
              ListPods, WatchOpens, RequestFails, WatchCloses, WatchError, Relists, LoopGoes,
              LoopAt, AllDone, CloseIsLast, LoopInOrder, tellVars
<1> QED
  BY <1>3, <1>4, <1>5, <1>6

\* The steps that start or stop streams.
LEMMA LoopActsInv ==
  ASSUME LogInv, (\E p \in Pod : StartListed(p)) \/ StopMissing \/ StopAll \/ PodEvent
  PROVE  LogInv'
<1> USE DEF LogInv
<1>1. ASSUME NEW p \in Pod, StartListed(p) PROVE LogInv'
  <2>1. Starts(p) /\ UNCHANGED <<pods, events, gone, tellVars, pc, current, out>>
        /\ pc = "start" /\ todo' = todo \ {p}
    BY <1>1 DEF StartListed, LoopAt, clusterVars
  <2>2. LogTypeOK' /\ Registered'
    BY <2>1, StartsInv DEF LogTypeOK, tellVars
  <2> QED
    BY <2>1, <2>2 DEF LoopInOrder, CloseIsLast, tellVars
<1>2. ASSUME NEW ps \in SUBSET Pod, Stops(ps),
             UNCHANGED <<pods, gone, found, current, todo, out>>,
             telling' \in BOOLEAN, announced' \in BOOLEAN,
             events' \in Seq(Pod \X PodState), pc' \in LoopPC, pc' # "closed", LoopInOrder'
      PROVE  LogInv'
  <2>1. LogTypeOK' /\ Registered'
    BY <1>2, StopsInv DEF LogTypeOK, Stops
  <2> QED
    BY <1>2, <2>1 DEF CloseIsLast
<1>3. CASE StopMissing
  <2>1. Missing \in SUBSET Pod
    BY DEF Missing
  <2> QED
    BY <1>2, <1>3, <2>1 DEF StopMissing, LoopGoes, LoopAt, LoopInOrder, LoopPC, LogTypeOK,
                                clusterVars
<1>4. CASE StopAll
  BY <1>2, <1>4 DEF StopAll, LoopGoes, LoopAt, LoopInOrder, LoopPC, LogTypeOK, clusterVars,
                      tellVars
<1>5. CASE PodEvent
  <2>1. /\ events # <<>> /\ events' = Tail(events) /\ pc = "watching"
        /\ UNCHANGED <<pods, gone, found, telling, announced, pc, current, todo, out>>
    BY <1>5 DEF PodEvent, LoopAt, loopVars, tellVars
  <2>2. Head(events) \in Pod \X PodState /\ events' \in Seq(Pod \X PodState)
    BY <2>1, EventQueues DEF LogTypeOK
  <2> DEFINE p == Head(events)[1]
  <2>3. p \in Pod /\ (Starts(p) \/ Stops({p}))
    BY <1>5, <2>2 DEF PodEvent
  <2>4. CASE Starts(p)
    <3>1. LogTypeOK' /\ Registered'
      BY <2>1, <2>2, <2>3, <2>4, StartsInv DEF LogTypeOK
    <3> QED
      BY <2>1, <3>1 DEF LoopInOrder, CloseIsLast
  <2>5. CASE Stops({p})
    BY <1>2, <2>1, <2>2, <2>3, <2>5 DEF LoopInOrder, LoopPC, LogTypeOK
  <2> QED
    BY <2>3, <2>4, <2>5
<1> QED
  BY <1>1, <1>3, <1>4, <1>5

\* Every step keeps the invariant.
LEMMA LogStepInv == LogInv /\ [LogNext]_logVars => LogInv'
<1> SUFFICES ASSUME LogInv, [LogNext]_logVars PROVE LogInv'
  OBVIOUS
<1>1. CASE UNCHANGED logVars
  BY <1>1 DEF logVars, clusterVars, loopVars, tellVars, streamVars, LogInv, LogTypeOK, Registered,
              LoopInOrder, CloseIsLast
<1>2. CASE LogNext
  BY <1>2, OutsideInv, LoopTellsInv, LoopQuietInv, LoopActsInv, StreamStepInv, FinishInv
     DEF LogNext, LoopStep, LoopQuiet, StreamEnds
<1> QED
  BY <1>1, <1>2

\* The registry and the goroutines agree in every reachable state.
THEOREM LogInvariance == LogSpec => []LogInv
  BY LogInitInv, LogStepInv, PTL DEF LogSpec

\* The types of the subscription's state.
THEOREM LogTypeSafety == LogSpec => []LogTypeOK
<1>1. LogInv => LogTypeOK
  BY DEF LogInv
<1> QED
  BY <1>1, LogInvariance, PTL

\* No pod is followed by two streams that were not told to stop (podLogStreams.start,
\* stop and finish): two entries of the registry cannot name the same pod.
THEOREM NoDoubleStream == LogSpec => []OneStreamPerPod
<1>1. LogInv => OneStreamPerPod
  BY DEF LogInv, Registered, OneStreamPerPod, Cancelled
<1> QED
  BY <1>1, LogInvariance, PTL

\* The channel is closed after the last send, of the loop or of a stream, and with the
\* browser still there only when the deployment or its selector could not be had (the
\* early returns, the deferred stopAll, wg.Wait and close of streamDeployment).
THEOREM ClosedLast == LogSpec => []CloseIsLast
<1>1. LogInv => CloseIsLast
  BY DEF LogInv
<1> QED
  BY <1>1, LogInvariance, PTL

-----------------------------------------------------------------------------
(* FollowsCurrentPods. While events about a pod are under way only the     *)
(* last of them matters, and it agrees with the cluster; of every other    *)
(* pod the registry is up to date, as far as the loop has come since it    *)
(* listed.                                                                 *)

Handled(p) == cancels[p] # NoStream \/ p \in gaveUp

Pending(p) == \E i \in 1..Len(events) : events[i][1] = p

LastIsTrue ==
    /\ pc \notin {"start", "missing", "open", "watching"} => events = <<>>
    /\ \A i \in 1..Len(events) :
          (\A j \in 1..Len(events) : j > i => events[j][1] # events[i][1])
              => events[i][2] = pods[events[i][1]]

EndedByItself ==
    ~gone => \A s \in Stream :
        stream[s] = "returning" /\ s \notin stopped => podOf[s] \in gaveUp

UpToDate(p) ==
    /\ pc \in {"start", "missing", "open"} =>
          /\ p \in current <=> pods[p] # "absent"
          /\ p \in current \ todo => Handled(p)
    /\ pc = "open" /\ p \notin current => cancels[p] = NoStream
    /\ pc = "watching" =>
          /\ pods[p] = "alive" => Handled(p)
          /\ pods[p] = "absent" => cancels[p] = NoStream

AllUpToDate == ~gone => \A p \in Pod : ~Pending(p) => UpToDate(p)

FollowInv == LogInv /\ LastIsTrue /\ EndedByItself /\ AllUpToDate

\* A subscription begins with it: the loop has not listed yet.
LEMMA FollowInitInv == LogInit => FollowInv
<1> SUFFICES ASSUME LogInit PROVE FollowInv
  OBVIOUS
<1>1. events = <<>> /\ pc = "get" /\ \A s \in Stream : stream[s] = "none"
  BY DEF LogInit
<1> QED
  BY <1>1, LogInitInv DEF FollowInv, LastIsTrue, EndedByItself, AllUpToDate, UpToDate

\* A goroutine's steps drop an entry only of a stream that gave up by itself.
LEMMA FollowStreamInv ==
  ASSUME FollowInv, LogInv', NEW s \in Stream,
         HasLine(s) \/ SendLine(s) \/ StreamGivesUp(s) \/ StreamEnds(s)
  PROVE  FollowInv'
<1> USE DEF FollowInv
<1>1. UNCHANGED <<pods, events, gone, pc, current, todo>>
  BY DEF HasLine, SendLine, StreamGivesUp, StreamEnds, DropLine, StreamIsDone, Finish,
         clusterVars, loopVars, tellVars
<1>2. EndedByItself'
  BY DEF HasLine, SendLine, StreamGivesUp, StreamEnds, DropLine, StreamIsDone, Finish,
         StreamGoes, EndedByItself, Cancelled, LogInv, LogTypeOK, Registered
<1>3. ~gone => \A p \in Pod : /\ Handled(p) => Handled(p)'
                              /\ cancels[p] = NoStream => cancels'[p] = NoStream
  BY DEF HasLine, SendLine, StreamGivesUp, StreamEnds, DropLine, StreamIsDone, Finish,
         IsMine, StreamGoes, EndedByItself, Handled, LogInv, LogTypeOK, Registered
<1>4. LastIsTrue'
  BY <1>1 DEF LastIsTrue
<1>5. ASSUME ~gone, NEW p \in Pod, ~Pending(p) PROVE UpToDate(p)'
  <2>1. UpToDate(p)
    BY <1>5 DEF AllUpToDate
  <2>2. cancels[p] # NoStream \/ p \in gaveUp => cancels'[p] # NoStream \/ p \in gaveUp'
    BY <1>3, <1>5 DEF Handled
  <2>3. cancels[p] = NoStream => cancels'[p] = NoStream
    BY <1>3, <1>5
  <2> QED
    BY <1>1, <2>1, <2>2, <2>3 DEF UpToDate, Handled
<1> QED
  BY <1>1, <1>2, <1>4, <1>5 DEF AllUpToDate, Pending

\* A change of a pod becomes the last event about it.
LEMMA FollowPodInv ==
  ASSUME FollowInv, LogInv', NEW p \in Pod, PodChanges(p) PROVE FollowInv'
<1> USE DEF FollowInv
<1>1. PICK new \in PodState \ {pods[p]} :
        /\ pods' = [pods EXCEPT ![p] = new]
        /\ IF pc \in {"start", "missing", "open", "watching"}
           THEN events' = Append(events, <<p, new>>)
           ELSE UNCHANGED events
  BY DEF PodChanges
<1>2. UNCHANGED <<gone, pc, current, todo, cancels, stream, podOf, stopped, gaveUp>>
  BY DEF PodChanges, loopVars, tellVars, streamVars
<1>3. pods' = [pods EXCEPT ![p] = new] /\ pods \in [Pod -> PodState]
  BY <1>1 DEF LogInv, LogTypeOK
<1>4. CASE pc \in {"start", "missing", "open", "watching"}
  <2>1. events' = Append(events, <<p, new>>)
    BY <1>1, <1>4
  <2>2. events \in Seq(Pod \X PodState)
    BY DEF LogInv, LogTypeOK
  <2>3. /\ Len(events') = Len(events) + 1 /\ Len(events) \in Nat
        /\ \A i \in 1..Len(events) : events'[i] = events[i] /\ events[i] \in Pod \X PodState
        /\ events'[Len(events) + 1] = <<p, new>>
    <3> DEFINE E == Pod \X PodState
    <3>1. <<p, new>> \in E /\ events \in Seq(E)
      BY <2>2
    <3> HIDE DEF E
    <3>2. /\ Len(Append(events, <<p, new>>)) = Len(events) + 1 /\ Len(events) \in Nat
          /\ \A i \in 1..Len(events) :
                Append(events, <<p, new>>)[i] = events[i] /\ events[i] \in E
          /\ Append(events, <<p, new>>)[Len(events) + 1] = <<p, new>>
      BY <3>1
    <3> QED
      BY <2>1, <3>2 DEF E
  <2>4. LastIsTrue'
    <3>1. ASSUME NEW i \in 1..Len(events'),
                 \A j \in 1..Len(events') : j > i => events'[j][1] # events'[i][1]
          PROVE  events'[i][2] = pods'[events'[i][1]]
      <4>1. CASE i = Len(events) + 1
        BY <1>3, <2>3, <4>1
      <4>2. CASE i # Len(events) + 1
        <5>1. i \in 1..Len(events) /\ Len(events) + 1 \in 1..Len(events')
          BY <2>3, <4>2
        <5>2. events[i][1] # p /\ events[i][1] \in Pod
          BY <2>3, <3>1, <5>1
        <5>3. \A j \in 1..Len(events) : j > i => events[j][1] # events[i][1]
          BY <2>3, <3>1, <5>1
        <5> QED
          BY <1>3, <2>3, <5>1, <5>2, <5>3 DEF LastIsTrue
      <4> QED
        BY <4>1, <4>2
    <3> QED
      BY <1>2, <1>4, <3>1 DEF LastIsTrue
  <2>5. \A q \in Pod : ~Pending(q)' => q # p /\ ~Pending(q)
    BY <2>3 DEF Pending
  <2> QED
    BY <1>2, <1>3, <2>4, <2>5 DEF EndedByItself, AllUpToDate, UpToDate, Handled
<1>5. CASE pc \notin {"start", "missing", "open", "watching"}
  BY <1>1, <1>2, <1>5, EmptySeq
     DEF LastIsTrue, EndedByItself, AllUpToDate, UpToDate
<1> QED
  BY <1>4, <1>5

\* Steps of the loop without a stream: a list is up to date when it is made, and
\* stays so for the pods that nothing is said of since.
LEMMA FollowQuietInv ==
  ASSUME FollowInv, LogInv', Consume \/ Unsubscribe \/ LoopTells \/ LoopQuiet
  PROVE  FollowInv'
<1> USE DEF FollowInv, LoopQuiet, DeploymentAnswer
<1>1. UNCHANGED <<pods, cancels, stream, podOf, stopped, gaveUp>> /\ (gone => gone')
  BY DEF Consume, Unsubscribe, LoopTells, LoopReturns, PauseOver, AllStarted, CloseChannel,
         GotDeployment, TargetFails, ListPods, WatchOpens, RequestFails, WatchCloses, WatchError,
         Relists, clusterVars, streamVars
<1>2. EndedByItself'
  BY <1>1 DEF EndedByItself
<1>3. CASE Consume \/ Unsubscribe \/ LoopTells \/ WatchError
  <2>1. UNCHANGED <<events, pc, current, todo>>
    BY <1>3 DEF Consume, Unsubscribe, LoopTells, WatchError, clusterVars, loopVars
  <2> QED
    BY <1>1, <1>2, <2>1 DEF LastIsTrue, AllUpToDate, UpToDate, Pending, Handled
<1>4. CASE LoopReturns \/ PauseOver \/ CloseChannel \/ RequestFails \/ WatchCloses
           \/ GotDeployment \/ TargetFails
  <2>1. /\ pc' \in {"stopAll", "list", "closed", "pause", "wait"}
        /\ events' = <<>>
    BY <1>4 DEF LoopReturns, PauseOver, CloseChannel, RequestFails, WatchCloses, GotDeployment,
                TargetFails, Relists, LoopGoes, LoopAt, LastIsTrue, clusterVars
  <2> QED
    BY <1>2, <2>1 DEF LastIsTrue, AllUpToDate, UpToDate
<1>5. CASE AllStarted \/ WatchOpens \/ ListPods
  <2>1. LastIsTrue'
    BY <1>1, <1>5 DEF AllStarted, WatchOpens, ListPods, LoopGoes, LoopAt, LastIsTrue, clusterVars
  <2>2. CASE AllStarted \/ WatchOpens
    BY <1>1, <1>2, <2>1, <2>2
       DEF AllStarted, WatchOpens, LoopGoes, LoopAt, AllUpToDate, UpToDate, Pending, Handled,
           clusterVars, LogInv, LogTypeOK, LoopInOrder, PodState
  <2>3. CASE ListPods
    BY <1>1, <1>2, <2>1, <2>3 DEF ListPods, LoopGoes, LoopAt, AllUpToDate, UpToDate
  <2> QED
    BY <1>5, <2>2, <2>3
<1> QED
  BY <1>3, <1>4, <1>5

\* Starting and stopping bring the registry up to date with one pod more.
LEMMA FollowActsInv ==
  ASSUME FollowInv, LogInv',
         (\E p \in Pod : StartListed(p)) \/ StopMissing \/ StopAll \/ PodEvent
  PROVE  FollowInv'
<1> USE DEF FollowInv
<1>1. ASSUME NEW p \in Pod, Starts(p)
      PROVE  /\ cancels'[p] # NoStream
             /\ \A q \in Pod \ {p} : cancels'[q] = cancels[q] /\ (q \in gaveUp' <=> q \in gaveUp)
             /\ \A s \in Stream : stream'[s] = "returning" /\ s \notin stopped' =>
                   stream[s] = "returning" /\ s \notin stopped /\ podOf'[s] = podOf[s]
                   /\ (podOf[s] = p => gaveUp' = gaveUp)
  <2>1. CASE cancels[p] # NoStream
    BY <1>1, <2>1 DEF Starts, streamVars
  <2>2. CASE cancels[p] = NoStream
    <3>1. PICK s \in Free : /\ cancels' = [cancels EXCEPT ![p] = s]
                            /\ stream' = [stream EXCEPT ![s] = "reading"]
                            /\ podOf' = [podOf EXCEPT ![s] = p]
                            /\ gaveUp' = gaveUp \ {p}
                            /\ UNCHANGED stopped
      BY <1>1, <2>2 DEF Starts
    <3> QED
      BY <2>2, <3>1, NoStreamAssumption DEF Free, LogInv, LogTypeOK, Registered
  <2> QED
    BY <2>1, <2>2
<1>2. ASSUME NEW p \in Pod, Starts(p), UNCHANGED gone PROVE EndedByItself'
  BY <1>1, <1>2 DEF EndedByItself, LogInv, LogTypeOK, Registered
<1>3. ASSUME NEW ps \in SUBSET Pod, Stops(ps), UNCHANGED gone PROVE EndedByItself'
  BY <1>3 DEF Stops, EndedByItself
<1>4. ASSUME NEW p \in Pod, StartListed(p) PROVE FollowInv'
  <2>1. Starts(p) /\ UNCHANGED <<pods, events, gone, pc, current>> /\ pc = "start"
        /\ todo' = todo \ {p}
    BY <1>4 DEF StartListed, LoopAt, clusterVars
  <2>2. \A q \in Pod : UpToDate(q) => UpToDate(q)'
    BY <1>1, <2>1 DEF UpToDate, Handled
  <2> QED
    BY <1>2, <2>1, <2>2 DEF LastIsTrue, AllUpToDate, Pending
<1>5. CASE StopMissing
  <2>1. Stops(Missing) /\ UNCHANGED <<pods, events, gone, current, todo>>
        /\ pc = "missing" /\ pc' = "open" /\ Missing \in SUBSET Pod
    BY <1>5 DEF StopMissing, LoopGoes, LoopAt, clusterVars, Missing
  <2>2. \A q \in Pod : UpToDate(q) => UpToDate(q)'
    BY <2>1 DEF UpToDate, Handled, Stops, Missing
  <2> QED
    BY <1>3, <2>1, <2>2 DEF LastIsTrue, AllUpToDate, Pending
<1>6. CASE StopAll
  <2>1. gone /\ gone' /\ pc' = "wait" /\ UNCHANGED <<pods, events>> /\ events = <<>>
    BY <1>6 DEF StopAll, LoopGoes, LoopAt, clusterVars, LogInv, LoopInOrder, LastIsTrue
  <2> QED
    BY <2>1 DEF LastIsTrue, EndedByItself, AllUpToDate
<1>7. CASE PodEvent
  <2>1. /\ events # <<>> /\ events' = Tail(events) /\ pc = "watching"
        /\ UNCHANGED <<pods, gone, pc, current, todo, out>>
    BY <1>7 DEF PodEvent, LoopAt, loopVars
  <2> DEFINE p == events[1][1]
  <2>2. /\ Len(events) \in Nat \ {0} /\ Len(events') = Len(events) - 1
        /\ \A i \in 1..Len(events') : events'[i] = events[i + 1]
        /\ Head(events) = events[1]
        /\ \A i \in 1..Len(events) : events[i] \in Pod \X PodState
    <3> DEFINE E == Pod \X PodState
    <3>1. events \in Seq(E)
      BY DEF LogInv, LogTypeOK
    <3> HIDE DEF E
    <3>2. /\ Len(events) \in Nat \ {0} /\ Len(Tail(events)) = Len(events) - 1
          /\ \A i \in 1..Len(events) - 1 : Tail(events)[i] = events[i + 1]
          /\ Head(events) = events[1]
          /\ \A i \in 1..Len(events) : events[i] \in E
      BY <2>1, <3>1
    <3> QED
      BY <2>1, <3>2 DEF E
  <2>3. p \in Pod /\ events[1][2] \in PodState
    BY <2>2
  <2>4. IF events[1][2] = "alive" THEN Starts(p) ELSE Stops({p})
    BY <1>7, <2>2 DEF PodEvent
  <2>5. LastIsTrue'
    <3>1. ASSUME NEW i \in 1..Len(events'),
                 \A j \in 1..Len(events') : j > i => events'[j][1] # events'[i][1]
          PROVE  events'[i][2] = pods'[events'[i][1]]
      <4>1. i + 1 \in 1..Len(events) /\ events'[i] = events[i + 1]
        BY <2>2
      <4>2. ASSUME NEW j \in 1..Len(events), j > i + 1 PROVE events[j][1] # events[i + 1][1]
        <5>1. j - 1 \in 1..Len(events') /\ j - 1 > i /\ events'[j - 1] = events[j]
          BY <2>2, <4>1, <4>2
        <5> QED
          BY <3>1, <4>1, <5>1
      <4> QED
        BY <2>1, <4>1, <4>2 DEF LastIsTrue
    <3> QED
      BY <2>1, <3>1 DEF LastIsTrue
  <2>6. EndedByItself'
    BY <1>2, <1>3, <2>1, <2>3, <2>4
  <2>7. ASSUME NEW q \in Pod, ~Pending(q)', q # p PROVE ~Pending(q)
    <3>1. ASSUME NEW i \in 1..Len(events), events[i][1] = q PROVE FALSE
      <4>1. i - 1 \in 1..Len(events') /\ events'[i - 1] = events[i]
        BY <2>2, <2>7, <3>1
      <4> QED
        BY <2>7, <3>1, <4>1 DEF Pending
    <3> QED
      BY <3>1 DEF Pending
  <2>8. ASSUME NEW q \in Pod, ~Pending(q)', q = p PROVE pods[q] = events[1][2]
    <3>1. ASSUME NEW j \in 1..Len(events), j > 1 PROVE events[j][1] # q
      <4>1. j - 1 \in 1..Len(events') /\ events'[j - 1] = events[j]
        BY <2>2, <3>1
      <4> QED
        BY <2>8, <4>1 DEF Pending
    <3> QED
      BY <2>2, <2>8, <3>1 DEF LastIsTrue
  <2>9. ASSUME ~gone, NEW q \in Pod, ~Pending(q)' PROVE UpToDate(q)'
    <3>1. CASE q # p
      <4>1. UpToDate(q)
        BY <2>7, <2>9, <3>1 DEF AllUpToDate
      <4>2. cancels'[q] = cancels[q] /\ (q \in gaveUp' <=> q \in gaveUp)
        BY <1>1, <2>3, <2>4, <3>1 DEF Stops
      <4> QED
        BY <2>1, <4>1, <4>2 DEF UpToDate, Handled
    <3>2. CASE q = p
      <4>1. pods'[q] = events[1][2]
        BY <2>1, <2>8, <2>9, <3>2
      <4>2. events[1][2] = "alive" => cancels'[q] # NoStream
        BY <1>1, <2>4, <3>2
      <4>3. events[1][2] # "alive" => cancels'[q] = NoStream
        BY <2>4, <3>2 DEF Stops
      <4>4. pods'[q] = "alive" => cancels'[q] # NoStream
        BY <4>1, <4>2
      <4>5. pods'[q] = "absent" => cancels'[q] = NoStream
        BY <4>1, <4>3
      <4> QED
        BY <2>1, <4>4, <4>5 DEF UpToDate, Handled
    <3> QED
      BY <3>1, <3>2
  <2> QED
    BY <2>1, <2>5, <2>6, <2>9 DEF AllUpToDate
<1> QED
  BY <1>4, <1>5, <1>6, <1>7

\* Every step keeps it.
LEMMA FollowStepInv == FollowInv /\ [LogNext]_logVars => FollowInv'
<1> SUFFICES ASSUME FollowInv, [LogNext]_logVars PROVE FollowInv'
  OBVIOUS
<1>1. LogInv'
  BY LogStepInv DEF FollowInv
<1>2. CASE UNCHANGED logVars
  BY <1>1, <1>2 DEF logVars, clusterVars, loopVars, tellVars, streamVars, FollowInv, LastIsTrue,
                    EndedByItself, AllUpToDate, UpToDate, Pending, Handled
<1>3. CASE LogNext
  BY <1>1, <1>3, FollowStreamInv, FollowPodInv, FollowQuietInv, FollowActsInv
     DEF LogNext, LoopStep, LoopQuiet
<1> QED
  BY <1>2, <1>3

\* Once the loop has caught up with the watch, the pods that run are followed, but
\* those whose stream gave up, and none that is gone has an entry: whatever changed
\* between the list, the start of the streams and the watch (streamDeployment).
THEOREM CurrentPodsFollowed == LogSpec => []FollowsCurrentPods
<1>1. FollowInv => FollowsCurrentPods
  BY DEF FollowInv, AllUpToDate, UpToDate, Pending, Handled, FollowsCurrentPods
<1> QED
  BY <1>1, FollowInitInv, FollowStepInv, PTL DEF LogSpec
===============================================================================
