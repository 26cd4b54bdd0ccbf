------------------------- MODULE EntryLifecycleProofs -------------------------
(***************************************************************************)
(* Proofs about EntryLifecycle for any sets of subscribers, stop channels  *)
(* and timers. LifeInv is inductive as it stands: OneRun says which        *)
(* goroutine and which channel belong together, and the other conjuncts    *)
(* need no more than that.                                                 *)
(***************************************************************************)
EXTENDS EntryLifecycle, TLAPS

\* A run that returns was told to stop or was refused access: this is what
\* makes NeverStranded inductive.
ReturnedForCause ==
    \A ch \in StopChan : run[ch] = "returning" => ch \in closed \/ refused

LifeInv == LifeTypeOK /\ OneRun /\ ReturnedForCause /\ NeverStranded /\ IdleRunHasTimer

-----------------------------------------------------------------------------
\* The entry starts with every conjunct of the invariant (newEntry).
LEMMA LifeInitInv == LifeInit => LifeInv
  BY DEF LifeInit, LifeInv, LifeTypeOK, OneRun, ReturnedForCause, NeverStranded,
         IdleRunHasTimer, RunState, TimerState

\* addClient keeps the invariant: it starts a run exactly when there is none.
LEMMA AddClientInv ==
  ASSUME LifeInv, NEW c \in Client, AddClient(c) PROVE LifeInv'
<1> USE DEF LifeInv
<1>1. CASE running
  <2>1. UNCHANGED <<running, stopCh, closed, run, refused>>
    BY <1>1 DEF AddClient, NeedsRun
  <2>2. LifeTypeOK'
    BY <2>1 DEF AddClient, LifeTypeOK, IdleStopped, TimerState
  <2> QED
    BY <1>1, <2>1, <2>2
       DEF AddClient, OneRun, ReturnedForCause, NeverStranded, IdleRunHasTimer
<1>2. CASE ~running
  <2>1. PICK ch \in Unreferenced : /\ stopCh' = ch
                                   /\ running' = TRUE
                                   /\ closed' = closed \ {ch}
                                   /\ run' = [run EXCEPT ![ch] = "owed"]
    BY <1>2 DEF AddClient, NeedsRun, BeginRun
  <2>2. LifeTypeOK'
    BY <2>1 DEF AddClient, LifeTypeOK, IdleStopped, TimerState, RunState, Unreferenced
  <2>3. \A x \in StopChan : run[x] = "none"
    BY <1>2 DEF OneRun
  <2>4. OneRun' /\ ReturnedForCause'
    BY <2>1, <2>3 DEF OneRun, ReturnedForCause, LifeTypeOK, Unreferenced
  <2> QED
    BY <2>1, <2>2, <2>4 DEF AddClient, NeverStranded, IdleRunHasTimer
<1> QED
  BY <1>1, <1>2 DEF LifeTypeOK

\* removeClient keeps it: the last subscriber leaves a timer behind.
LEMMA RemoveClientInv ==
  ASSUME LifeInv, NEW c \in Client, RemoveClient(c) PROVE LifeInv'
<1> USE DEF LifeInv
<1>1. UNCHANGED <<running, stopCh, closed, run, refused>>
  BY DEF RemoveClient
<1>2. CASE clients' = {}
  <2>1. PICK t \in Timer : idle' = t /\ timer' = [timer EXCEPT ![t] = "armed"]
    BY <1>2 DEF RemoveClient
  <2> QED
    BY <1>1, <1>2, <2>1
       DEF RemoveClient, LifeTypeOK, TimerState, OneRun, ReturnedForCause,
           NeverStranded, IdleRunHasTimer
<1>3. CASE clients' # {}
  BY <1>1, <1>3
     DEF RemoveClient, LifeTypeOK, OneRun, ReturnedForCause, NeverStranded, IdleRunHasTimer
<1> QED
  BY <1>2, <1>3

\* The idle timers keep it: a callback that leaves no timer behind either
\* found a subscriber or closed the stop channel.
LEMMA TimerInv ==
  ASSUME LifeInv, NEW t \in Timer, TimerFires(t) \/ StopIfIdle(t) PROVE LifeInv'
<1> USE DEF LifeInv
<1>1. CASE TimerFires(t)
  BY <1>1 DEF TimerFires, LifeTypeOK, TimerState, OneRun, ReturnedForCause,
              NeverStranded, IdleRunHasTimer
<1>2. CASE StopIfIdle(t)
  <2>1. LifeTypeOK'
    BY <1>2 DEF StopIfIdle, Unwanted, LifeTypeOK, TimerState
  <2>2. OneRun' /\ ReturnedForCause' /\ NeverStranded'
    BY <1>2 DEF StopIfIdle, Unwanted, OneRun, ReturnedForCause, NeverStranded
  <2>3. IdleRunHasTimer'
    BY <1>2 DEF StopIfIdle, Unwanted, IdleRunHasTimer
  <2> QED
    BY <2>1, <2>2, <2>3
<1> QED
  BY <1>1, <1>2

\* The steps of the run before it reports its end keep it.
LEMMA RunStepInv ==
  ASSUME LifeInv, NEW ch \in StopChan,
         GoRun(ch) \/ RunListed(ch) \/ RunForbidden(ch) \/ RunStops(ch)
  PROVE  LifeInv'
<1> USE DEF LifeInv
<1>1. ch = stopCh /\ running /\ UNCHANGED <<clients, running, stopCh, closed, timer, idle>>
  BY DEF GoRun, RunListed, RunForbidden, RunStops, OneRun
<1>2. CASE GoRun(ch)
  BY <1>1, <1>2 DEF GoRun, LifeTypeOK, RunState, OneRun, ReturnedForCause,
                    NeverStranded, IdleRunHasTimer
<1>3. CASE RunListed(ch)
  <2>1. \A x \in StopChan : run[x] # "returning"
    BY <1>1, <1>3 DEF RunListed, OneRun
  <2>2. LifeTypeOK'
    BY <1>3 DEF RunListed, LifeTypeOK
  <2>3. OneRun' /\ ReturnedForCause' /\ NeverStranded'
    BY <1>1, <1>3, <2>1 DEF RunListed, OneRun, ReturnedForCause, NeverStranded
  <2>4. IdleRunHasTimer'
    BY <1>3 DEF RunListed, IdleRunHasTimer
  <2> QED
    BY <2>2, <2>3, <2>4
<1>4. CASE RunForbidden(ch)
  BY <1>1, <1>4 DEF RunForbidden, LifeTypeOK, RunState, OneRun, ReturnedForCause,
                    NeverStranded, IdleRunHasTimer
<1>5. CASE RunStops(ch)
  BY <1>1, <1>5 DEF RunStops, LifeTypeOK, RunState, OneRun, ReturnedForCause,
                    NeverStranded, IdleRunHasTimer
<1> QED
  BY <1>2, <1>3, <1>4, <1>5

\* markRunStopped keeps it: without a restart nobody subscribes, or access was
\* refused.
LEMMA MarkRunStoppedInv ==
  ASSUME LifeInv, NEW ch \in StopChan, MarkRunStopped(ch) PROVE LifeInv'
<1> USE DEF LifeInv
<1> DEFINE ended == [run EXCEPT ![ch] = "none"]
<1>1. run[ch] = "returning" /\ ch = stopCh /\ running /\ (ch \in closed \/ refused)
  BY DEF MarkRunStopped, OneRun, ReturnedForCause
<1>2. UNCHANGED <<clients, refused, idle, timer>>
  BY DEF MarkRunStopped
<1>3. \A x \in StopChan : ended[x] = "none"
  BY <1>1 DEF OneRun, LifeTypeOK
<1>4. CASE Restarts(ch)
  <2>1. PICK n \in Unreferenced : /\ stopCh' = n
                                  /\ running' = TRUE
                                  /\ closed' = closed \ {n}
                                  /\ run' = [ended EXCEPT ![n] = "owed"]
    BY <1>1, <1>4 DEF MarkRunStopped, BeginRun
  <2>2. LifeTypeOK'
    BY <1>2, <2>1 DEF LifeTypeOK, RunState, Unreferenced
  <2>3. OneRun' /\ ReturnedForCause'
    BY <1>2, <1>3, <2>1 DEF OneRun, ReturnedForCause, LifeTypeOK, Unreferenced
  <2> QED
    BY <1>2, <1>4, <2>1, <2>2, <2>3 DEF NeverStranded, IdleRunHasTimer, Restarts
<1>5. CASE ~Restarts(ch)
  <2>1. running' = FALSE /\ run' = ended /\ UNCHANGED <<stopCh, closed>>
    BY <1>1, <1>5 DEF MarkRunStopped
  <2>2. LifeTypeOK'
    BY <1>2, <2>1 DEF LifeTypeOK, RunState
  <2>3. OneRun' /\ ReturnedForCause'
    BY <1>2, <1>3, <2>1 DEF OneRun, ReturnedForCause
  <2> QED
    BY <1>1, <1>2, <1>5, <2>1, <2>2, <2>3 DEF NeverStranded, IdleRunHasTimer, Restarts
<1> QED
  BY <1>4, <1>5

\* Every step keeps the invariant.
LEMMA LifeNextInv == LifeInv /\ [LifeNext]_lifeVars => LifeInv'
<1> SUFFICES ASSUME LifeInv, [LifeNext]_lifeVars PROVE LifeInv'
  OBVIOUS
<1>1. CASE UNCHANGED lifeVars
  BY <1>1 DEF lifeVars, LifeInv, LifeTypeOK, OneRun, ReturnedForCause,
              NeverStranded, IdleRunHasTimer
<1>2. CASE \E c \in Client : AddClient(c) \/ RemoveClient(c)
  BY <1>2, AddClientInv, RemoveClientInv
<1>3. CASE \E t \in Timer : TimerFires(t) \/ StopIfIdle(t)
  BY <1>3, TimerInv
<1>4. CASE \E ch \in StopChan : GoRun(ch) \/ RunListed(ch) \/ RunForbidden(ch) \/ RunStops(ch)
  BY <1>4, RunStepInv
<1>5. CASE \E ch \in StopChan : MarkRunStopped(ch)
  BY <1>5, MarkRunStoppedInv
<1> QED
  BY <1>1, <1>2, <1>3, <1>4, <1>5 DEF LifeNext

\* The inductive invariant holds throughout.
THEOREM LifeInvariant == LifeSpec => []LifeInv
  BY LifeInitInv, LifeNextInv, PTL DEF LifeSpec

-----------------------------------------------------------------------------
\* Every field of the entry keeps to its type (watchEntry, helmEntry).
THEOREM LifeTypeCorrect == LifeSpec => []LifeTypeOK
  BY LifeInvariant, PTL DEF LifeInv

\* At most one goroutine executes run(), so that the fields it uses without
\* e.mu (lastRV) have one user.
THEOREM AtMostOneRun == LifeSpec => []OneRun
  BY LifeInvariant, PTL DEF LifeInv

\* No subscriber is left on an entry without a run unless access was refused.
THEOREM NoSubscriberStranded == LifeSpec => []NeverStranded
  BY LifeInvariant, PTL DEF LifeInv

\* An entry without subscribers keeps no run that nothing will stop.
THEOREM NoRunLeaks == LifeSpec => []IdleRunHasTimer
  BY LifeInvariant, PTL DEF LifeInv

-----------------------------------------------------------------------------
\* addClient is Join: it owes a run exactly when there is none.
LEMMA AddClientIsJoin ==
  ASSUME LifeInv, NEW c \in Client, AddClient(c) PROVE Promise!Join(c)
<1>1. c \notin clients /\ clients' = clients \cup {c} /\ refused' = refused
  BY DEF AddClient
<1>2. CASE running
  <2>1. run[stopCh] # "none" /\ UNCHANGED <<running, stopCh, closed, run>>
    BY <1>2 DEF AddClient, NeedsRun, LifeInv, LifeTypeOK, OneRun
  <2> QED
    BY <1>1, <2>1 DEF Promise!Join
<1>3. CASE ~running
  <2>1. PICK ch \in Unreferenced : /\ stopCh' = ch
                                   /\ running' = TRUE
                                   /\ closed' = closed \ {ch}
                                   /\ run' = [run EXCEPT ![ch] = "owed"]
    BY <1>3 DEF AddClient, NeedsRun, BeginRun
  <2>2. run[stopCh] = "none" /\ run'[stopCh'] = "owed" /\ stopCh' \notin closed'
    BY <1>3, <2>1 DEF LifeInv, LifeTypeOK, OneRun, Unreferenced
  <2> QED
    BY <1>1, <1>3, <2>2 DEF Promise!Join
<1> QED
  BY <1>2, <1>3 DEF LifeInv, LifeTypeOK

\* removeClient is Leave, whatever it does with the timers.
LEMMA RemoveClientIsLeave ==
  ASSUME NEW c \in Client, RemoveClient(c) PROVE Promise!Leave(c)
  BY DEF RemoveClient, Promise!Leave

\* A timer's callback that closes the stop channel is Stop, and any other step
\* of a timer is no step of the promise.
LEMMA TimerIsStop ==
  ASSUME LifeInv, NEW t \in Timer, TimerFires(t) \/ StopIfIdle(t)
  PROVE  Promise!Stop \/ UNCHANGED Promise!runVars
<1>1. CASE TimerFires(t)
  BY <1>1 DEF TimerFires, Promise!runVars
<1>2. CASE StopIfIdle(t) /\ Unwanted(t)
  <2>1. run[stopCh] # "none"
    BY <1>2 DEF Unwanted, LifeInv, LifeTypeOK, OneRun
  <2> QED
    BY <1>2, <2>1 DEF StopIfIdle, Unwanted, Promise!Stop
<1>3. CASE StopIfIdle(t) /\ ~Unwanted(t)
  BY <1>3 DEF StopIfIdle, Promise!runVars
<1> QED
  BY <1>1, <1>2, <1>3

\* The steps of the only run are the steps of the promise's run.
LEMMA RunStepIsRunStep ==
  ASSUME LifeInv, NEW ch \in StopChan,
         GoRun(ch) \/ RunListed(ch) \/ RunForbidden(ch) \/ RunStops(ch)
  PROVE  Promise!Start \/ Promise!Listed \/ Promise!Forbidden \/ Promise!Stopped
<1>1. ch = stopCh /\ running
  BY DEF GoRun, RunListed, RunForbidden, RunStops, LifeInv, OneRun
<1>2. CASE GoRun(ch)
  BY <1>1, <1>2 DEF GoRun, LifeInv, LifeTypeOK, Promise!Start
<1>3. CASE RunListed(ch)
  BY <1>1, <1>3 DEF RunListed, Promise!Listed
<1>4. CASE RunForbidden(ch)
  BY <1>1, <1>4 DEF RunForbidden, LifeInv, LifeTypeOK, Promise!Forbidden
<1>5. CASE RunStops(ch)
  BY <1>1, <1>5 DEF RunStops, LifeInv, LifeTypeOK, Promise!Stopped
<1> QED
  BY <1>2, <1>3, <1>4, <1>5

\* markRunStopped is Ended.
LEMMA MarkRunStoppedIsEnded ==
  ASSUME LifeInv, NEW ch \in StopChan, MarkRunStopped(ch) PROVE Promise!Ended
<1> DEFINE ended == [run EXCEPT ![ch] = "none"]
<1>1. run[ch] = "returning" /\ ch = stopCh /\ running
  BY DEF MarkRunStopped, LifeInv, OneRun
<1>2. UNCHANGED <<clients, refused>>
  BY DEF MarkRunStopped
<1>3. CASE Restarts(ch)
  <2>1. PICK n \in Unreferenced : /\ stopCh' = n
                                  /\ closed' = closed \ {n}
                                  /\ run' = [ended EXCEPT ![n] = "owed"]
    BY <1>1, <1>3 DEF MarkRunStopped, BeginRun
  <2>2. run'[stopCh'] = "owed" /\ stopCh' \notin closed'
    BY <2>1 DEF LifeInv, LifeTypeOK, Unreferenced
  <2> QED
    BY <1>1, <1>2, <1>3, <2>2 DEF Restarts, Promise!Ended
<1>4. CASE ~Restarts(ch)
  <2>1. running' = FALSE /\ run' = ended /\ UNCHANGED <<stopCh, closed>>
    BY <1>1, <1>4 DEF MarkRunStopped
  <2>2. run'[stopCh'] = "none"
    BY <1>1, <2>1 DEF LifeInv, LifeTypeOK
  <2> QED
    BY <1>1, <1>2, <1>4, <2>1, <2>2 DEF Restarts, Promise!Ended
<1> QED
  BY <1>3, <1>4

\* Every step of an entry is a step of its promise or none.
LEMMA LifeNextIsRunNext ==
  LifeInv /\ [LifeNext]_lifeVars => [Promise!RunNext]_(Promise!runVars)
<1> SUFFICES ASSUME LifeInv, [LifeNext]_lifeVars
             PROVE  [Promise!RunNext]_(Promise!runVars)
  OBVIOUS
<1>1. CASE UNCHANGED lifeVars
  BY <1>1 DEF lifeVars, Promise!runVars
<1>2. CASE \E c \in Client : AddClient(c) \/ RemoveClient(c)
  BY <1>2, AddClientIsJoin, RemoveClientIsLeave DEF Promise!RunNext
<1>3. CASE \E t \in Timer : TimerFires(t) \/ StopIfIdle(t)
  BY <1>3, TimerIsStop DEF Promise!RunNext
<1>4. CASE \E ch \in StopChan : GoRun(ch) \/ RunListed(ch) \/ RunForbidden(ch) \/ RunStops(ch)
  BY <1>4, RunStepIsRunStep DEF Promise!RunNext
<1>5. CASE \E ch \in StopChan : MarkRunStopped(ch)
  BY <1>5, MarkRunStoppedIsEnded DEF Promise!RunNext
<1> QED
  BY <1>1, <1>2, <1>3, <1>4, <1>5 DEF LifeNext

\* The entry with its channels, goroutines and timers implements EntryRun: the
\* properties of the code inside a run may be shown on top of that module.
\* (The fairness of the promise is left to TLC.)
THEOREM LifecycleImplementsRun == LifeSpec => Promise!RunSpec
<1>1. LifeInit => Promise!RunInit
  BY DEF LifeInit, Promise!RunInit
<1> QED
  BY <1>1, LifeInvariant, LifeNextIsRunNext, PTL DEF LifeSpec, Promise!RunSpec
=============================================================================
