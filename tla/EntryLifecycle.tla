---------------------------- MODULE EntryLifecycle ----------------------------
(***************************************************************************)
(* The life of one shared entry of kube-watch's backend: who subscribes    *)
(* to it, the goroutine that serves it, the channel that stops that        *)
(* goroutine and the timer that stops an entry nobody listens to.          *)
(* watchEntry (watchmgr.go) and helmEntry (helmmgr.go) hold the same code. *)
(*                                                                         *)
(* Each action is one critical section of e.mu, or one step of a           *)
(* goroutine or of the Go runtime between two of them.                     *)
(*                                                                         *)
(* Operators whose name begins with Bug are mutated forms of the operator  *)
(* that follows them: each shows that some property detects the fault.     *)
(***************************************************************************)
EXTENDS FiniteSets

CONSTANTS Client,   \* subscriptions: one channel given to one SSE request
          StopChan, \* stop channels, reused once nothing refers to them
          Timer,    \* time.AfterFunc objects, reused once they are done
          NoTimer   \* e.idle = nil

\* A run that is being replaced holds one channel and the entry the next one.
ASSUME StopChanAssumption == \E x, y \in StopChan : x # y
ASSUME NoTimerAssumption  == NoTimer \notin Timer

VARIABLES clients,  \* e.clients
          running,  \* e.running
          stopCh,   \* e.stopCh
          closed,   \* the stop channels that are closed
          run,      \* run[ch]: the goroutine that executes e.run(ch)
          refused,  \* e.terminalError # nil
          idle,     \* e.idle
          timer     \* timer[t]: state of the timer, whoever refers to it

lifeVars == <<clients, running, stopCh, closed, run, refused, idle, timer>>

\* "owed": addClient or markRunStopped said to start it, `go e.run` is ahead;
\* "live": inside run's loop; "returning": run left the loop, its deferred
\* markRunStopped is ahead.
RunState == {"none", "owed", "live", "returning"}

\* "fired": the callback's goroutine exists and waits for e.mu, where
\* Timer.Stop no longer reaches it.
TimerState == {"free", "armed", "fired"}

LifeTypeOK ==
    /\ clients \subseteq Client
    /\ running \in BOOLEAN
    /\ stopCh \in StopChan
    /\ closed \subseteq StopChan
    /\ run \in [StopChan -> RunState]
    /\ refused \in BOOLEAN
    /\ idle \in Timer \cup {NoTimer}
    /\ timer \in [Timer -> TimerState]

LifeInit ==
    /\ clients = {}
    /\ running = FALSE
    /\ stopCh \in StopChan
    /\ closed = {}
    /\ run = [ch \in StopChan |-> "none"]
    /\ refused = FALSE
    /\ idle = NoTimer
    /\ timer = [t \in Timer |-> "free"]

-----------------------------------------------------------------------------
\* The run that would be needed and is not there (addClient's test).
BugNeedsRunIfFirst == clients = {}
NeedsRun == ~running

\* Channels that make(chan struct{}) may return: no goroutine and no field
\* refers to them.
Unreferenced == {ch \in StopChan : ch # stopCh /\ run[ch] = "none"}

\* e.stopCh = make(chan struct{}); e.running = true; and the caller now has to
\* start a run. rest is the state of the goroutines beside the new one.
BeginRun(rest) ==
    \E ch \in Unreferenced :
        /\ stopCh' = ch
        /\ running' = TRUE
        /\ closed' = closed \ {ch}
        /\ run' = [rest EXCEPT ![ch] = "owed"]

\* e.idle.Stop() keeps an armed timer from firing; a fired one stays fired.
IdleStopped == IF idle # NoTimer /\ timer[idle] = "armed"
               THEN [timer EXCEPT ![idle] = "free"]
               ELSE timer

AddClient(c) ==
    /\ c \notin clients
    /\ clients' = clients \cup {c}
    /\ timer' = IdleStopped
    /\ idle' = NoTimer
    /\ IF NeedsRun THEN BeginRun(run)
                   ELSE UNCHANGED <<running, stopCh, closed, run>>
    /\ UNCHANGED refused

\* The last subscriber that leaves arms the idle timer (30 s).
RemoveClient(c) ==
    /\ c \in clients
    /\ clients' = clients \ {c}
    /\ IF clients' = {}
       THEN \E t \in {u \in Timer : timer[u] = "free"} :
                /\ idle' = t
                /\ timer' = [timer EXCEPT ![t] = "armed"]
       ELSE UNCHANGED <<idle, timer>>
    /\ UNCHANGED <<running, stopCh, closed, run, refused>>

TimerFires(t) ==
    /\ timer[t] = "armed"
    /\ timer' = [timer EXCEPT ![t] = "fired"]
    /\ UNCHANGED <<clients, running, stopCh, closed, run, refused, idle>>

\* stopIfIdle's and stopLocked's tests (closing twice is a no-op).
BugUnwantedIfLatest(t) == idle = t /\ clients = {} /\ running
BugUnwantedAlways(t) == running
Unwanted(t) == clients = {} /\ running

\* The callback. It does not look whether it still is the timer e.idle names,
\* so it may be the callback of a timer that addClient came too late to stop.
StopIfIdle(t) ==
    /\ timer[t] = "fired"
    /\ timer' = [timer EXCEPT ![t] = "free"]
    /\ idle' = NoTimer
    /\ closed' = IF Unwanted(t) THEN closed \cup {stopCh} ELSE closed
    /\ UNCHANGED <<clients, running, stopCh, run, refused>>

GoRun(ch) ==
    /\ run[ch] = "owed"
    /\ run' = [run EXCEPT ![ch] = "live"]
    /\ UNCHANGED <<clients, running, stopCh, closed, refused, idle, timer>>

\* A list succeeded: clearTerminalError.
RunListed(ch) ==
    /\ run[ch] = "live"
    /\ refused' = FALSE
    /\ UNCHANGED <<clients, running, stopCh, closed, run, idle, timer>>

\* A list or a watch was forbidden: setTerminalError, then the run returns
\* whatever the state of its stop channel.
RunForbidden(ch) ==
    /\ run[ch] = "live"
    /\ refused' = TRUE
    /\ run' = [run EXCEPT ![ch] = "returning"]
    /\ UNCHANGED <<clients, running, stopCh, closed, idle, timer>>

\* One of the loop's selects received from the closed stop channel.
RunStops(ch) ==
    /\ run[ch] = "live"
    /\ ch \in closed
    /\ run' = [run EXCEPT ![ch] = "returning"]
    /\ UNCHANGED <<clients, running, stopCh, closed, refused, idle, timer>>

\* markRunStopped's test for another run.
BugRestartsNever(ch) == FALSE
BugRestartsAnyway(ch) == ch \in closed
Restarts(ch) == clients # {} /\ ch \in closed

\* The deferred call: a run that was told to stop while a subscriber came back
\* is followed by another one.
MarkRunStopped(ch) ==
    /\ run[ch] = "returning"
    /\ LET ended == [run EXCEPT ![ch] = "none"]
       IN  IF stopCh # ch
           THEN run' = ended /\ UNCHANGED <<running, stopCh, closed>>
           ELSE IF Restarts(ch)
           THEN BeginRun(ended)
           ELSE /\ running' = FALSE
                /\ run' = ended
                /\ UNCHANGED <<stopCh, closed>>
    /\ UNCHANGED <<clients, refused, idle, timer>>

LifeNext ==
    \/ \E c \in Client : AddClient(c) \/ RemoveClient(c)
    \/ \E t \in Timer : TimerFires(t) \/ StopIfIdle(t)
    \/ \E ch \in StopChan :
         \/ GoRun(ch)
         \/ RunListed(ch)
         \/ RunForbidden(ch)
         \/ RunStops(ch)
         \/ MarkRunStopped(ch)

LifeSpec == LifeInit /\ [][LifeNext]_lifeVars

\* Goroutines that are ready are scheduled, timers expire, and a select that
\* can receive from a closed channel does. Subscribers come and go as they
\* like; what the API server answers is open.
LifeFairness ==
    /\ \A t \in Timer : WF_lifeVars(TimerFires(t)) /\ WF_lifeVars(StopIfIdle(t))
    /\ \A ch \in StopChan : /\ WF_lifeVars(GoRun(ch))
                            /\ WF_lifeVars(RunStops(ch))
                            /\ WF_lifeVars(MarkRunStopped(ch))

FairLifeSpec == LifeSpec /\ LifeFairness

-----------------------------------------------------------------------------
\* The entry has a run exactly when e.running says so, and that run is the
\* only one and holds e.stopCh. run() reads and writes e.lastRV without e.mu,
\* and this is why it may; it also makes the `e.stopCh != stopCh` return of
\* markRunStopped unreachable.
OneRun == \A ch \in StopChan : run[ch] # "none" <=> (running /\ ch = stopCh)

\* A subscriber is on an entry without a run only if the API server refused
\* access: no interleaving of subscribe, unsubscribe, the idle timer and the
\* end of a stopped run strands it (addClient and markRunStopped hand the
\* duty to start the run to each other).
NeverStranded == clients # {} /\ ~running => refused

\* A run that nobody listens to and that was not told to stop has a timer
\* ahead that will tell it, whichever of the overlapping timers it is.
IdleRunHasTimer ==
    (clients = {} /\ running /\ stopCh \notin closed)
        => \E t \in Timer : timer[t] # "free"

\* An entry without subscribers comes to rest, unless one subscribes.
IdleEntryStops == clients = {} ~> (~running \/ clients # {})

\* Subscribers of an entry are served by a run that has not been told to stop,
\* unless they leave or the API server refuses access.
SubscribersServed ==
    clients # {} ~> \/ clients = {}
                    \/ refused
                    \/ running /\ stopCh \notin closed /\ run[stopCh] = "live"

-----------------------------------------------------------------------------
\* The entry keeps the promise of EntryRun, under which the code inside a run
\* is modelled: the phase is that of the goroutine that holds e.stopCh, and the
\* run is stopping when that channel is closed.
Promise == INSTANCE EntryRun WITH phase <- run[stopCh],
                                  stopping <- running /\ stopCh \in closed

KeepsPromise == Promise!FairRunSpec
=============================================================================
