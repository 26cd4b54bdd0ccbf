------------------------------- MODULE EntryRun -------------------------------
(***************************************************************************)
(* What the life of a shared entry amounts to, for the code that runs      *)
(* inside it: at most one run, started for the first subscriber, told to   *)
(* stop only while nobody subscribes, and followed by another one when a   *)
(* subscriber came back before it had ended.                               *)
(*                                                                         *)
(* EntryLifecycle implements this module with stop channels, goroutines    *)
(* and timers; WatchEntry builds on it.                                    *)
(***************************************************************************)
EXTENDS FiniteSets

CONSTANT Client     \* subscriptions: one channel given to one SSE request

VARIABLES clients,  \* the subscribers
          phase,    \* where the only run is; "none" without one
          stopping, \* the run has been told to stop
          refused   \* the API server refused access when last asked

runVars == <<clients, phase, stopping, refused>>

\* "owed": some goroutine has promised to start the run; "live": inside the
\* loop of run(); "returning": it left the loop and has to report its end.
Phase == {"none", "owed", "live", "returning"}

RunTypeOK ==
    /\ clients \subseteq Client
    /\ phase \in Phase
    /\ stopping \in BOOLEAN
    /\ refused \in BOOLEAN

RunInit ==
    /\ clients = {}
    /\ phase = "none"
    /\ stopping = FALSE
    /\ refused = FALSE

Join(c) ==
    /\ c \notin clients
    /\ clients' = clients \cup {c}
    /\ phase' = IF phase = "none" THEN "owed" ELSE phase
    /\ UNCHANGED <<stopping, refused>>

Leave(c) ==
    /\ c \in clients
    /\ clients' = clients \ {c}
    /\ UNCHANGED <<phase, stopping, refused>>

Stop ==
    /\ clients = {}
    /\ phase # "none"
    /\ stopping' = TRUE
    /\ UNCHANGED <<clients, phase, refused>>

Start ==
    /\ phase = "owed"
    /\ phase' = "live"
    /\ UNCHANGED <<clients, stopping, refused>>

Listed ==
    /\ phase = "live"
    /\ refused' = FALSE
    /\ UNCHANGED <<clients, phase, stopping>>

Forbidden ==
    /\ phase = "live"
    /\ refused' = TRUE
    /\ phase' = "returning"
    /\ UNCHANGED <<clients, stopping>>

Stopped ==
    /\ phase = "live"
    /\ stopping
    /\ phase' = "returning"
    /\ UNCHANGED <<clients, stopping, refused>>

Ended ==
    /\ phase = "returning"
    /\ phase' = IF stopping /\ clients # {} THEN "owed" ELSE "none"
    /\ stopping' = FALSE
    /\ UNCHANGED <<clients, refused>>

RunNext ==
    \/ \E c \in Client : Join(c) \/ Leave(c)
    \/ Stop \/ Start \/ Listed \/ Forbidden \/ Stopped \/ Ended

RunSpec == RunInit /\ [][RunNext]_runVars

\* A run nobody listens to is told to stop; a run that is owed starts, one
\* that is told to stop returns, and one that returned reports its end.
FairRunSpec ==
    /\ RunSpec
    /\ WF_runVars(Stop)
    /\ WF_runVars(Start)
    /\ WF_runVars(Stopped)
    /\ WF_runVars(Ended)
=============================================================================
