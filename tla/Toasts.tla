-------------------------------- MODULE Toasts --------------------------------
(***************************************************************************)
(* Errors of the backend on the page: browserLogHub (loghub.go) hands a    *)
(* log record to the channel of every page that is connected, and the page *)
(* (useBackendLogs.ts) shows the last messages, each with a count and a    *)
(* timer that takes it away.                                               *)
(*                                                                         *)
(* Any goroutine that logs an error publishes it: it copies the clients    *)
(* under the hub's mutex and sends after unlocking it, so that a page may  *)
(* leave, and another come, between the two. It does not wait for room.    *)
(* This module has one page at a time and its reconnections.               *)
(*                                                                         *)
(* Operators whose name begins with Bug are mutated forms of the operator  *)
(* that follows them: each shows that some property detects the fault.     *)
(***************************************************************************)
EXTENDS Naturals, Sequences, FiniteSets

CONSTANTS Message,      \* the texts of errors, which are the toasts' ids
          Logger,       \* goroutines that may log an error
          Chan, NoChan, \* channels; one is used again when nobody has it
          Cap,          \* capacity of a channel (32)
          MaxToasts,    \* toasts shown (5)
          MaxErrors     \* bound on the errors logged

ASSUME ToastsAssumption ==
  /\ NoChan \notin Chan
  /\ Cap \in Nat /\ MaxToasts \in Nat /\ MaxErrors \in Nat

VARIABLES clients,  \* h.clients
          queue,    \* queue[ch]: what is buffered in ch
          sending,  \* sending[g]: the message of g's publish, and its clients left
          chan,     \* the channel of the page's request
          page,     \* closed, connecting or open
          toasts,   \* logs of useBackendLogs
          timers,   \* ids in timersRef, each with its one armed timer
          errors    \* errors logged so far

hubVars == <<clients, queue, sending, errors>>
pageVars == <<page, chan, toasts, timers>>
vars == <<hubVars, pageVars>>

-----------------------------------------------------------------------------
Idle == [message |-> "", to |-> {}]

Init ==
  /\ clients = {}
  /\ queue = [ch \in Chan |-> <<>>]
  /\ sending = [g \in Logger |-> Idle]
  /\ chan = NoChan
  /\ page = "closed"
  /\ toasts = <<>>
  /\ timers = {}
  /\ errors = 0

-----------------------------------------------------------------------------
(* publish: the copy of the clients, then a send to each, in any order.    *)

Publish(g, m) ==
  /\ sending[g] = Idle
  /\ errors < MaxErrors /\ errors' = errors + 1
  /\ sending' = [sending EXCEPT ![g] = [message |-> m, to |-> clients]]
  /\ UNCHANGED <<clients, queue, pageVars>>

BugAccepts(ch) == Len(queue[ch]) < Cap
Accepts(ch) == TRUE

SendTo(g, ch) ==
  /\ ch \in sending[g].to
  /\ Accepts(ch)
  /\ queue' = IF Len(queue[ch]) < Cap
              THEN [queue EXCEPT ![ch] = Append(@, sending[g].message)] ELSE queue
  /\ sending' = [sending EXCEPT ![g].to = @ \ {ch}]
  /\ UNCHANGED <<clients, errors, pageVars>>

Published(g) ==
  /\ sending[g] # Idle /\ sending[g].to = {}
  /\ sending' = [sending EXCEPT ![g] = Idle]
  /\ UNCHANGED <<clients, queue, errors, pageVars>>

-----------------------------------------------------------------------------
(* The page and its EventSource.                                           *)

Opens ==
  /\ page = "closed"
  /\ page' = "connecting"
  /\ UNCHANGED <<hubVars, chan, toasts, timers>>

\* streamBackendLogs subscribes, after "connected", with a channel of its own.
Subscribe ==
  /\ page = "connecting"
  /\ page' = "open"
  /\ \E ch \in Chan \ clients :
       /\ \A g \in Logger : ch \notin sending[g].to
       /\ chan' = ch
       /\ clients' = clients \cup {ch}
       /\ queue' = [queue EXCEPT ![ch] = <<>>]
  /\ UNCHANGED <<sending, errors, toasts, timers>>

\* The request ends with the connection; a publish may still have its channel.
Unsubscribe ==
  /\ clients' = clients \ {chan}
  /\ chan' = NoChan
  /\ UNCHANGED <<queue, sending, errors>>

Interrupted ==
  /\ page = "open"
  /\ page' = "connecting"
  /\ Unsubscribe
  /\ UNCHANGED <<toasts, timers>>

\* The effect's cleanup; the state goes with the component.
Closes ==
  /\ page # "closed"
  /\ page' = "closed"
  /\ Unsubscribe
  /\ toasts' = <<>> /\ timers' = {}

-----------------------------------------------------------------------------
(* useBackendLogs.                                                         *)

Ids(ts) == {ts[i].id : i \in DOMAIN ts}
Without(ts, m) == SelectSeq(ts, LAMBDA t : t.id # m)
FirstOf(ts, n) == IF Len(ts) > n THEN SubSeq(ts, 1, n) ELSE ts

\* The newest message first. A repeated one counts on, and moves to the front.
CountOf(m) == IF m \in Ids(toasts)
              THEN (CHOOSE t \in {toasts[i] : i \in DOMAIN toasts} : t.id = m).count
              ELSE 0
WithMessage(m) ==
  FirstOf(<<[id |-> m, count |-> CountOf(m) + 1]>> \o Without(toasts, m), MaxToasts)

\* The timer of a repeated message starts again. One that is pushed out keeps its
\* timer, which finds nothing to remove.
BugTimersWith(m) == IF m \in timers THEN timers \ {m} ELSE timers \cup {m}
TimersWith(m) == timers \cup {m}

Receive ==
  /\ page = "open" /\ queue[chan] # <<>>
  /\ LET m == Head(queue[chan])
     IN  /\ toasts' = WithMessage(m)
         /\ timers' = TimersWith(m)
  /\ queue' = [queue EXCEPT ![chan] = Tail(@)]
  /\ UNCHANGED <<clients, sending, errors, page, chan>>

\* After 12 s, or when the user closes the toast.
TimerFires(m) ==
  /\ m \in timers
  /\ toasts' = Without(toasts, m)
  /\ timers' = timers \ {m}
  /\ UNCHANGED <<hubVars, page, chan>>

Dismiss(m) ==
  /\ m \in Ids(toasts)
  /\ toasts' = Without(toasts, m)
  /\ timers' = timers \ {m}
  /\ UNCHANGED <<hubVars, page, chan>>

-----------------------------------------------------------------------------
Next ==
  \/ \E g \in Logger :
       \/ \E m \in Message : Publish(g, m)
       \/ \E ch \in Chan : SendTo(g, ch)
       \/ Published(g)
  \/ Opens \/ Subscribe \/ Interrupted \/ Closes \/ Receive
  \/ \E m \in Message : TimerFires(m) \/ Dismiss(m)

\* Goroutines go on and timers fire. Nothing is assumed of the connection: a page
\* may stop reading with its channel full.
Fairness ==
  /\ \A g \in Logger : WF_vars(\E ch \in Chan : SendTo(g, ch)) /\ WF_vars(Published(g))
  /\ \A m \in Message : WF_vars(TimerFires(m))

Spec == Init /\ [][Next]_vars /\ Fairness

-----------------------------------------------------------------------------
\* When errors stop, their toasts go away and stay away.
ToastsEnd == <>[](toasts = <<>>) \/ []<><<Receive>>_vars

\* Logging an error never waits for a page: publish ends even if the page has stopped
\* reading, is gone, or comes back while the copy of the clients is used
\* (loghub.go:57-69).
LoggingEnds == \A g \in Logger : sending[g] # Idle ~> sending[g] = Idle
=============================================================================
