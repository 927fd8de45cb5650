--------------------------- MODULE ServiceManager ---------------------------
(* pkg/service: the manager that creates, initialises, starts and stops the    *)
(* services of a process, here those of the broker, with the goroutine of each *)
(* service, the events that the event service delivers to them, and the        *)
(* signal that ends the process.                                              *)
(*                                                                           *)
(* A service with a goroutine waits in a select for an event or for the order *)
(* to quit, both on unbuffered channels; its Stop sends the order, waits for   *)
(* the goroutine and closes the channels.  Sending on a closed channel panics. *)
EXTENDS Naturals, Sequences, FiniteSets, Functions

CONSTANTS
    Notifiers,          \* MQTT sessions, which notify events
    RemoteEvents,       \* bound: events that come from other brokers
    MaxSignals,         \* bound: signals that the process gets
    MetricConfigured    \* the configuration names services for the metric service

VARIABLES
    main,       \* RunAndWait: [at, i]
    handler,    \* signalHandler: [at, i]
    loop,       \* goroutine of a service
    closed,     \* services whose event channel is closed
    started,    \* services whose Start has returned
    session,    \* what an MQTT session is doing
    deliver,    \* who delivers which event: services that still get it
    remote,     \* events of other brokers so far
    signals,    \* signals so far
    accepted,   \* history: the handler has received a signal
    panicked    \* which goroutine has panicked, which ends the process, or "none"

managerVars == <<main, handler, loop, closed, started, session, deliver,
                 remote, signals, accepted, panicked>>

Services == <<"event", "queue", "sessionmgr", "auth", "rpc", "metric",
              "metadata", "quto", "mqtt", "http">>

\* The services that have a goroutine with a channel to quit.
Loops == {"event", "sessionmgr", "auth", "metadata", "quto"}
             \cup (IF MetricConfigured THEN {"metric"} ELSE {})

Quitters == {"event", "sessionmgr", "auth", "metadata", "quto", "metric"}

Subscribers == [lifecycle |-> <<"sessionmgr", "metadata">>,
                authChange |-> <<"auth">>, quotaChange |-> <<"quto">>]

\* Nobody notifies a change of permissions or quotas, and Decode refuses them.
Kinds == {"lifecycle"}

\* The two goroutines that deliver events: the one of the event service and the
\* one of its Kafka consumer.
Deliverers == {"local", "remote"}

ManagerInit ==
    /\ main = [at |-> "new", i |-> 1]
    /\ handler = [at |-> "absent", i |-> 1]
    /\ loop = [s \in Range(Services) |-> "none"]
    /\ closed = {} /\ started = {}
    /\ session = [c \in Notifiers |-> "idle"]
    /\ deliver = [d \in Deliverers |-> <<>>]
    /\ remote = 0 /\ signals = 0
    /\ accepted = FALSE /\ panicked = "none"

Alive == main.at \notin {"returned", "failed"} /\ panicked = "none"

-----------------------------------------------------------------------------
(* Start: all services are created, then all initialised, then all started.    *)

NextPhase(at) == CASE at = "new" -> "init" [] at = "init" -> "start" [] at = "start" -> "wait"

\* One call of New, Initialize or Start.
Launch ==
    LET s == Services[main.i] IN
    /\ Alive /\ main.at \in {"new", "init", "start"}
    /\ main' = IF main.i < Len(Services) THEN [main EXCEPT !.i = @ + 1]
               ELSE [at |-> NextPhase(main.at), i |-> 1]
    /\ IF main.at = "start"
       THEN /\ started' = started \cup {s}
            /\ loop' = [loop EXCEPT ![s] = IF s \in Loops THEN "select" ELSE @]
       ELSE UNCHANGED <<started, loop>>
    /\ handler' = IF main'.at = "wait" THEN [handler EXCEPT !.at = "select"] ELSE handler
    /\ UNCHANGED <<closed, session, deliver, remote, signals, accepted, panicked>>

\* RunAndWait returns the error and the process ends.
LaunchFails ==
    /\ Alive /\ main.at \in {"new", "init", "start"}
    /\ main' = [main EXCEPT !.at = "failed"]
    /\ UNCHANGED <<handler, loop, closed, started, session, deliver, remote, signals, accepted, panicked>>

-----------------------------------------------------------------------------
(* Events.                                                                    *)

\* Notify: a session waits until the event service takes the event.
Notify(c) ==
    /\ Alive /\ "mqtt" \in started /\ session[c] = "idle"
    /\ IF "event" \in closed
       THEN panicked' = "session" /\ UNCHANGED session
       ELSE session' = [session EXCEPT ![c] = "notify"] /\ UNCHANGED panicked
    /\ UNCHANGED <<main, handler, loop, closed, started, deliver, remote, signals, accepted>>

\* A service subscribes when it starts, in the order of the list: the ones that
\* have started are the first of it.
SubscribersOf(kind) ==
    LET subscribed == {s \in Range(Subscribers[kind]) : s \in started}
    IN  SubSeq(Subscribers[kind], 1, Cardinality(subscribed))

TakeLocal(c, kind) ==
    /\ Alive /\ session[c] = "notify" /\ loop["event"] = "select"
    /\ session' = [session EXCEPT ![c] = "idle"]
    /\ loop' = [loop EXCEPT !["event"] = "busy"]
    /\ deliver' = [deliver EXCEPT !["local"] = SubscribersOf(kind)]
    /\ UNCHANGED <<main, handler, closed, started, remote, signals, accepted, panicked>>

\* messageHandlerFunc, on the goroutine of the consumer, which Close ends.
TakeRemote(kind) ==
    /\ Alive /\ "event" \in started /\ "event" \notin closed
    /\ remote < RemoteEvents /\ deliver["remote"] = <<>>
    /\ remote' = remote + 1
    /\ deliver' = [deliver EXCEPT !["remote"] = SubscribersOf(kind)]
    /\ UNCHANGED <<main, handler, loop, closed, started, session, signals, accepted, panicked>>

\* The callback of a service sends the event to its goroutine.
Deliver(d) ==
    /\ Alive /\ deliver[d] # <<>>
    /\ LET s == Head(deliver[d]) IN
       \/ /\ s \in closed
          /\ panicked' = "deliverer"
          /\ UNCHANGED <<deliver, loop>>
       \/ /\ s \notin closed /\ loop[s] = "select"
          /\ loop' = [loop EXCEPT ![s] = "busy"]
          /\ deliver' = [deliver EXCEPT ![d] = Tail(@)]
          /\ UNCHANGED panicked
    /\ UNCHANGED <<main, handler, closed, started, session, remote, signals, accepted>>

\* A service has handled its event, the event service has delivered it to all
\* and published it.
Handled(s) ==
    /\ Alive /\ loop[s] = "busy"
    /\ s = "event" => deliver["local"] = <<>>
    /\ loop' = [loop EXCEPT ![s] = "select"]
    /\ UNCHANGED <<main, handler, closed, started, session, deliver, remote, signals, accepted, panicked>>

\* onTopicPublish waits for a session that does not come back to its select: the
\* circular wait of Broker, or a client that does not read.
HandlesForever ==
    /\ Alive /\ "mqtt" \in started /\ loop["sessionmgr"] = "busy"
    /\ loop' = [loop EXCEPT !["sessionmgr"] = "stuck"]
    /\ UNCHANGED <<main, handler, closed, started, session, deliver, remote, signals, accepted, panicked>>

-----------------------------------------------------------------------------
(* Stop.                                                                      *)

\* The signal channel has no buffer: a signal is dropped while nobody receives.
Signal ==
    /\ Alive /\ signals < MaxSignals
    /\ signals' = signals + 1
    /\ IF handler.at = "select"
       THEN handler' = [at |-> "stop", i |-> 1] /\ accepted' = TRUE
       ELSE UNCHANGED <<handler, accepted>>
    /\ UNCHANGED <<main, loop, closed, started, session, deliver, remote, panicked>>

\* Faulty variant: the services are stopped in the opposite order.
ReverseStopOrder(i) == Services[Len(Services) + 1 - i]

StopOrder(i) == Services[i]

\* quitChan <- true: needs the goroutine in its select.
SendQuit ==
    LET s == StopOrder(handler.i) IN
    /\ Alive /\ handler.at = "stop" /\ s \in Quitters
    /\ loop[s] = "select"
    /\ loop' = [loop EXCEPT ![s] = "ended"]
    /\ handler' = [handler EXCEPT !.at = "close"]
    /\ UNCHANGED <<main, closed, started, session, deliver, remote, signals, accepted, panicked>>

NextStop == IF handler.i < Len(Services) THEN [at |-> "stop", i |-> handler.i + 1]
           ELSE [at |-> "exit", i |-> 1]

\* The event service first closes its consumer, which waits for its goroutines;
\* a sender that waits on a channel panics when it is closed.
CloseChannels ==
    LET s == StopOrder(handler.i) IN
    /\ Alive /\ handler.at = "close"
    /\ s = "event" => deliver["remote"] = <<>>
    /\ closed' = closed \cup {s}
    /\ panicked' = IF s = "event" /\ \E c \in Notifiers : session[c] = "notify"
                   THEN "session" ELSE "none"
    /\ handler' = NextStop
    /\ UNCHANGED <<main, loop, started, session, deliver, remote, signals, accepted>>

\* The other services have nothing to wait for; MQTT sessions are left alone.
StopAtOnce ==
    /\ Alive /\ handler.at = "stop" /\ StopOrder(handler.i) \notin Quitters
    /\ handler' = NextStop
    /\ UNCHANGED <<main, loop, closed, started, session, deliver, remote, signals, accepted, panicked>>

\* waitChan <- true, and RunAndWait returns nil.
Return ==
    /\ Alive /\ handler.at = "exit" /\ main.at = "wait"
    /\ main' = [main EXCEPT !.at = "returned"]
    /\ UNCHANGED <<handler, loop, closed, started, session, deliver, remote, signals, accepted, panicked>>

-----------------------------------------------------------------------------
Stop == SendQuit \/ CloseChannels \/ StopAtOnce \/ Return

ManagerNext ==
    \/ Launch \/ LaunchFails \/ Signal \/ Stop
    \/ \E c \in Notifiers : Notify(c) \/ \E kind \in Kinds : TakeLocal(c, kind)
    \/ \E kind \in Kinds : TakeRemote(kind)
    \/ \E d \in Deliverers : Deliver(d)
    \/ HandlesForever \/ \E s \in Range(Services) : Handled(s)

ManagerSpec == ManagerInit /\ [][ManagerNext]_managerVars

\* Goroutines that can go on do.  The loop of a service that has the order to quit
\* waiting again and again, between events, takes it in the end.
ManagerFairSpec ==
    /\ ManagerSpec
    /\ WF_managerVars(Launch) /\ SF_managerVars(Stop)
    /\ \A d \in Deliverers : WF_managerVars(Deliver(d))
    /\ \A s \in Range(Services) : WF_managerVars(Handled(s))

-----------------------------------------------------------------------------
(* Properties.                                                                *)

\* No callback of a service sends on a channel that a Stop has closed: what the
\* event service and its consumer still deliver ends before the services that
\* get it are stopped.
DeliversToOpen == panicked # "deliverer"

\* When RunAndWait returns without an error, every goroutine with an order to
\* quit has ended, and no event is half delivered by the event service.
ReturnedMeansStopped ==
    main.at = "returned" =>
        /\ \A s \in Loops : loop[s] = "ended"
        /\ \A d \in Deliverers : deliver[d] = <<>>

\* The services stop without a panic of their own, and all of them.
StopIsClean == DeliversToOpen /\ ReturnedMeansStopped

\* Once the handler has the signal, the process ends, unless the session manager
\* handles a publication for ever: no other service keeps Stop from returning.
TerminatesOnSignal == accepted ~> (~Alive \/ loop["sessionmgr"] = "stuck")

-----------------------------------------------------------------------------
(* What the code does not keep: TLC has a counterexample to each, see the   *)
(* known disagreements in the README.                                       *)

\* A signal that the process gets ends it.
SignalTerminates == signals > 0 ~> (~Alive \/ loop["sessionmgr"] = "stuck")

\* No goroutine sends on a closed channel, sessions of clients included.
NoSendOnClosed == panicked = "none"
=============================================================================
