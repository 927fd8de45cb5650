---------------------------- MODULE RulePipeline ----------------------------
(* whaler: what the executor of one product does with the events on the       *)
(* buses of the tenant, with the pipelines of its rules (all started, to a    *)
(* topic).  Rules may feed one another, and themselves: the results go to the *)
(* bus that the executor reads.  What brokers do with them is BrokerCluster's.*)
EXTENDS Naturals, Sequences, FiniteSets

CONSTANTS
    Rules, Topics,
    Conditions,             \* subset of {"no", "match", "other"}
    Bodies,                 \* subset of {"data", "text", "list"}, see Extract
    Posters,                \* who publishes: brokers, other services
    MaxPosts,               \* bound: events published
    MaxBus,                 \* bound: events on the bus, what rules add beyond it is left out
    MaxFaults               \* bound: events that Kafka refuses from a loader

VARIABLES
    conf,           \* data process and target of every rule
    mqttBus,        \* events posted to FmtOfMqttEventBus
    brokerBus,      \* events posted to FmtOfBrokerEventBus
    read,           \* how much of brokerBus the executor's consumer has read
    inHand,         \* event for which messageHandlerFunc waits on dataChan
    dataChan,       \* with one place
    current, todo,  \* event that execute works on, rules it has yet to look at
    status,         \* of the executor: "up", "closing", "quit", "stopped", "down"
    handled,        \* history: <<rule, post, body>> that a pipeline has loaded
    order,          \* history: posts in the order in which they were executed
    posts, faults   \* how often these have happened

pipelineVars == <<conf, mqttBus, brokerBus, read, inHand, dataChan, current, todo,
                  status, handled, order, posts, faults>>

Processes == [source : Topics, target : Topics, cond : Conditions]

PipelineInit ==
    /\ conf \in [Rules -> Processes]
    /\ mqttBus = <<>> /\ brokerBus = <<>>
    /\ read = 0
    /\ inHand = <<>> /\ dataChan = <<>>
    /\ current = <<>> /\ todo = {}
    /\ status = "up"
    /\ handled = {} /\ order = <<>>
    /\ posts = 0 /\ faults = 0

-----------------------------------------------------------------------------
(* Where events come from.                                                    *)

Event(topic, body) == [post |-> posts + 1, topic |-> topic, body |-> body]

\* A session publishes: nameOfEventBus gives the bus of MQTT events.
BrokerPublishes(topic, body) ==
    /\ "brokers" \in Posters /\ posts < MaxPosts /\ posts' = posts + 1
    /\ mqttBus' = Append(mqttBus, Event(topic, body))
    /\ UNCHANGED <<conf, brokerBus, read, inHand, dataChan, current, todo, status,
                   handled, order, faults>>

\* Another service posts to the bus of the brokers, as the test of the engine.
ServicePublishes(topic, body) ==
    /\ "services" \in Posters /\ posts < MaxPosts /\ posts' = posts + 1
    /\ brokerBus' = Append(brokerBus, Event(topic, body))
    /\ UNCHANGED <<conf, mqttBus, read, inHand, dataChan, current, todo, status,
                   handled, order, faults>>

-----------------------------------------------------------------------------
(* The executor.                                                              *)

\* messageHandlerFunc: the consumer of the executor reads the bus of the brokers.  Once
\* Close has begun it takes messages from the same channel, so that some are missed.
Receive ==
    /\ status \in {"up", "closing"} /\ inHand = <<>> /\ read < Len(brokerBus)
    /\ read' \in read + 1 .. IF status = "up" THEN read + 1 ELSE Len(brokerBus)
    /\ inHand' = <<brokerBus[read']>>
    /\ UNCHANGED <<conf, mqttBus, brokerBus, dataChan, current, todo, status,
                   handled, order, posts, faults>>

\* p.dataChan <- pubevent
PutData ==
    /\ status # "down" /\ inHand # <<>> /\ dataChan = <<>>
    /\ dataChan' = inHand /\ inHand' = <<>>
    /\ UNCHANGED <<conf, mqttBus, brokerBus, read, current, todo, status,
                   handled, order, posts, faults>>

\* Faulty variant: stop ends the executor's goroutine before it closes the consumer.
TakeDataWhileUp ==
    /\ status = "up" /\ current = <<>> /\ dataChan # <<>>
    /\ current' = dataChan /\ dataChan' = <<>>
    /\ todo' = Rules
    /\ order' = Append(order, dataChan[1].post)
    /\ UNCHANGED <<conf, mqttBus, brokerBus, read, inHand, status, handled, posts, faults>>

\* The executor's goroutine receives from dataChan and calls execute.
TakeData ==
    /\ status \notin {"stopped", "down"} /\ current = <<>> /\ dataChan # <<>>
    /\ current' = dataChan /\ dataChan' = <<>>
    /\ todo' = Rules
    /\ order' = Append(order, dataChan[1].post)
    /\ UNCHANGED <<conf, mqttBus, brokerBus, read, inHand, status, handled,
                   posts, faults>>

\* eventExtractor.Extract.  A body is "data" (an object with the fields of the
\* rule), "empty" (an object without them), "list" (another JSON value) or "text"
\* (not JSON).  Without a condition the body is unmarshalled into the frame,
\* which has no exported field.  jsonql answers nil without an error for an
\* object that does not match, and Extract then dereferences the nil error.
Extract(e, c) ==
    CASE e.topic # c.source -> "none"
      [] c.cond = "no" -> IF e.body \in {"data", "empty"} THEN "empty" ELSE "error"
      [] e.body = "text" -> "error"
      [] e.body = "list" -> "none"
      [] e.body = "data" /\ c.cond = "match" -> "data"
      [] OTHER -> "panic"

\* topicLoader.Load writes into the event that all the rules are given.
Load(e, c, frame) == [e EXCEPT !.body = frame, !.topic = c.target]

Posted(e) ==
    \/ /\ brokerBus' = IF Len(brokerBus) < MaxBus THEN Append(brokerBus, e) ELSE brokerBus
       /\ UNCHANGED faults
    \/ faults < MaxFaults /\ faults' = faults + 1 /\ UNCHANGED brokerBus

\* execute comes to a rule, in any order, and PushData runs its pipeline.
ExecuteRule(r) ==
    LET e == current[1]
        frame == Extract(e, conf[r])
    IN
    /\ status # "down" /\ current # <<>> /\ r \in todo
    /\ todo' = todo \ {r}
    /\ IF frame \in {"data", "empty"}
       THEN /\ current' = <<Load(e, conf[r], frame)>>
            /\ Posted(Load(e, conf[r], frame))
            /\ handled' = handled \cup {<<r, e.post, frame>>}
       ELSE UNCHANGED <<current, brokerBus, handled, faults>>
    /\ status' = IF frame = "panic" THEN "down" ELSE status
    /\ UNCHANGED <<conf, mqttBus, read, inHand, dataChan, order, posts>>

ExecuteDone ==
    /\ status # "down" /\ current # <<>> /\ todo = {}
    /\ current' = <<>>
    /\ UNCHANGED <<conf, mqttBus, brokerBus, read, inHand, dataChan, todo, status,
                   handled, order, posts, faults>>

-----------------------------------------------------------------------------
(* stop.                                                                      *)

\* consumer.Close asks the consumer's goroutines to end ...
StopBegins ==
    /\ status = "up"
    /\ status' = "closing"
    /\ UNCHANGED <<conf, mqttBus, brokerBus, read, inHand, dataChan, current, todo,
                   handled, order, posts, faults>>

\* ... and waits for the one that may have an event in hand.  That one ends with the quit
\* message or the closed channel of errors, and quitChan of the executor is filled; or it
\* takes the nil message of the closed channel, which ends the process.
ConsumerClosed ==
    /\ status = "closing" /\ inHand = <<>>
    /\ status' \in {"quit", "down"}
    /\ UNCHANGED <<conf, mqttBus, brokerBus, read, inHand, dataChan, current, todo,
                   handled, order, posts, faults>>

\* The goroutine leaves its loop; it may do so before it has taken the last event.
Quit ==
    /\ status = "quit" /\ current = <<>>
    /\ status' = "stopped"
    /\ UNCHANGED <<conf, mqttBus, brokerBus, read, inHand, dataChan, current, todo,
                   handled, order, posts, faults>>

-----------------------------------------------------------------------------
Publishes ==
    \E topic \in Topics, body \in Bodies :
        BrokerPublishes(topic, body) \/ ServicePublishes(topic, body)

ExecutorNext ==
    \/ Receive \/ PutData \/ TakeData \/ ExecuteDone
    \/ \E r \in Rules : ExecuteRule(r)

StopNext == StopBegins \/ ConsumerClosed \/ Quit

PipelineNext == Publishes \/ ExecutorNext \/ StopNext

\* Goroutines that can go on do; when quitChan and dataChan are both ready either may be
\* taken, and what ends a consumer stays ready while it takes further messages.
PipelineFairness ==
    WF_pipelineVars(ExecutorNext) /\ SF_pipelineVars(ConsumerClosed) /\ SF_pipelineVars(Quit)

PipelineSpec == PipelineInit /\ [][PipelineNext]_pipelineVars /\ PipelineFairness

-----------------------------------------------------------------------------
(* Properties.                                                                *)

\* stop comes to its end, or the process does, although the consumer is handing over events
\* while it is closed, and although rules go on feeding one another.
StopEnds == status = "closing" ~> status \in {"stopped", "down"}

-----------------------------------------------------------------------------
(* What the code does not keep: TLC has a counterexample to each, see the   *)
(* known disagreements in the README.                                       *)

\* What rules make of an event comes to an end: each rule transfers it once.
TransferEnds ==
    \A n \in 1..MaxPosts :
        Cardinality({i \in DOMAIN brokerBus : brokerBus[i].post = n}) <= 1 + Cardinality(Rules)

\* Whatever a device publishes on the topic of a rule is executed.
PublishIsExecuted ==
    \A n \in 1..MaxPosts :
        n <= Len(mqttBus) ~>
            (n <= Len(mqttBus) /\ \E i \in DOMAIN order : order[i] = mqttBus[n].post)

\* Every rule on the topic of an event gets the event.
EveryRuleGetsEvent ==
    (current # <<>> /\ todo = {} /\ status # "down" /\ Len(order) = 1) =>
        \A r \in Rules : conf[r].source = brokerBus[1].topic =>
            \E h \in handled : h[1] = r /\ h[2] = brokerBus[1].post

\* A rule without condition passes the data on.
DataIsPassedOn == \A h \in handled : h[3] = "data"

\* An event that a rule does not want leaves whaler running.
UnwantedIsSkipped == status # "down"
=============================================================================
