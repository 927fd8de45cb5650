--------------------------- MODULE BrokerCluster ---------------------------
(* Several brokers of one tenant and the event bus between them                *)
(* (broker/event, broker/sessionmgr).  Each broker posts the events of its     *)
(* sessions to Kafka and consumes what other brokers and services post; its    *)
(* session manager then keeps virtual sessions for persistent sessions of      *)
(* other brokers.  What happens inside a broker between the notification of an *)
(* event and its handling is the subject of Broker; here it is one step, or    *)
(* the circular wait that Broker runs into, after which nothing is handled.    *)
EXTENDS Naturals, Sequences, FiniteSets

CONSTANTS
    Brokers, Clients,
    Service,        \* a service that posts events (whaler, API server), not a broker
    MaxEvents       \* bound: events posted

VARIABLES
    bus,            \* Kafka: posted messages, each under a topic
    offset,         \* of each broker: messages consumed
    phase,          \* of each broker: "down", "consuming", "subscribing", "up"
    reading,        \* brokers whose consumer goroutine reads the table of subscribers
    sessions,       \* of each broker and client: "none", "local", "virtual"
    persistent,     \* clients with a persistent session
    tree,           \* of each broker: clients with a subscription
    delivered,      \* history: publishes that the topic tree of a broker was given
    since,          \* history: of each broker, the length of the bus when it was up
    stuck           \* brokers whose session manager waits for ever

clusterVars ==
    <<bus, offset, phase, reading, sessions, persistent, tree, delivered, since, stuck>>

ClusterInit ==
    /\ bus = <<>>
    /\ offset = [b \in Brokers |-> 0]
    /\ phase = [b \in Brokers |-> "down"]
    /\ reading = {}
    /\ sessions = [b \in Brokers |-> [c \in Clients |-> "none"]]
    /\ persistent = {}
    /\ tree = [b \in Brokers |-> {}]
    /\ delivered = [b \in Brokers |-> <<>>]
    /\ since = [b \in Brokers |-> 0]
    /\ stuck = {}

-----------------------------------------------------------------------------
(* A broker starts.                                                           *)

\* Start of the event service: its consumer begins with the newest message.
StartConsumer(b) ==
    /\ phase[b] = "down"
    /\ phase' = [phase EXCEPT ![b] = "consuming"]
    /\ offset' = [offset EXCEPT ![b] = Len(bus)]
    /\ UNCHANGED <<bus, reading, sessions, persistent, tree, delivered, since, stuck>>

\* Start of the session manager: subscribe writes the table under the mutex.
SubscribeBegins(b) ==
    /\ phase[b] = "consuming"
    /\ phase' = [phase EXCEPT ![b] = "subscribing"]
    /\ UNCHANGED <<bus, offset, reading, sessions, persistent, tree, delivered, since, stuck>>

SubscribeEnds(b) ==
    /\ phase[b] = "subscribing"
    /\ phase' = [phase EXCEPT ![b] = "up"]
    /\ since' = [since EXCEPT ![b] = Len(bus)]
    /\ UNCHANGED <<bus, offset, reading, sessions, persistent, tree, delivered, stuck>>

-----------------------------------------------------------------------------
(* Events.                                                                    *)

\* publishMsg leaves the type of the message out; whaler names it.
Message(type, from, c) ==
    [type |-> type, broker |-> from, client |-> c, topic |-> "events",
     persistent |-> c \in persistent', typed |-> from = Service, id |-> Len(bus) + 1]

Posted(m) ==
    /\ Len(bus) < MaxEvents
    /\ bus' = Append(bus, m)
    /\ UNCHANGED <<offset, phase, reading, since, stuck>>

\* Decode goes by the type of the message, not by that of the event in it.
Decodes(m) == m.typed

\* onSessionDestroy keeps persistent sessions, virtual ones included.
Keeps(b, c) == sessions[b][c] = "virtual" \/ (sessions[b][c] = "local" /\ c \in persistent)

\* The handlers of the session manager for an event of another broker or a service.
HandleForeign(b, m) ==
    LET c == m.client IN
    /\ sessions' = [sessions EXCEPT ![b][c] =
         CASE m.type = "create" /\ m.persistent /\ @ = "none" -> "virtual"
           [] m.type = "destroy" /\ ~Keeps(b, c) -> "none"
           [] OTHER -> @]
    /\ tree' = [tree EXCEPT ![b] =
         CASE m.type = "subscribe" /\ m.persistent /\ sessions[b][c] # "none" -> @ \cup {c}
           [] m.type = "unsubscribe" /\ m.persistent -> @ \ {c}
           [] m.type = "destroy" /\ ~Keeps(b, c) -> @ \ {c}
           [] OTHER -> @]
    /\ delivered' = IF m.type = "publish"
                      THEN [delivered EXCEPT ![b] = Append(@, m.id)] ELSE delivered

\* The event goroutine and the session manager of b answer.
Works(b) == phase[b] = "up" /\ b \notin stuck

\* A client that subscribes, publishes or leaves while the session manager notifies it.
GetsStuck(b) ==
    /\ Works(b) /\ \E c \in tree[b] : sessions[b][c] = "local"
    /\ stuck' = stuck \cup {b}
    /\ UNCHANGED <<bus, offset, phase, reading, sessions, persistent, tree, delivered, since>>

\* A client connects to b: the session manager has the session, the event is posted.
SessionCreate(b, c, keep) ==
    /\ Works(b)
    /\ sessions' = [sessions EXCEPT ![b][c] = "local"]
    /\ persistent' = IF keep THEN persistent \cup {c} ELSE persistent \ {c}
    /\ Posted(Message("create", b, c))
    /\ UNCHANGED <<tree, delivered>>

SessionDestroy(b, c) ==
    /\ Works(b) /\ sessions[b][c] = "local"
    /\ sessions' = IF Keeps(b, c) THEN sessions ELSE [sessions EXCEPT ![b][c] = "none"]
    /\ tree' = IF Keeps(b, c) THEN tree ELSE [tree EXCEPT ![b] = @ \ {c}]
    /\ UNCHANGED persistent
    /\ Posted(Message("destroy", b, c))
    /\ UNCHANGED delivered

TopicSubscribe(b, c) ==
    /\ Works(b) /\ sessions[b][c] = "local"
    /\ tree' = [tree EXCEPT ![b] = @ \cup {c}]
    /\ UNCHANGED persistent
    /\ Posted(Message("subscribe", b, c))
    /\ UNCHANGED <<sessions, delivered>>

TopicUnsubscribe(b, c) ==
    /\ Works(b) /\ sessions[b][c] = "local"
    /\ tree' = [tree EXCEPT ![b] = @ \ {c}]
    /\ UNCHANGED persistent
    /\ Posted(Message("unsubscribe", b, c))
    /\ UNCHANGED <<sessions, delivered>>

TopicPublish(b, c) ==
    /\ Works(b) /\ sessions[b][c] = "local"
    /\ delivered' = [delivered EXCEPT ![b] = Append(@, Len(bus) + 1)]
    /\ UNCHANGED persistent
    /\ Posted(Message("publish", b, c))
    /\ UNCHANGED <<sessions, tree>>

\* topicLoader of whaler: an event with its type and without a broker.
ServicePublish(c) ==
    /\ UNCHANGED persistent
    /\ Posted(Message("publish", Service, c))
    /\ UNCHANGED <<sessions, tree, delivered>>

\* SendMessageToDevice of the API server: neither broker nor type is named, and
\* the topic is made of product, device and the topic of the message.
SendMessageToDevice(c) ==
    /\ UNCHANGED persistent
    /\ Posted([Message("publish", Service, c) EXCEPT !.topic = "device", !.typed = FALSE])
    /\ UNCHANGED <<sessions, tree, delivered>>

-----------------------------------------------------------------------------
(* The consumer goroutine.  Kafka hands it the messages of the topic "events". *)

NextMessage(b) == bus[offset[b] + 1]
Available(b) == phase[b] # "down" /\ b \notin reading /\ offset[b] < Len(bus)
Advance(b) == offset' = [offset EXCEPT ![b] = @ + 1]

\* Faulty variant: events of other brokers are left out instead of those of this one.
PassesOwn(b, m) == m.topic = "events" /\ Decodes(m) /\ m.broker = b

\* messageHandlerFunc passes on what it can decode and is not of this broker.
PassesOn(b, m) == m.topic = "events" /\ Decodes(m) /\ m.broker # b

Skip(b) ==
    /\ Available(b) /\ ~PassesOn(b, NextMessage(b))
    /\ Advance(b)
    /\ UNCHANGED <<bus, phase, reading, sessions, persistent, tree, delivered, since, stuck>>

\* It looks into the table of subscribers without the mutex.
ConsumeBegins(b) ==
    /\ Available(b) /\ PassesOn(b, NextMessage(b))
    /\ reading' = reading \cup {b}
    /\ UNCHANGED <<bus, offset, phase, sessions, persistent, tree, delivered, since, stuck>>

\* Faulty variant: the broker may take the same message again.
ConsumeAgain(b) ==
    /\ b \in reading /\ b \notin stuck
    /\ reading' = reading \ {b}
    /\ UNCHANGED offset \/ Advance(b)
    /\ IF phase[b] = "up" THEN HandleForeign(b, NextMessage(b))
                           ELSE UNCHANGED <<sessions, tree, delivered>>
    /\ UNCHANGED <<bus, phase, persistent, since, stuck>>

\* onEventCallback hands the event to the session manager, and waits for it.
Consume(b) ==
    /\ b \in reading /\ b \notin stuck
    /\ reading' = reading \ {b}
    /\ Advance(b)
    /\ IF phase[b] = "up" THEN HandleForeign(b, NextMessage(b))
                           ELSE UNCHANGED <<sessions, tree, delivered>>
    /\ UNCHANGED <<bus, phase, persistent, since, stuck>>

-----------------------------------------------------------------------------
Starts(b) == StartConsumer(b) \/ SubscribeBegins(b) \/ SubscribeEnds(b)
Consumes(b) == Skip(b) \/ ConsumeBegins(b) \/ Consume(b)

ClusterNext ==
    \/ \E b \in Brokers : Starts(b) \/ Consumes(b) \/ GetsStuck(b)
    \/ \E b \in Brokers, c \in Clients :
          \/ SessionDestroy(b, c) \/ TopicSubscribe(b, c) \/ TopicUnsubscribe(b, c)
          \/ TopicPublish(b, c) \/ \E keep \in BOOLEAN : SessionCreate(b, c, keep)
    \/ \E c \in Clients : ServicePublish(c) \/ SendMessageToDevice(c)

\* Consumer goroutines take the messages that are there.
ClusterSpec ==
    ClusterInit /\ [][ClusterNext]_clusterVars /\ \A b \in Brokers : WF_clusterVars(Consumes(b))

-----------------------------------------------------------------------------
(* Properties.                                                                *)

\* A broker hands a publish to its topic tree at most once, although it also gets
\* its own events back from Kafka (messageHandlerFunc).
PublishDeliveredOnce ==
    \A b \in Brokers : \A i, j \in DOMAIN delivered[b] :
        delivered[b][i] = delivered[b][j] => i = j

\* What a service posts as message k, when broker b is up, under a topic.
Serves(b, k, topic) ==
    /\ phase[b] = "up" /\ k > since[b] /\ k \in DOMAIN bus
    /\ bus[k].broker = Service /\ bus[k].topic = topic

Arrived(b, k) == \E i \in DOMAIN delivered[b] : delivered[b][i] = k

\* A publish that whaler posts when a broker is up gets to its topic tree, unless the
\* session manager of this broker is stuck; that of another broker does not matter.
ServicePublishArrives ==
    \A b \in Brokers, k \in 1..MaxEvents :
        Serves(b, k, "events") ~> (Arrived(b, k) \/ b \in stuck)

-----------------------------------------------------------------------------
(* What the code does not keep: TLC has a counterexample to each, see the   *)
(* known disagreements in the README.                                       *)

\* "Send a could-to-device message": a message to a device that the API server
\* has accepted gets to the topic tree of a broker that is up.
DeviceMessageArrives ==
    \A b \in Brokers, k \in 1..MaxEvents :
        Serves(b, k, "device") ~> (Arrived(b, k) \/ b \in stuck)

\* "notify kafka for broker synchronization": a persistent session of one broker
\* becomes known to another one that is up when it is created.
SessionsSynchronised ==
    \A a, b \in Brokers, c \in Clients :
        (/\ \A x \in Brokers : phase[x] = "up" /\ since[x] = 0
         /\ sessions[a][c] = "local" /\ c \in persistent)
            ~> (sessions[b][c] # "none" \/ c \notin persistent \/ stuck # {})

\* "Mutex to lock subscribers": nobody reads the table while it is written.
SubscribersProtected ==
    \A b \in Brokers : ~(b \in reading /\ phase[b] = "subscribing")
=============================================================================
