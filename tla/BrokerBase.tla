---------------------------- MODULE BrokerBase ----------------------------
(* The values that the parts of one MQTT broker process pass to each other: *)
(* control packets, events and messages.  Payloads, flags and identifiers   *)
(* are reduced to what routing, queueing and teardown tell apart.           *)
EXTENDS Naturals, Sequences

CONSTANTS
    Conns,      \* accepted network connections; each one owns a mqttSession
    Clients,    \* client identifiers that CONNECT packets carry
    Topics,     \* topic names (one level, no wildcard)
    None        \* Go's nil, and the empty client identifier ""

\* p.clientID is "" until handleConnect has accepted the client.
Ids == Clients \cup {None}

Qos == 0..2

\* base.Message.  mid stands for the payload: the position of the message in
\* the order in which the event service accepted the publications.
Message == [mid: Nat, topic: Topics, qos: Qos, dup: BOOLEAN]

\* The mqttPacket as its handler sees it.  fault says which check of the
\* handler the packet fails: "protocol" for every malformed field, flag or
\* size, "auth" for a refused Authenticate or Authorize.
Packet == [kind:   {"CONNECT", "PUBLISH", "SUBSCRIBE", "UNSUBSCRIBE", "PUBACK",
                    "PUBREL", "PINGREQ", "DISCONNECT", "OTHER", "GARBLED"},
           fault:  {"none", "protocol", "auth"},
           client: Ids,                      \* CONNECT: client identifier
           clean:  BOOLEAN,                  \* CONNECT: clean session flag
           will:   Topics \cup {None},       \* CONNECT: will topic
           alive:  BOOLEAN,                  \* CONNECT: keepalive > 0
           topics: Seq(Topics),              \* PUBLISH, SUBSCRIBE, UNSUBSCRIBE
           qos:    Qos,                      \* PUBLISH, SUBSCRIBE
           pid:    {0, 1}]                   \* PUBACK: packet id 0, or any other

\* event.Event: the events of a local session.
Event == [type:   {"create", "destroy", "resume", "subscribe", "unsubscribe",
                   "publish"},
          client: Ids,
          topic:  Topics \cup {None},
          qos:    Qos,
          mid:    Nat]

\* nil is none of the values it stands in for.
ASSUME BaseAssumption ==
    /\ None \notin Conns \cup Clients \cup Topics
    /\ None \notin Packet /\ None \notin Message /\ None \notin Event

SessionEvent(type, client) ==
    [type |-> type, client |-> client, topic |-> None, qos |-> 0, mid |-> 0]

TopicEvent(type, client, topic, qos, mid) ==
    [type |-> type, client |-> client, topic |-> topic, qos |-> qos, mid |-> mid]
===========================================================================
