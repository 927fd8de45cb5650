------------------------------ MODULE MCBroker ------------------------------
(* Instances of Broker for TLC: what the client of each connection sends.   *)
EXTENDS BrokerInvariants, TLC

CONSTANTS c1, c2, c3, alice, bob, news, sport, gossip

Plain(kind) ==
    [kind |-> kind, fault |-> "none", client |-> None, clean |-> TRUE,
     will |-> None, alive |-> FALSE, topics |-> <<>>, qos |-> 0, pid |-> 0]

Connect(id, clean)   == [Plain("CONNECT") EXCEPT !.client = id, !.clean = clean]
Subscribe(ts, qos)   == [Plain("SUBSCRIBE") EXCEPT !.topics = ts, !.qos = qos]
Unsubscribe(ts)      == [Plain("UNSUBSCRIBE") EXCEPT !.topics = ts]
Publish(t, qos)      == [Plain("PUBLISH") EXCEPT !.topics = <<t>>, !.qos = qos]
Faulty(p, fault)     == [p EXCEPT !.fault = fault]

\* c1 subscribes, c2 publishes; both are clean sessions.
PubSubScript ==
    (c1 :> << {Connect(alice, TRUE)}, {Subscribe(<<news>>, 0), Subscribe(<<news>>, 1)},
              {Unsubscribe(<<news>>), Plain("PUBACK"), Plain("DISCONNECT")} >>) @@
    (c2 :> << {Connect(bob, TRUE)}, {Publish(news, 0)}, {Publish(news, 1)} >>)

\* One client that subscribes to the topic it publishes on.
EchoScript ==
    c1 :> << {Connect(alice, TRUE)}, {Subscribe(<<news>>, 0)},
             {Publish(news, 0)}, {Publish(news, 0)}, {Publish(news, 0)} >>

\* A client with three subscriptions that leaves.
LeaveScript ==
    c1 :> << {Connect(alice, TRUE)}, {Subscribe(<<news, sport, gossip>>, 0)},
             {Plain("DISCONNECT")} >>

\* c1 subscribes and then sends a packet of any kind, with or without an event,
\* while c2 publishes.
ConsumerScript ==
    (c1 :> << {Connect(alice, TRUE), Connect(alice, FALSE)}, {Subscribe(<<news>>, 1)},
              {Subscribe(<<sport, news>>, 0), Unsubscribe(<<news>>), Publish(news, 0),
               Plain("PUBACK"), Plain("PINGREQ"), Plain("DISCONNECT")} >>) @@
    (c2 :> << {Connect(bob, TRUE)}, {Publish(news, 0)}, {Publish(news, 0)} >>)

\* A persistent client connects a second time while it is still connected.
TakeoverScript ==
    (c1 :> << {Connect(alice, FALSE)}, {Subscribe(<<news>>, 0)} >>) @@
    (c2 :> << {Connect(alice, FALSE)} >>) @@
    (c3 :> << {Connect(bob, TRUE)}, {Publish(news, 0)}, {Publish(news, 0)} >>)

\* The client of c1 connects again over c2, or another client does; each of
\* the sessions is clean or persistent.
ReconnectScript ==
    (c1 :> << {Connect(alice, TRUE), Connect(alice, FALSE)},
              {Subscribe(<<sport, news>>, 1)},
              {Publish(news, 0)} >>) @@
    (c2 :> << {Connect(alice, TRUE), Connect(alice, FALSE), Connect(bob, FALSE)},
              {Subscribe(<<sport>>, 0), Plain("DISCONNECT")} >>)

\* One connection goes through every packet and every way to end.
Lively == [Connect(alice, TRUE) EXCEPT !.will = news, !.alive = TRUE]
SessionEndScript ==
    c1 :> << {Lively, Faulty(Lively, "protocol"), Faulty(Lively, "auth"),
              Plain("PUBACK"), Subscribe(<<news>>, 0), Publish(news, 0)},
             {Lively, Plain("PINGREQ"), Plain("PUBREL"), Plain("OTHER"),
              Publish(news, 1), Publish(news, 2), Faulty(Publish(news, 0), "auth"),
              Faulty(Subscribe(<<news, sport>>, 0), "protocol"), Subscribe(<<>>, 0)},
             {Plain("PUBACK"), Faulty(Plain("PUBACK"), "protocol"),
              Plain("DISCONNECT"), Faulty(Plain("DISCONNECT"), "protocol"),
              Plain("GARBLED")} >>
=============================================================================
