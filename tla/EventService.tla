--------------------------- MODULE EventService ---------------------------
(* broker/event: the one goroutine that takes the events of all sessions    *)
(* from an unbuffered channel, calls the local subscribers one after the    *)
(* other, and then publishes the event to Kafka for the other brokers.      *)
EXTENDS BrokerBase

VARIABLES
    es,         \* control state of the event goroutine and the event it holds
    npub        \* number of TopicPublish events accepted so far

eventVars == <<es, npub>>

EventTypeOK ==
    /\ es \in [pc: {"idle", "deliver", "publish"}, cur: Event \cup {None}]
    /\ npub \in Nat

EventInit ==
    /\ es = [pc |-> "idle", cur |-> None]
    /\ npub = 0

\* Faulty variant: the session manager subscribes to every event type.
SubscribedToAll(e) == TRUE

\* Every event type but SessionResume has the session manager as a subscriber.
Subscribed(e) == e.type # "resume"

\* case e := <-p.eventChan: the notifying goroutine resumes, the event
\* goroutine goes on to the subscribers.
ReceiveEvent(e) ==
    /\ es.pc = "idle"
    /\ es' = [pc |-> IF Subscribed(e) THEN "deliver" ELSE "publish", cur |-> e]
    /\ npub' = IF e.type = "publish" THEN npub + 1 ELSE npub

\* subscriber.handler(e) returns: the session manager has taken the event.
HandedOver ==
    /\ es.pc = "deliver"
    /\ es' = [es EXCEPT !.pc = "publish"]
    /\ UNCHANGED npub

\* The metadata service (whose handlers are empty) takes the event, and
\* publishMsg sends it to Kafka; its error is logged and dropped.
PublishToKafka ==
    /\ es.pc = "publish"
    /\ es' = [pc |-> "idle", cur |-> None]
    /\ UNCHANGED npub
===========================================================================
