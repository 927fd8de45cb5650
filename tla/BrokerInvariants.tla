--------------------------- MODULE BrokerInvariants ---------------------------
(* The inductive invariants behind the safety properties of Broker: what     *)
(* the control state of each goroutine says about the data it works on.      *)
EXTENDS Broker

\* The states of the main loop in which conn[c].pkt is the packet at work.
Handling == {"handle", "resume", "remove", "newqueue", "freequeue", "allocate",
             "observe", "register", "create", "notify", "reply"}

\* What a goroutine is about to dereference is there.
ConnShape(c) ==
    /\ conn[c].rd = "offer" => conn[c].rpkt # None
    /\ conn[c].pc \in Handling => conn[c].pkt # None
    /\ conn[c].pc = "handle" => conn[c].k = 0
    /\ conn[c].pc = "notify" => conn[c].k < Len(conn[c].pkt.topics)
    /\ conn[c].pc \in {"observe", "flush", "drain", "pop"} => conn[c].queue # None
    /\ conn[c].pc \in {"register", "create"} => conn[c].queue # None
    /\ conn[c].pc = "pop" => conn[c].cur # None
    /\ conn[c].pc = "notifyWill" => conn[c].will # None

\* Only sessions that have a queue observe one, and are woken up.
ObserverShape ==
    /\ \A o \in Conns : obj[o].observer # None => conn[obj[o].observer].queue # None
    /\ sm.target # None => conn[sm.target].queue # None

TopicEvents == {"subscribe", "unsubscribe", "publish"}

EventShape ==
    /\ es.pc # "idle" => es.cur # None
    /\ es.pc # "idle" /\ es.cur.type \in TopicEvents => es.cur.topic # None
    /\ es.pc = "deliver" => es.cur.type # "resume"

Publishing == {"push", "wake", "blocked"}

ManagerShape ==
    /\ sm.pc # "idle" => sm.cur # None
    /\ sm.pc \in TopicEvents \cup Publishing => sm.cur.topic # None
    /\ sm.pc \in Publishing =>
            \A id \in sm.pending : subs[id][sm.cur.topic].queue # None
    /\ sm.pc = "wake" => sm.queue # None
    /\ sm.pc = "blocked" => sm.target # None
    /\ sm.pc = "sweep" => sm.i > 0

Shape == (\A c \in Conns : ConnShape(c)) /\ ObserverShape /\ EventShape /\ ManagerShape

TypeInv == TypeOK /\ Shape

----------------------------------------------------------------------------
(* The life of a session *)

\* handleConnect, from the place where it sets willMsg.
Opening == {"observe", "register", "create", "flush"}

\* Until handleConnect has come that far, a new session has nothing to lose.
Early == {"select", "handle", "resume", "remove", "newqueue", "notify", "reply"}

LifeCycle(c) ==
    /\ conn[c].state = "New" /\ conn[c].pc \in Early =>
            conn[c].queue = None /\ conn[c].will = None
    /\ conn[c].pc \in {"freequeue", "allocate"} => conn[c].queue = None
    /\ conn[c].pc \in {"resume", "remove", "newqueue", "freequeue", "allocate",
                       "observe", "register"} => conn[c].state = "New"
    /\ conn[c].pc \in {"create", "flush", "drain", "pop"} => conn[c].state # "New"
    /\ Closed(c) => conn[c].pc \in {"disconnect", "exit"}
    /\ conn[c].pc = "exit" => Closed(c)
    /\ conn[c].queue = None => conn[c].sent = <<>>

\* The events of the session up to number n announce neither will nor end.
StillAlive(c, n) ==
    \A i \in 1..n : conn[c].said[i].kind \notin {"will", "destroy"}

\* The first n events of the session end with its will, if it has one.
WillIsLast(c, n) ==
    /\ StillAlive(c, IF conn[c].will = None THEN n ELSE n - 1)
    /\ conn[c].will # None => n > 0 /\ conn[c].said[n].kind = "will"

\* What the session has announced when disconnect is at each of its steps.
Announced(c) ==
    LET n == Len(conn[c].said)
    IN  IF conn[c].pc = "teardown" \/ Closed(c)
        THEN /\ n > 0
             /\ conn[c].said[n].kind = "destroy"
             /\ WillIsLast(c, n - 1)
        ELSE IF conn[c].pc = "notifyDestroy" THEN WillIsLast(c, n)
        ELSE StillAlive(c, n)

LifeInv == \A c \in Conns : LifeCycle(c) /\ Announced(c)

----------------------------------------------------------------------------
(* Queue objects *)

\* Only objects that exist are referred to.
Allocated ==
    /\ \A c \in Conns : conn[c].queue # None => conn[conn[c].queue].queue = conn[c].queue
    /\ \A id \in Ids : queues[id] # None => conn[queues[id]].queue = queues[id]
    /\ \A id \in Ids : \A t \in Topics :
            subs[id][t].queue # None => conn[subs[id][t].queue].queue = subs[id][t].queue

OwnershipInv == Allocated /\ QueueOwnership

\* c has a transient queue, all to itself.
OwnQueue(c) == conn[c].queue = c /\ ~ obj[c].persistent

DeliveryInv ==
    /\ CleanSessionDelivery
    /\ \A c \in Conns : OwnQueue(c) =>
            /\ conn[c].pc \in Opening => obj[c].retainList = <<>>
            /\ conn[c].pc = "pop" => obj[c].syncq # <<>>

SafetyInv == TypeInv /\ LifeInv /\ OwnershipInv /\ DeliveryInv

----------------------------------------------------------------------------
(* Where messages come from *)

\* The topics that some session of each client has subscribed to.
Asked ==
    [id \in Ids |->
        {t \in Topics : \E d \in Conns : \E j \in 1..Len(conn[d].said) :
            conn[d].said[j] = [kind |-> "subscribe", client |-> id, topic |-> t]}]

TopicsOf(s) == {s[i].topic : i \in 1..Len(s)}

\* A subscription on its way to the topic tree.
HeldAsked ==
    /\ es.pc = "deliver" /\ es.cur.type = "subscribe" => es.cur.topic \in Asked[es.cur.client]
    /\ sm.pc = "subscribe" => sm.cur.topic \in Asked[sm.cur.client]

SubsAsked ==
    \A id \in Ids : \A t \in Topics : subs[id][t].queue # None => t \in Asked[id]

\* The messages in the queue objects and in the collections of MongoDB.
QueuesAsked ==
    /\ \A o \in Conns : /\ TopicsOf(obj[o].syncq) \subseteq Asked[obj[o].id]
                        /\ TopicsOf(obj[o].retainList) \subseteq Asked[obj[o].id]
    /\ \A id \in Ids : TopicsOf(mongo[id]) \subseteq Asked[id]

SentAsked(c) ==
    /\ TopicsOf(conn[c].sent) \subseteq Asked[conn[c].id]
    /\ conn[c].pc = "pop" => conn[c].cur.topic \in Asked[conn[c].id]

RoutingInv == HeldAsked /\ SubsAsked /\ QueuesAsked /\ \A c \in Conns : SentAsked(c)

----------------------------------------------------------------------------
(* The order of publications *)

Offering == es.pc = "deliver" /\ es.cur.type = "publish"

\* The number of publications that the session manager has taken.
Taken == IF Offering THEN npub - 1 ELSE npub

Below(s, n) == \A i \in 1..Len(s) : s[i].mid < n

Rising(s) == \A i, j \in 1..Len(s) : i < j => s[i].mid < s[j].mid

\* The session manager has a publication that object o may still get.
Awaits(o) ==
    \/ sm.pc = "publish"
    \/ sm.pc \in Publishing /\ obj[o].id \in sm.pending

OrderInv ==
    /\ Offering => es.cur.mid = npub
    /\ sm.pc \in {"publish"} \cup Publishing => sm.cur.mid <= Taken
    /\ \A o \in Conns : /\ Rising(obj[o].pushed)
                        /\ Below(obj[o].pushed, Taken + 1)
                        /\ Awaits(o) => Below(obj[o].pushed, sm.cur.mid)
===============================================================================
