------------------------- MODULE BrokerSafetySteps --------------------------
(* Every step of every goroutine of Broker keeps the safety invariants: the  *)
(* life of a session, the ownership of queues, the delivery to clean         *)
(* sessions.                                                                 *)
EXTENDS BrokerTypeProofs

Safe == LifeInv /\ OwnershipInv /\ DeliveryInv

\* DeliveryInv, for one connection.
Delivers(c) ==
    OwnQueue(c) =>
        /\ obj[c].pushed = conn[c].sent \o (IF conn[c].pc = "pop" THEN Tail(obj[c].syncq)
                                                                 ELSE obj[c].syncq)
        /\ conn[c].pc \in Opening => obj[c].retainList = <<>>
        /\ conn[c].pc = "pop" => obj[c].syncq # <<>>

LEMMA DeliveryByConnection == DeliveryInv <=> \A c \in Conns : Delivers(c)
BY Zenon DEF DeliveryInv, CleanSessionDelivery, Delivers, OwnQueue

\* A step of connection c leaves the other connections alone ...
Only(c) == \A d \in Conns \ {c} : conn'[d] = conn[d]

\* ... and, of its own session, these fields.
Same(c) ==
    /\ Only(c)
    /\ conn'[c].queue = conn[c].queue
    /\ conn'[c].sent = conn[c].sent
    /\ conn'[c].id = conn[c].id
    /\ conn'[c].will = conn[c].will
    /\ conn'[c].said = conn[c].said
    /\ conn'[c].state = conn[c].state

\* The main loop is not in disconnect: nothing of its end is announced yet.
Ending == {"disconnect", "notifyWill", "notifyDestroy", "teardown", "exit"}

Silent(c) ==
    \/ conn'[c].said = conn[c].said
    \/ \E s \in Said : /\ s.kind \notin {"will", "destroy"}
                       /\ conn'[c].said = Append(conn[c].said, s)

\* A step of a session that is not ending, and does not end with this step.
Alive(c) ==
    /\ conn[c].pc \notin Ending
    /\ conn'[c].pc \notin {"notifyDestroy", "teardown", "exit"}
    /\ ~ Closed(c)'
    /\ Silent(c)

LEMMA SafeFacts ==
    ASSUME TypeInv, Safe, NEW c \in Conns
    PROVE  /\ conn[c] \in Conn
           /\ conn[c].said \in Seq(Said)
           /\ conn[c].queue \in Conns \cup {None}
           /\ conn[c].id \in Ids
           /\ conn[c].sent \in Seq(Message)
           /\ ConnShape(c)
           /\ LifeCycle(c)
           /\ Announced(c)
           /\ obj[c] \in Queue
<1>1. conn[c] \in Conn /\ ConnShape(c)
  BY ConnFacts, Zenon
<1>2. LifeCycle(c) /\ Announced(c)
  BY Zenon DEF Safe, LifeInv
<1>3. obj[c] \in Queue
  BY Zenon DEF TypeInv, TypeOK, QueueTypeOK
<1> QED
  BY <1>1, <1>2, <1>3, ConnFields, Zenon

\* While a session is alive it goes on announcing neither will nor end.
LEMMA AliveAnnounced ==
    ASSUME TypeInv, Safe, NEW c \in Conns, Alive(c)
    PROVE  Announced(c)'
<1> DEFINE said == conn[c].said
           n == Len(said)
<1>0. said \in Seq(Said) /\ LifeCycle(c) /\ Announced(c)
  BY SafeFacts, Zenon
<1>1. \A i \in 1..n : said[i].kind \notin {"will", "destroy"}
  BY <1>0, Zenon DEF Alive, Ending, LifeCycle, Announced, StillAlive
<1>2. \A i \in 1..Len(conn'[c].said) : conn'[c].said[i].kind \notin {"will", "destroy"}
  <2>1. CASE conn'[c].said = said
    BY <1>1, <2>1, Zenon
  <2>2. CASE conn'[c].said # said
    <3>1. PICK s \in Said : s.kind \notin {"will", "destroy"} /\ conn'[c].said = Append(said, s)
      BY <2>2, Zenon DEF Alive, Silent
    <3> HIDE DEF said
    <3> QED
      BY <1>0, <1>1, <3>1
  <2> QED
    BY <2>1, <2>2, Zenon
<1> QED
  BY <1>2, Zenon DEF Alive, Announced, StillAlive

\* The life of a session depends on its own connection only.
LEMMA OthersLive ==
    ASSUME Safe, NEW c \in Conns, Only(c), LifeCycle(c)', Announced(c)'
    PROVE  LifeInv'
<1>1. ASSUME NEW d \in Conns \ {c}
      PROVE  LifeCycle(d)' /\ Announced(d)'
  <2>1. conn'[d] = conn[d] /\ LifeCycle(d) /\ Announced(d)
    BY Zenon DEF Only, Safe, LifeInv
  <2> QED
    BY <2>1, Zenon DEF LifeCycle, Announced, WillIsLast, StillAlive, Closed
<1> QED
  BY <1>1, Zenon DEF LifeInv

\* A step that leaves queues and subscriptions alone, and of the session only
\* moves the main loop, outside of the delivery of a message.
LEMMA QueuesStay ==
    ASSUME TypeInv, Safe, NEW c \in Conns, Only(c),
           conn'[c].queue = conn[c].queue, conn'[c].sent = conn[c].sent,
           conn'[c].id = conn[c].id \/ conn[c].queue = None,
           \/ conn'[c].pc = conn[c].pc
           \/ /\ conn[c].pc # "pop" /\ conn'[c].pc # "pop"
              /\ conn'[c].pc \in Opening => conn[c].pc \in Opening,
           UNCHANGED <<queues, obj, subs>>
    PROVE  OwnershipInv' /\ DeliveryInv'
<1>1. \A d \in Conns : /\ conn'[d].queue = conn[d].queue
                       /\ conn'[d].id = conn[d].id \/ conn[d].queue = None
  BY Zenon DEF Only
<1>t. /\ \A d \in Conns : conn[d].queue \in Conns \cup {None}
      /\ \A id \in Ids : queues[id] \in Conns \cup {None}
      /\ \A id \in Ids : \A t \in Topics : subs[id][t].queue \in Conns \cup {None}
  BY SafeFacts, Zenon DEF TypeInv, TypeOK, QueueTypeOK, SmTypeOK, Subscription
<1>2. OwnershipInv'
  BY <1>1, <1>t DEF Safe, OwnershipInv, Allocated, QueueOwnership
<1>3. ASSUME NEW d \in Conns
      PROVE  Delivers(d)'
  <2>1. Delivers(d)
    BY DeliveryByConnection, Zenon DEF Safe
  <2>2. CASE d = c
    BY <2>1, <2>2, Zenon DEF Delivers, OwnQueue
  <2>3. CASE d # c
    BY <2>1, <2>3, Zenon DEF Delivers, OwnQueue, Only
  <2> QED
    BY <2>2, <2>3, Zenon
<1>4. DeliveryInv'
  BY <1>3, Zenon DEF DeliveryInv, CleanSessionDelivery, Delivers, OwnQueue
<1> QED
  BY <1>2, <1>4, Zenon

\* A step of a live session from one handler to the next.
LEMMA LiveMove ==
    ASSUME TypeInv, Safe, NEW c \in Conns, Only(c), Alive(c), LifeCycle(c)',
           conn'[c].queue = conn[c].queue, conn'[c].sent = conn[c].sent,
           conn'[c].id = conn[c].id \/ conn[c].queue = None,
           conn[c].pc # "pop", conn'[c].pc # "pop",
           conn'[c].pc \in Opening => conn[c].pc \in Opening,
           UNCHANGED <<queues, obj, subs>>
    PROVE  Safe'
<1>1. LifeInv'
  BY AliveAnnounced, OthersLive, Zenon
<1>2. OwnershipInv' /\ DeliveryInv'
  BY QueuesStay, Zenon
<1> QED
  BY <1>1, <1>2, Zenon DEF Safe

LEMMA GotoSame ==
    ASSUME TypeInv, NEW c \in Conns, NEW label, Goto(c, label)
    PROVE  Same(c) /\ conn'[c].pc = label
<1>1. conn \in [Conns -> Conn] /\ conn[c] \in Conn
  BY ConnFacts, Zenon
<1> QED
  BY <1>1, Zenon DEF Goto, Same, Only, Conn

\* A handler fails, and the main loop calls disconnect.
LEMMA FailingMove ==
    ASSUME TypeInv, Safe, NEW c \in Conns, Same(c), conn'[c].pc = "disconnect",
           conn[c].pc \in {"select", "handle", "reply", "allocate"},
           UNCHANGED <<queues, obj, subs>>
    PROVE  Safe'
<1>0. LifeCycle(c)
  BY SafeFacts, Zenon
<1>1. Alive(c) /\ LifeCycle(c)' /\ Only(c)
  BY <1>0, Zenon DEF Same, Alive, Silent, Ending, LifeCycle, Closed, Early
<1> QED
  BY <1>1, LiveMove, Zenon DEF Same, Opening

\* A step of the reader, of the timer or of the network: the main loop stays
\* where it is.
LEMMA BackgroundMove ==
    ASSUME TypeInv, Safe, NEW c \in Conns, Same(c), conn'[c].pc = conn[c].pc,
           UNCHANGED <<queues, obj, subs>>
    PROVE  Safe'
<1>0. LifeCycle(c) /\ Announced(c)
  BY SafeFacts, Zenon
<1>1. LifeCycle(c)'
  BY <1>0, Zenon DEF Same, LifeCycle, Closed
<1>2. Announced(c)'
  BY <1>0, Zenon DEF Same, Announced, WillIsLast, StillAlive, Closed
<1>3. LifeInv'
  BY <1>1, <1>2, OthersLive, Zenon DEF Same
<1>4. OwnershipInv' /\ DeliveryInv'
  BY QueuesStay, Zenon DEF Same
<1> QED
  BY <1>3, <1>4, Zenon DEF Safe

\* A step that changes nothing of what Safe is about.
LEMMA SafeStutters ==
    ASSUME Safe, UNCHANGED <<conn, queues, obj, subs>>
    PROVE  Safe'
<1>1. LifeInv'
  BY DEF Safe, LifeInv, LifeCycle, Announced, WillIsLast, StillAlive, Closed
<1>2. OwnershipInv'
  BY DEF Safe, OwnershipInv, Allocated, QueueOwnership
<1>3. DeliveryInv'
  BY Zenon DEF Safe, DeliveryInv, CleanSessionDelivery, OwnQueue
<1> QED
  BY <1>1, <1>2, <1>3, Zenon DEF Safe

LEMMA TablesKept ==
    /\ othersUnchanged => UNCHANGED <<queues, obj, subs>>
    /\ UNCHANGED queueVars => UNCHANGED <<queues, obj>>
    /\ UNCHANGED smVars => UNCHANGED subs
BY Zenon DEF othersUnchanged, queueVars, smVars

LEMMA ReaderSafe ==
    ASSUME TypeInv, Safe, NEW c \in Conns,
           Drop(c) \/ TimerFires(c) \/ ReaderStep(c) \/ AvailablePanics(c)
    PROVE  Safe'
<1>0. conn \in [Conns -> Conn] /\ conn[c] \in Conn
  BY ConnFacts, Zenon
<1>1. CASE Drop(c)
  <2>1. Same(c) /\ conn'[c].pc = conn[c].pc
    BY <1>0, <1>1, Zenon DEF Drop, Same, Only, Conn
  <2> QED
    BY <1>1, <2>1, BackgroundMove, TablesKept, Zenon DEF Drop
<1>2. CASE TimerFires(c)
  <2>1. Same(c) /\ conn'[c].pc = conn[c].pc
    BY <1>0, <1>2, Zenon DEF TimerFires, Same, Only, Conn
  <2> QED
    BY <1>2, <2>1, BackgroundMove, TablesKept, Zenon DEF TimerFires
<1>3. CASE \E p \in Offered(c) : ReadPacket(c, p)
  <2>0. PICK p \in Offered(c) : ReadPacket(c, p)
    BY <1>3, Zenon
  <2>1. Same(c) /\ conn'[c].pc = conn[c].pc
    BY <1>0, <2>0, Zenon DEF ReadPacket, Same, Only, Conn
  <2> QED
    BY <2>0, <2>1, BackgroundMove, TablesKept, Zenon DEF ReadPacket
<1>4. CASE ReadError(c)
  <2>0. conn' = [conn EXCEPT ![c].rd = "fail"] /\ othersUnchanged
    BY <1>4, Zenon DEF ReadError
  <2>1. Same(c) /\ conn'[c].pc = conn[c].pc
    BY <1>0, <2>0, Zenon DEF Same, Only, Conn
  <2> QED
    BY <2>0, <2>1, BackgroundMove, TablesKept, Zenon
<1>5. CASE ReaderPanics(c) \/ AvailablePanics(c)
  BY <1>5, SafeStutters, TablesKept, Zenon DEF ReaderPanics, AvailablePanics
<1> QED
  BY <1>1, <1>2, <1>3, <1>4, <1>5, Zenon DEF ReaderStep

LEMMA SelectSafe ==
    ASSUME TypeInv, Safe, NEW c \in Conns,
           TakePacket(c) \/ TakeReadError(c) \/ TakeTimeout(c) \/ TakeAvailable(c)
    PROVE  Safe'
<1>0. conn \in [Conns -> Conn] /\ conn[c] \in Conn /\ LifeCycle(c)
  BY ConnFacts, SafeFacts, Zenon
<1>1. CASE TakePacket(c)
  <2>1. Same(c) /\ conn[c].pc = "select" /\ conn'[c].pc = "handle"
    BY <1>0, <1>1, Zenon DEF TakePacket, Same, Only, Conn
  <2>2. Alive(c) /\ LifeCycle(c)'
    BY <1>0, <2>1, Zenon DEF Same, Alive, Silent, Ending, LifeCycle, Closed, Early
  <2> QED
    BY <1>1, <2>1, <2>2, LiveMove, TablesKept, Zenon DEF TakePacket, Same, Opening
<1>2. CASE TakeReadError(c)
  <2>1. Same(c) /\ conn[c].pc = "select" /\ conn'[c].pc = "disconnect"
    BY <1>0, <1>2, Zenon DEF TakeReadError, Same, Only, Conn
  <2> QED
    BY <1>2, <2>1, FailingMove, TablesKept, Zenon DEF TakeReadError
<1>3. CASE TakeTimeout(c)
  <2>1. Same(c) /\ conn[c].pc = "select" /\ conn'[c].pc = "disconnect"
    BY <1>0, <1>3, Zenon DEF TakeTimeout, Same, Only, Conn
  <2> QED
    BY <1>3, <2>1, FailingMove, TablesKept, Zenon DEF TakeTimeout
<1>4. CASE TakeAvailable(c)
  <2>0. conn[c].queue # None
    BY <1>4, BaseAssumption, Zenon DEF TakeAvailable, TypeInv, Shape, ObserverShape
  <2>1. Same(c) /\ conn[c].pc = "select" /\ conn'[c].pc = "drain"
    BY <1>4, GotoSame, Zenon DEF TakeAvailable
  <2>2. Alive(c) /\ LifeCycle(c)'
    BY <1>0, <2>0, <2>1, Zenon DEF Same, Alive, Silent, Ending, LifeCycle, Closed, Early
  <2> QED
    BY <1>4, <2>1, <2>2, LiveMove, TablesKept, Zenon DEF TakeAvailable, Same, Opening
<1> QED
  BY <1>1, <1>2, <1>3, <1>4, Zenon

\* Queue objects change in fields that neither say whose they are nor hold
\* the messages of a clean session: the observer, or the retain list of a
\* session that is past its opening.
LEMMA QueuesTouched ==
    ASSUME TypeInv, Safe, NEW c \in Conns, Same(c),
           conn[c].pc # "pop", conn'[c].pc # "pop",
           conn'[c].pc \in Opening => conn[c].pc \in Opening,
           \A o \in Conns : /\ obj'[o].id = obj[o].id
                            /\ obj'[o].persistent = obj[o].persistent
                            /\ obj'[o].pushed = obj[o].pushed
                            /\ obj'[o].syncq = obj[o].syncq,
           \A o \in Conns : \/ obj'[o].retainList = obj[o].retainList
                            \/ o = conn[c].queue /\ conn'[c].pc \notin Opening,
           UNCHANGED <<queues, subs>>
    PROVE  OwnershipInv' /\ DeliveryInv'
<1>t. /\ \A d \in Conns : conn[d].queue \in Conns \cup {None}
      /\ \A id \in Ids : queues[id] \in Conns \cup {None}
      /\ \A id \in Ids : \A t \in Topics : subs[id][t].queue \in Conns \cup {None}
  BY SafeFacts DEF TypeInv, TypeOK, QueueTypeOK, SmTypeOK, Subscription
<1>1. \A d \in Conns : conn'[d].queue = conn[d].queue /\ conn'[d].id = conn[d].id
  BY Zenon DEF Same, Only
<1>2. OwnershipInv'
  BY <1>1, <1>t DEF Safe, OwnershipInv, Allocated, QueueOwnership
<1>3. ASSUME NEW d \in Conns
      PROVE  Delivers(d)'
  <2>1. Delivers(d)
    BY DeliveryByConnection, Zenon DEF Safe
  <2>2. CASE d = c
    BY <2>1, <2>2, Zenon DEF Delivers, OwnQueue, Same
  <2>3. CASE d # c
    <3>1. OwnQueue(d) => conn[c].queue # d
      BY <2>3, BaseAssumption DEF OwnQueue, Safe, OwnershipInv, QueueOwnership
    <3> QED
      BY <2>1, <2>3, <3>1, Zenon DEF Delivers, OwnQueue, Same, Only
  <2> QED
    BY <2>2, <2>3, Zenon
<1>4. DeliveryInv'
  BY <1>3, Zenon DEF DeliveryInv, CleanSessionDelivery, Delivers, OwnQueue
<1> QED
  BY <1>2, <1>4, Zenon

LEMMA PacketSafe ==
    ASSUME TypeInv, Safe, NEW c \in Conns, PacketStep(c)
    PROVE  Safe'
<1>0. conn \in [Conns -> Conn] /\ conn[c] \in Conn /\ LifeCycle(c)
  BY ConnFacts, SafeFacts, Zenon
<1>1. CASE PublishInvalid(c) \/ PubAckInvalid(c) \/ UnrecognizedPacket(c)
  <2>1. conn[c].pc = "handle" /\ Goto(c, "disconnect") /\ othersUnchanged
    BY <1>1, Zenon DEF PublishInvalid, PubAckInvalid, UnrecognizedPacket, Handles
  <2> QED
    BY <2>1, GotoSame, FailingMove, TablesKept, Zenon
<1>2. CASE NotifiesTopics(c) \/ OnlyReplies(c)
  <2>1. PICK label \in {"reply", "notify"} :
            conn[c].pc = "handle" /\ Goto(c, label) /\ othersUnchanged
    BY <1>2, Zenon DEF NotifiesTopics, OnlyReplies
  <2>2. Same(c) /\ conn'[c].pc = label
    BY <2>1, GotoSame, Zenon
  <2>3. Alive(c) /\ LifeCycle(c)'
    BY <1>0, <2>1, <2>2, Zenon DEF Same, Alive, Silent, Ending, LifeCycle, Closed, Early
  <2> QED
    BY <2>1, <2>2, <2>3, LiveMove, TablesKept, Zenon DEF Same, Opening
<1>3. CASE NotifyTopic(c)
  <2> DEFINE p == conn[c].pkt
             t == p.topics[conn[c].k + 1]
             e == TopicEvent(TopicEventType(p.kind), conn[c].id, t, p.qos, npub + 1)
             s == Says(e.type, e)
  <2>0. conn[c].pc = "notify" /\ p \in Packet /\ conn[c].k \in Nat /\ conn[c].id \in Ids
    BY <1>0, <1>3, ConnFacts, Zenon DEF NotifyTopic, ConnShape, Handling, Conn
  <2>t. t \in Topics
    BY <2>0, ConnFacts DEF ConnShape, Packet
  <2>s. s \in Said /\ s.kind \notin {"will", "destroy"}
    BY <2>0, <2>t, Zenon DEF TopicEvent, TopicEventType, Says, Said
  <2>l. PICK label \in {"reply", "notify"} :
            conn' = [conn EXCEPT ![c].pc = label, ![c].k = @ + 1, ![c].said = Append(@, s)]
    BY <1>0, <1>3, <2>0, ZenonT(30) DEF NotifyTopic
  <2> HIDE DEF s
  <2>1. /\ Only(c) /\ conn'[c].pc = label /\ conn'[c].said = Append(conn[c].said, s)
        /\ conn'[c].queue = conn[c].queue /\ conn'[c].sent = conn[c].sent
        /\ conn'[c].id = conn[c].id /\ conn'[c].will = conn[c].will
        /\ conn'[c].state = conn[c].state
    BY <1>0, <2>l, Zenon DEF Only, Conn
  <2>2. Alive(c) /\ LifeCycle(c)'
    BY <1>0, <2>0, <2>1, <2>s, Zenon DEF Alive, Silent, Ending, LifeCycle, Closed, Early
  <2> QED
    BY <1>3, <2>0, <2>1, <2>2, LiveMove, TablesKept, Zenon DEF NotifyTopic, Opening
<1>4. CASE Reply(c)
  <2>1. PICK label \in {"select", "disconnect"} :
            conn[c].pc = "reply" /\ Goto(c, label) /\ othersUnchanged
    BY <1>4, Zenon DEF Reply
  <2>2. Same(c) /\ conn'[c].pc = label
    BY <2>1, GotoSame, Zenon
  <2>3. Alive(c) /\ LifeCycle(c)'
    BY <1>0, <2>1, <2>2, Zenon DEF Same, Alive, Silent, Ending, LifeCycle, Closed, Early
  <2> QED
    BY <2>1, <2>2, <2>3, LiveMove, TablesKept, Zenon DEF Same, Opening
<1>5. CASE PubAck(c)
  <2>1. /\ conn[c].pc = "handle" /\ Goto(c, "select") /\ conn[c].queue # None
        /\ RetainListRemove(conn[c].queue, conn[c].pkt.pid)
        /\ UNCHANGED smVars
    BY <1>5, Zenon DEF PubAck, Handles
  <2>2. Same(c) /\ conn'[c].pc = "select"
    BY <2>1, GotoSame, Zenon
  <2>3. Alive(c) /\ LifeCycle(c)'
    BY <1>0, <2>1, <2>2, Zenon DEF Same, Alive, Silent, Ending, LifeCycle, Closed, Early
  <2>4. LifeInv'
    BY <2>2, <2>3, AliveAnnounced, OthersLive, Zenon DEF Same
  <2>5. obj \in [Conns -> Queue] /\ conn[c].queue \in Conns
    BY <2>1, SafeFacts, Zenon DEF TypeInv, TypeOK, QueueTypeOK
  <2>6. \A o \in Conns : /\ obj'[o].id = obj[o].id
                         /\ obj'[o].persistent = obj[o].persistent
                         /\ obj'[o].pushed = obj[o].pushed
                         /\ obj'[o].syncq = obj[o].syncq
                         /\ o # conn[c].queue => obj'[o].retainList = obj[o].retainList
    BY <2>1, <2>5, Zenon DEF RetainListRemove, Queue
  <2>7. UNCHANGED <<queues, subs>>
    BY <2>1, TablesKept, Zenon DEF RetainListRemove
  <2>8. OwnershipInv' /\ DeliveryInv'
    BY <2>1, <2>2, <2>6, <2>7, QueuesTouched, Zenon DEF Opening
  <2> QED
    BY <2>4, <2>8, Zenon DEF Safe
<1>6. CASE PubAckPanics(c)
  BY <1>6, SafeStutters, TablesKept, Zenon DEF PubAckPanics
<1> QED
  BY <1>1, <1>2, <1>3, <1>4, <1>5, <1>6, Zenon DEF PacketStep

\* A step of a session towards its end.
LEMMA EndingMove ==
    ASSUME TypeInv, Safe, NEW c \in Conns, Only(c), LifeCycle(c)', Announced(c)',
           conn'[c].queue = conn[c].queue, conn'[c].sent = conn[c].sent,
           conn'[c].id = conn[c].id,
           conn[c].pc # "pop", conn'[c].pc \in Ending,
           UNCHANGED <<queues, obj, subs>>
    PROVE  Safe'
<1>1. LifeInv'
  BY OthersLive, Zenon
<1>2. OwnershipInv' /\ DeliveryInv'
  BY QueuesStay, Zenon DEF Ending, Opening
<1> QED
  BY <1>1, <1>2, Zenon DEF Safe

LEMMA DisconnectSafe ==
    ASSUME TypeInv, Safe, NEW c \in Conns, DisconnectStep(c)
    PROVE  Safe'
<1> DEFINE said == conn[c].said
           n == Len(said)
<1>0. /\ conn \in [Conns -> Conn] /\ conn[c] \in Conn /\ said \in Seq(Said)
      /\ LifeCycle(c) /\ Announced(c) /\ ConnShape(c) /\ conn[c].id \in Ids
      /\ conn[c].will \in Topics \cup {None}
  BY ConnFacts, SafeFacts, ConnFields, Zenon
<1>1. CASE DisconnectInvalid(c)
  <2>1. conn[c].pc = "handle" /\ Goto(c, "disconnect") /\ othersUnchanged
    BY <1>1, Zenon DEF DisconnectInvalid, Handles
  <2> QED
    BY <2>1, GotoSame, FailingMove, TablesKept
<1>2. CASE HandleDisconnect(c)
  <2>1. /\ Only(c) /\ conn[c].pc = "handle" /\ conn'[c].pc = "notifyDestroy"
        /\ conn'[c].queue = conn[c].queue /\ conn'[c].sent = conn[c].sent
        /\ conn'[c].id = conn[c].id /\ conn'[c].said = said
        /\ conn'[c].will = None /\ conn'[c].state = "Disconnecting"
    BY <1>0, <1>2, Zenon DEF HandleDisconnect, Handles, Only, Conn
  <2>2. LifeCycle(c)'
    BY <1>0, <2>1, Zenon DEF LifeCycle, Closed, Early
  <2>3. Announced(c)'
    BY <1>0, <2>1, Zenon DEF LifeCycle, Announced, WillIsLast, StillAlive, Closed
  <2> QED
    BY <1>2, <2>1, <2>2, <2>3, EndingMove, TablesKept, Zenon DEF HandleDisconnect, Ending
<1>3. CASE Disconnect(c)
  <2>l. PICK label \in {"exit", "notifyWill", "notifyDestroy"} :
            /\ conn' = [conn EXCEPT ![c].ret = "exit", ![c].pc = label]
            /\ label = "exit" <=> Closed(c)
            /\ label = "notifyDestroy" => conn[c].will = None
    BY <1>3, Zenon DEF Disconnect
  <2>1. /\ Same(c) /\ conn'[c].pc = label /\ conn[c].pc = "disconnect"
    BY <1>0, <1>3, <2>l DEF Disconnect, Same, Only, Conn
  <2>2. LifeCycle(c)'
    BY <1>0, <2>1, <2>l, Zenon DEF Same, LifeCycle, Closed, Early
  <2>3. Announced(c)'
    BY <1>0, <2>1, <2>l, Zenon DEF Same, Announced, WillIsLast, StillAlive, Closed
  <2> QED
    BY <1>3, <2>1, <2>2, <2>3, EndingMove, TablesKept, Zenon DEF Disconnect, Ending, Same
<1>4. CASE NotifyWill(c)
  <2> DEFINE s == Says("will", TopicEvent("publish", conn[c].id, conn[c].will, 0, npub + 1))
  <2>s. s \in Said /\ s.kind = "will"
    BY <1>0, Zenon DEF Says, TopicEvent, Said
  <2>l. conn[c].pc = "notifyWill" /\ UNCHANGED <<queueVars, smVars>>
        /\ conn' = [conn EXCEPT ![c].pc = "notifyDestroy", ![c].said = Append(@, s)]
    BY <1>4, Zenon DEF NotifyWill, Notify
  <2> HIDE DEF s
  <2>1. /\ Only(c) /\ conn'[c].pc = "notifyDestroy"
        /\ conn'[c].queue = conn[c].queue /\ conn'[c].sent = conn[c].sent
        /\ conn'[c].id = conn[c].id /\ conn'[c].said = Append(said, s)
        /\ conn'[c].will = conn[c].will /\ conn'[c].state = conn[c].state
    BY <1>0, <2>l, Zenon DEF Only, Conn
  <2>2. LifeCycle(c)'
    BY <1>0, <2>1, <2>l, Zenon DEF LifeCycle, Closed, Early
  <2>3. StillAlive(c, n) /\ ~ Closed(c) /\ conn[c].will # None
    BY <1>0, <2>l, Zenon DEF LifeCycle, Announced, ConnShape, Closed
  <2>4. /\ Len(conn'[c].said) = n + 1 /\ conn'[c].said[n + 1] = s
        /\ \A i \in 1..n : conn'[c].said[i] = said[i]
        /\ n \in Nat
    BY <1>0, <2>1, <2>s
  <2>5. Announced(c)'
    BY <2>1, <2>3, <2>4, <2>s DEF Announced, WillIsLast, StillAlive, Closed
  <2> QED
    BY <2>l, <2>1, <2>2, <2>5, EndingMove, TablesKept, Zenon DEF Ending
<1>5. CASE NotifyDestroy(c)
  <2> DEFINE s == Says("destroy", SessionEvent("destroy", conn[c].id))
  <2>s. s \in Said /\ s.kind = "destroy"
    BY <1>0, Zenon DEF Says, SessionEvent, Said
  <2>l. conn[c].pc = "notifyDestroy" /\ UNCHANGED <<queueVars, smVars>>
        /\ conn' = [conn EXCEPT ![c].pc = "teardown", ![c].said = Append(@, s)]
    BY <1>5, Zenon DEF NotifyDestroy, Notify
  <2> HIDE DEF s
  <2>1. /\ Only(c) /\ conn'[c].pc = "teardown"
        /\ conn'[c].queue = conn[c].queue /\ conn'[c].sent = conn[c].sent
        /\ conn'[c].id = conn[c].id /\ conn'[c].said = Append(said, s)
        /\ conn'[c].will = conn[c].will /\ conn'[c].state = conn[c].state
    BY <1>0, <2>l, Zenon DEF Only, Conn
  <2>2. LifeCycle(c)'
    BY <1>0, <2>1, <2>l, Zenon DEF LifeCycle, Closed, Early
  <2>3. WillIsLast(c, n)
    BY <1>0, <2>l, Zenon DEF LifeCycle, Announced, Closed
  <2>4. /\ Len(conn'[c].said) = n + 1 /\ conn'[c].said[n + 1] = s
        /\ \A i \in 1..n : conn'[c].said[i] = said[i]
        /\ n \in Nat
    BY <1>0, <2>1, <2>s
  <2>5. Announced(c)'
    BY <2>1, <2>3, <2>4, <2>s DEF Announced, WillIsLast, StillAlive, Closed
  <2> QED
    BY <2>l, <2>1, <2>2, <2>5, EndingMove, TablesKept, Zenon DEF Ending
<1>6. CASE Teardown(c)
  <2>0. conn[c].ret \in {"exit", "disconnect"} /\ conn[c].pc = "teardown"
    BY <1>0, <1>6, ConnFields, Zenon DEF Teardown, Returns
  <2>1. /\ Only(c) /\ conn'[c].pc = conn[c].ret
        /\ conn'[c].queue = conn[c].queue /\ conn'[c].sent = conn[c].sent
        /\ conn'[c].id = conn[c].id /\ conn'[c].said = said
        /\ conn'[c].will = conn[c].will /\ conn'[c].state = "Disconnected"
    BY <1>0, <1>6, Zenon DEF Teardown, Only, Conn
  <2>2. LifeCycle(c)'
    BY <1>0, <2>0, <2>1, Zenon DEF LifeCycle, Closed, Early
  <2>3. Announced(c)'
    BY <1>0, <2>0, <2>1, Zenon DEF Announced, WillIsLast, StillAlive, Closed
  <2> QED
    BY <1>6, <2>0, <2>1, <2>2, <2>3, EndingMove, TablesKept, Zenon DEF Teardown, Ending
<1> QED
  BY <1>1, <1>2, <1>3, <1>4, <1>5, <1>6, Zenon DEF DisconnectStep

\* A step of the delivery to c: it works on the queue of c, which is nobody
\* else's unless it is a persistent one.
LEMMA DeliveringMove ==
    ASSUME TypeInv, Safe, NEW c \in Conns, Only(c),
           conn[c].pc \in {"flush", "drain", "pop"},
           conn'[c].pc \in {"select", "drain", "pop"},
           conn'[c].queue = conn[c].queue, conn'[c].id = conn[c].id,
           conn'[c].will = conn[c].will, conn'[c].said = conn[c].said,
           conn'[c].state = conn[c].state,
           \A o \in Conns : obj'[o].id = obj[o].id /\ obj'[o].persistent = obj[o].persistent,
           \A o \in Conns \ {conn[c].queue} : obj'[o] = obj[o],
           Delivers(c)', UNCHANGED <<queues, subs>>
    PROVE  Safe'
<1>0. LifeCycle(c) /\ ConnShape(c)
  BY SafeFacts, Zenon
<1>1. Alive(c) /\ LifeCycle(c)'
  BY <1>0, Zenon DEF Alive, Silent, Ending, LifeCycle, ConnShape, Closed, Early
<1>2. LifeInv'
  BY <1>1, AliveAnnounced, OthersLive, Zenon
<1>t. /\ \A d \in Conns : conn[d].queue \in Conns \cup {None}
      /\ \A id \in Ids : queues[id] \in Conns \cup {None}
      /\ \A id \in Ids : \A t \in Topics : subs[id][t].queue \in Conns \cup {None}
  BY SafeFacts, Zenon DEF TypeInv, TypeOK, QueueTypeOK, SmTypeOK, Subscription
<1>3. \A d \in Conns : conn'[d].queue = conn[d].queue /\ conn'[d].id = conn[d].id
  BY Zenon DEF Only
<1>4. OwnershipInv'
  BY <1>3, <1>t, SMTT(30) DEF Safe, OwnershipInv, Allocated, QueueOwnership
<1>5. ASSUME NEW d \in Conns \ {c}
      PROVE  Delivers(d)'
  <2>1. Delivers(d)
    BY DeliveryByConnection, Zenon DEF Safe
  <2>2. OwnQueue(d) => conn[c].queue # d
    BY BaseAssumption DEF OwnQueue, Safe, OwnershipInv, QueueOwnership
  <2> QED
    BY <2>1, <2>2, Zenon DEF Delivers, OwnQueue, Only
<1>6. DeliveryInv'
  BY <1>5, Zenon DEF DeliveryInv, CleanSessionDelivery, Delivers, OwnQueue
<1> QED
  BY <1>2, <1>4, <1>6, Zenon DEF Safe

LEMMA SameMessages ==
    ASSUME NEW s \in Seq(Message), NEW t \in Seq(Message),
           Len(s) = Len(t), \A i \in 1..Len(s) : s[i] = t[i]
    PROVE  s = t
OBVIOUS

\* Moving the head of a queue to the end of what was sent.
LEMMA HeadMoves ==
    ASSUME NEW s \in Seq(Message), NEW q \in Seq(Message), q # <<>>
    PROVE  Append(s, Head(q)) \o Tail(q) = s \o q
<1>1. Head(q) \in Message /\ Tail(q) \in Seq(Message) /\ Len(Tail(q)) = Len(q) - 1 /\ Len(q) > 0
  OBVIOUS
<1>2. Append(s, Head(q)) \o Tail(q) \in Seq(Message) /\ s \o q \in Seq(Message)
  BY <1>1
<1>3. Len(Append(s, Head(q)) \o Tail(q)) = Len(s \o q)
  BY <1>1
<1>4. ASSUME NEW i \in 1..Len(s \o q)
      PROVE  (Append(s, Head(q)) \o Tail(q))[i] = (s \o q)[i]
  <2>1. CASE i <= Len(s)
    BY <1>1, <2>1
  <2>2. CASE i = Len(s) + 1
    BY <1>1, <2>2
  <2>3. CASE i > Len(s) + 1
    BY <1>1, <2>3
  <2> QED
    BY <2>1, <2>2, <2>3
<1> QED
  BY <1>2, <1>3, <1>4, SameMessages, Zenon

LEMMA DrainSafe ==
    ASSUME TypeInv, Safe, NEW c \in Conns, DrainStep(c)
    PROVE  Safe'
<1>0. /\ conn \in [Conns -> Conn] /\ conn[c] \in Conn /\ ConnShape(c)
      /\ conn[c].sent \in Seq(Message) /\ Delivers(c) /\ obj \in [Conns -> Queue]
  BY ConnFacts, SafeFacts, DeliveryByConnection, Zenon DEF Safe, TypeInv, TypeOK, QueueTypeOK
<1>q. conn[c].pc \in {"flush", "drain", "pop"} => conn[c].queue \in Conns
  BY <1>0, SafeFacts, Zenon DEF ConnShape
<1>o. obj[c].syncq \in Seq(Message) /\ obj[c].retainList \in Seq(Message)
  BY <1>0, Zenon DEF Queue
<1>1. CASE Flush(c)
  <2> DEFINE s == IF conn[c].up THEN conn[c].sent \o obj[conn[c].queue].retainList
                                ELSE conn[c].sent
  <2>0. conn[c].pc = "flush" /\ conn' = [conn EXCEPT ![c].pc = "drain", ![c].sent = s]
        /\ UNCHANGED <<queues, obj, subs>>
    BY <1>1, TablesKept, Zenon DEF Flush
  <2>s. OwnQueue(c) => s = conn[c].sent
    <3>1. OwnQueue(c) => conn[c].queue = c /\ obj[c].retainList = <<>>
      BY <1>0, <2>0, Zenon DEF Delivers, OwnQueue, Opening
    <3>2. conn[c].sent \o <<>> = conn[c].sent
      BY <1>0
    <3> QED
      BY <3>1, <3>2, Zenon
  <2> HIDE DEF s
  <2>1. /\ Only(c) /\ conn'[c].pc = "drain" /\ conn'[c].sent = s
        /\ conn'[c].queue = conn[c].queue /\ conn'[c].id = conn[c].id
        /\ conn'[c].will = conn[c].will /\ conn'[c].said = conn[c].said
        /\ conn'[c].state = conn[c].state
    BY <1>0, <2>0, Zenon DEF Only, Conn
  <2>2. Delivers(c)'
    BY <1>0, <2>0, <2>1, <2>s, Zenon DEF Delivers, OwnQueue, Opening
  <2> QED
    BY <2>0, <2>1, <2>2, DeliveringMove, Zenon
<1>2. CASE DrainSend(c)
  <2> DEFINE h == Head(Contents(conn[c].queue))
  <2>0. /\ conn[c].pc = "drain" /\ Contents(conn[c].queue) # <<>>
        /\ conn' = [conn EXCEPT ![c].pc = "pop", ![c].cur = h, ![c].sent = Append(@, h)]
        /\ UNCHANGED <<queues, obj, subs>>
    BY <1>2, TablesKept, Zenon DEF DrainSend
  <2>h. OwnQueue(c) => h = Head(obj[c].syncq) /\ obj[c].syncq # <<>>
    BY <2>0, Zenon DEF OwnQueue, Contents
  <2> HIDE DEF h
  <2>1. /\ Only(c) /\ conn'[c].pc = "pop" /\ conn'[c].sent = Append(conn[c].sent, h)
        /\ conn'[c].queue = conn[c].queue /\ conn'[c].id = conn[c].id
        /\ conn'[c].will = conn[c].will /\ conn'[c].said = conn[c].said
        /\ conn'[c].state = conn[c].state
    BY <1>0, <2>0, Zenon DEF Only, Conn
  <2>2. OwnQueue(c) => conn'[c].sent \o Tail(obj[c].syncq) = conn[c].sent \o obj[c].syncq
    <3>1. obj[c].syncq # <<>> =>
              Append(conn[c].sent, Head(obj[c].syncq)) \o Tail(obj[c].syncq)
                  = conn[c].sent \o obj[c].syncq
      BY <1>0, <1>o, HeadMoves, Zenon
    <3> QED
      BY <2>1, <2>h, <3>1, Zenon
  <2>3. Delivers(c)'
    BY <1>0, <2>0, <2>1, <2>2, <2>h, Zenon DEF Delivers, OwnQueue, Opening
  <2> QED
    BY <2>0, <2>1, <2>3, DeliveringMove, Zenon
<1>3. CASE DrainPop(c)
  <2>0. /\ conn[c].pc = "pop" /\ conn' = [conn EXCEPT ![c].pc = "drain", ![c].cur = None]
        /\ PopAndRetain(conn[c].queue, conn[c].cur)
        /\ UNCHANGED <<queues, subs>>
    BY <1>3, TablesKept, Zenon DEF DrainPop, PopAndRetain
  <2>1. Same(c) /\ conn'[c].pc = "drain"
    BY <1>0, <2>0, Zenon DEF Same, Only, Conn
  <2>2. /\ \A o \in Conns : obj'[o].id = obj[o].id /\ obj'[o].persistent = obj[o].persistent
        /\ \A o \in Conns \ {conn[c].queue} : obj'[o] = obj[o]
        /\ \A o \in Conns : obj'[o].pushed = obj[o].pushed
        /\ OwnQueue(c) => obj'[c].syncq = DropHead(obj[c].syncq)
    BY <1>0, <1>q, <2>0, ZenonT(30) DEF PopAndRetain, OwnQueue, Queue
  <2>3. OwnQueue(c) => obj'[c].syncq = Tail(obj[c].syncq)
    BY <1>0, <2>0, <2>2, Zenon DEF Delivers, DropHead
  <2>4. Delivers(c)'
    BY <1>0, <2>0, <2>1, <2>2, <2>3, Zenon DEF Delivers, OwnQueue, Same, Opening
  <2> QED
    BY <2>0, <2>1, <2>2, <2>4, DeliveringMove, Zenon DEF Same
<1>4. CASE DrainDone(c)
  <2>0. conn[c].pc = "drain" /\ Goto(c, "select") /\ UNCHANGED <<queues, obj, subs>>
    BY <1>4, TablesKept, Zenon DEF DrainDone
  <2>1. Same(c) /\ conn'[c].pc = "select"
    BY <2>0, GotoSame, Zenon
  <2>2. Delivers(c)'
    BY <1>0, <2>0, <2>1, Zenon DEF Delivers, OwnQueue, Same, Opening
  <2> QED
    BY <2>0, <2>1, <2>2, DeliveringMove, Zenon DEF Same
<1> QED
  BY <1>1, <1>2, <1>3, <1>4, Zenon DEF DrainStep

\* A step of the session manager: queues and subscriptions may be dropped, and
\* a subscription may be given the queue registered for its client.
LEMMA ManagerMove ==
    ASSUME TypeInv, Safe, UNCHANGED conn,
           \A o \in Conns : obj'[o].id = obj[o].id /\ obj'[o].persistent = obj[o].persistent,
           \A id \in Ids : queues'[id] \in {queues[id], None},
           \A id \in Ids : \A t \in Topics :
                subs'[id][t].queue \in {subs[id][t].queue, queues[id], None},
           \A o \in Conns : Delivers(o)'
    PROVE  Safe'
<1>1. LifeInv'
  BY DEF Safe, LifeInv, LifeCycle, Announced, WillIsLast, StillAlive, Closed
<1>t. /\ \A d \in Conns : conn[d].queue \in Conns \cup {None}
      /\ \A id \in Ids : queues[id] \in Conns \cup {None}
      /\ \A id \in Ids : \A t \in Topics : subs[id][t].queue \in Conns \cup {None}
  BY SafeFacts DEF TypeInv, TypeOK, QueueTypeOK, SmTypeOK, Subscription
<1>2. OwnershipInv'
  <2>1. Allocated'
    BY <1>t DEF Safe, OwnershipInv, Allocated
  <2>2. QueueOwnership'
    BY <1>t DEF Safe, OwnershipInv, QueueOwnership
  <2> QED
    BY <2>1, <2>2, Zenon DEF OwnershipInv
<1>3. DeliveryInv'
  BY Zenon DEF DeliveryInv, CleanSessionDelivery, Delivers, OwnQueue
<1> QED
  BY <1>1, <1>2, <1>3, Zenon DEF Safe

\* Storing a message at the end of a queue, with or without its head.
LEMMA EndGrows ==
    ASSUME NEW s \in Seq(Message), NEW q \in Seq(Message), NEW m \in Message
    PROVE  /\ Append(s \o q, m) = s \o Append(q, m)
           /\ q # <<>> => Tail(Append(q, m)) = Append(Tail(q), m)
           /\ Append(q, m) # <<>>
<1>1. Append(s \o q, m) = s \o Append(q, m)
  <2>1. Append(s \o q, m) \in Seq(Message) /\ s \o Append(q, m) \in Seq(Message)
    OBVIOUS
  <2>2. Len(Append(s \o q, m)) = Len(s \o Append(q, m))
    OBVIOUS
  <2>3. \A i \in 1..Len(Append(s \o q, m)) : Append(s \o q, m)[i] = (s \o Append(q, m))[i]
    OBVIOUS
  <2> QED
    BY <2>1, <2>2, <2>3, SameMessages, Zenon
<1>2. ASSUME q # <<>>
      PROVE  Tail(Append(q, m)) = Append(Tail(q), m)
  <2>1. Tail(Append(q, m)) \in Seq(Message) /\ Append(Tail(q), m) \in Seq(Message)
    BY <1>2
  <2>2. Len(Tail(Append(q, m))) = Len(Append(Tail(q), m))
    BY <1>2
  <2>3. \A i \in 1..Len(Tail(Append(q, m))) : Tail(Append(q, m))[i] = Append(Tail(q), m)[i]
    BY <1>2
  <2> QED
    BY <2>1, <2>2, <2>3, SameMessages, Zenon
<1>3. Append(q, m) # <<>>
  OBVIOUS
<1> QED
  BY <1>1, <1>2, <1>3, Zenon

\* Pushback stores a message at the end of a queue, whatever its session does.
LEMMA StoreDelivers ==
    ASSUME TypeInv, Safe, NEW o \in Conns, NEW m \in Message, Store(o, m), UNCHANGED conn
    PROVE  /\ \A d \in Conns : obj'[d].id = obj[d].id /\ obj'[d].persistent = obj[d].persistent
           /\ \A d \in Conns : Delivers(d)'
<1>0. obj \in [Conns -> Queue] /\ obj[o] \in Queue
  BY Zenon DEF TypeInv, TypeOK, QueueTypeOK
<1>1. /\ \A d \in Conns : /\ obj'[d].id = obj[d].id
                          /\ obj'[d].persistent = obj[d].persistent
                          /\ obj'[d].retainList = obj[d].retainList
      /\ \A d \in Conns \ {o} : obj'[d] = obj[d]
      /\ obj'[o].pushed = Append(obj[o].pushed, m)
      /\ ~ obj[o].persistent => obj'[o].syncq = Append(obj[o].syncq, m)
  BY <1>0, Zenon DEF Store, Queue
<1>2. ASSUME NEW d \in Conns
      PROVE  Delivers(d)'
  <2>0. Delivers(d)
    BY DeliveryByConnection, Zenon DEF Safe
  <2>1. CASE d # o
    BY <1>1, <2>0, <2>1, Zenon DEF Delivers, OwnQueue
  <2>2. CASE d = o
    <3> SUFFICES ASSUME OwnQueue(o)
                 PROVE  Delivers(o)'
      BY <1>1, <2>2, Zenon DEF Delivers, OwnQueue
    <3> DEFINE q == obj[o].syncq
               s == conn[o].sent
    <3>1. q \in Seq(Message) /\ s \in Seq(Message)
      BY <1>0, SafeFacts, Zenon DEF Queue
    <3>2. /\ obj[o].pushed = s \o (IF conn[o].pc = "pop" THEN Tail(q) ELSE q)
          /\ conn[o].pc \in Opening => obj[o].retainList = <<>>
          /\ conn[o].pc = "pop" => q # <<>>
          /\ obj'[o].syncq = Append(q, m)
      BY <1>1, <2>0, <2>2, Zenon DEF Delivers, OwnQueue
    <3>3. Append(q, m) # <<>>
      BY <3>1, EndGrows, Zenon
    <3>4. CASE conn[o].pc = "pop"
      <4>1. Tail(q) \in Seq(Message)
        BY <3>1, <3>2, <3>4
      <4>2. obj'[o].pushed = s \o Append(Tail(q), m)
        <5>1. Append(s \o Tail(q), m) = s \o Append(Tail(q), m)
          BY <3>1, <4>1, EndGrows, Zenon
        <5> QED
          BY <1>1, <3>2, <3>4, <5>1, Zenon
      <4>3. Tail(Append(q, m)) = Append(Tail(q), m)
        BY <3>1, <3>2, <3>4, EndGrows
      <4> QED
        BY <1>1, <3>2, <3>3, <3>4, <4>2, <4>3, Zenon DEF Delivers, Opening
    <3>5. CASE conn[o].pc # "pop"
      <4>1. obj'[o].pushed = s \o Append(q, m)
        <5>1. Append(s \o q, m) = s \o Append(q, m)
          BY <3>1, EndGrows, Zenon
        <5> QED
          BY <1>1, <3>2, <3>5, <5>1, Zenon
      <4> QED
        BY <1>1, <3>2, <3>5, <4>1, Zenon DEF Delivers
    <3> QED
      BY <3>4, <3>5, Zenon
  <2> QED
    BY <2>1, <2>2, Zenon
<1> QED
  BY <1>1, <1>2, Zenon

LEMMA ManagerSafe ==
    ASSUME TypeInv, Safe, ManagerStep
    PROVE  Safe'
<1>0. /\ subs \in [Ids -> [Topics -> Subscription]] /\ obj \in [Conns -> Queue]
      /\ queues \in [Ids -> Conns \cup {None}] /\ ManagerShape /\ sm \in Manager
      /\ topics \in [Ids -> Seq(Topics)]
  BY Zenon DEF TypeInv, TypeOK, SmTypeOK, QueueTypeOK, Shape
<1>c. sm.pc # "idle" => sm.cur \in Event /\ sm.cur.client \in Ids
  BY <1>0, Zenon DEF ManagerShape, Manager, Event
<1>u. UNCHANGED conn
  BY Zenon DEF ManagerStep, sessionVars
<1>d. \A d \in Conns : Delivers(d)
  BY DeliveryByConnection, Zenon DEF Safe
<1>1. CASE OnTopicSubscribe
  <2>1. UNCHANGED <<queues, obj>> /\ sm.pc = "subscribe"
    BY <1>1, TablesKept, Zenon DEF OnTopicSubscribe
  <2>2. \A id \in Ids : \A t \in Topics :
            subs'[id][t].queue \in {subs[id][t].queue, queues[id], None}
    BY <1>0, <1>1, <1>c, <2>1, Zenon DEF OnTopicSubscribe
  <2>3. \A d \in Conns : Delivers(d)'
    BY <1>u, <1>d, <2>1, Zenon DEF Delivers, OwnQueue
  <2> QED
    BY <1>u, <2>1, <2>2, <2>3, ManagerMove, Zenon
<1>2. ASSUME NEW id \in Ids, NEW t, RemoveSubscription(id, t), UNCHANGED queueVars
      PROVE  Safe'
  <2>1. UNCHANGED <<queues, obj>>
    BY <1>2, TablesKept, Zenon
  <2>2. \A i \in Ids : \A u \in Topics :
            subs'[i][u].queue \in {subs[i][u].queue, queues[i], None}
    BY <1>0, <1>2, Zenon DEF RemoveSubscription, NoSubscription
  <2>3. \A d \in Conns : Delivers(d)'
    BY <1>u, <1>d, <2>1, Zenon DEF Delivers, OwnQueue
  <2> QED
    BY <1>u, <2>1, <2>2, <2>3, ManagerMove, Zenon
<1>3. CASE OnTopicUnsubscribe \/ SweepTopic
  BY <1>2, <1>3, <1>c, Zenon DEF OnTopicUnsubscribe, SweepTopic
<1>4. CASE \E id \in Ids : PushTo(id)
  <2>0. PICK id \in Ids : PushTo(id)
    BY <1>4, Zenon
  <2> DEFINE sub == subs[id][sm.cur.topic]
             m == [mid |-> sm.cur.mid, topic |-> sm.cur.topic, qos |-> sub.qos, dup |-> FALSE]
  <2>1. /\ sm.pc = "push" /\ id \in sm.pending /\ Store(sub.queue, m)
        /\ UNCHANGED <<queues, subs>>
    BY <2>0, Zenon DEF PushTo, Store
  <2>2. sm.cur.topic \in Topics /\ sub \in Subscription /\ sub.queue # None
    BY <1>0, <1>c, <2>1, Zenon DEF Manager, ManagerShape, Publishing, Event
  <2>3. sub.queue \in Conns /\ m \in Message
    BY <1>c, <2>1, <2>2, Zenon DEF Subscription, Message, Event
  <2> HIDE DEF sub, m
  <2>4. /\ \A d \in Conns : obj'[d].id = obj[d].id /\ obj'[d].persistent = obj[d].persistent
        /\ \A d \in Conns : Delivers(d)'
    BY <1>u, <2>1, <2>3, StoreDelivers, Zenon
  <2> QED
    BY <1>u, <2>1, <2>4, ManagerMove, Zenon
<1>5. CASE ClearObserver
  <2>1. UNCHANGED <<queues, subs>>
    BY <1>5, Zenon DEF ClearObserver
  <2>2. \A o \in Conns : /\ obj'[o].id = obj[o].id
                         /\ obj'[o].persistent = obj[o].persistent
                         /\ obj'[o].syncq = obj[o].syncq
                         /\ obj'[o].retainList = obj[o].retainList
                         /\ obj'[o].pushed = obj[o].pushed
    BY <1>0, <1>5, Zenon DEF ClearObserver, Queue
  <2>3. \A d \in Conns : Delivers(d)'
    BY <1>u, <1>d, <2>2, Zenon DEF Delivers, OwnQueue
  <2> QED
    BY <1>u, <2>1, <2>2, <2>3, ManagerMove, Zenon
<1>6. CASE DestroyFreesQueue
  <2>1. UNCHANGED <<obj, subs>> /\ \A id \in Ids : queues'[id] \in {queues[id], None}
    BY <1>0, <1>6, Zenon DEF DestroyFreesQueue, DestroyQueue
  <2>2. \A d \in Conns : Delivers(d)'
    BY <1>u, <1>d, <2>1, Zenon DEF Delivers, OwnQueue
  <2> QED
    BY <1>u, <2>1, <2>2, ManagerMove, Zenon
<1>7. CASE \/ OnSessionCreate \/ OnTopicPublish \/ Wake \/ PublishDone
           \/ OnSessionDestroy \/ SweepDone \/ DestroyRemovesSession
  <2>1. UNCHANGED <<queues, obj, subs>>
    BY <1>7, TablesKept, Zenon DEF OnSessionCreate, OnTopicPublish, Wake, PublishDone,
       OnSessionDestroy, SweepDone, DestroyRemovesSession
  <2> QED
    BY <1>u, <2>1, SafeStutters, Zenon
<1> QED
  BY <1>1, <1>3, <1>4, <1>5, <1>6, <1>7, Zenon DEF ManagerStep

LEMMA EventSafe ==
    ASSUME Safe, EventStep
    PROVE  Safe'
<1>1. UNCHANGED <<conn, queues, obj, subs>>
  BY TablesKept, Zenon DEF EventStep, HandOver, TakeEvent, sessionVars
<1> QED
  BY <1>1, SafeStutters, Zenon

LEMMA OpeningMove ==
    ASSUME TypeInv, Safe, NEW c \in Conns, Only(c), Alive(c), LifeCycle(c)',
           OwnershipInv', \A d \in Conns : Delivers(d)'
    PROVE  Safe'
<1>1. LifeInv'
  BY AliveAnnounced, OthersLive, Zenon
<1>2. DeliveryInv'
  BY Zenon DEF DeliveryInv, CleanSessionDelivery, Delivers, OwnQueue
<1> QED
  BY <1>1, <1>2, Zenon DEF Safe

\* newQueue returns the persistent queue of the client.
LEMMA ShareSafe ==
    ASSUME TypeInv, Safe, NEW c \in Conns, ConnectSharesQueue(c)
    PROVE  Safe'
<1> DEFINE q == queues[conn[c].id]
<1>0. conn \in [Conns -> Conn] /\ conn[c] \in Conn /\ LifeCycle(c) /\ conn[c].id \in Ids
  BY ConnFacts, SafeFacts, Zenon
<1>t. /\ \A d \in Conns : conn[d].queue \in Conns \cup {None}
      /\ \A id \in Ids : queues[id] \in Conns \cup {None}
      /\ \A id \in Ids : \A t \in Topics : subs[id][t].queue \in Conns \cup {None}
  BY SafeFacts, Zenon DEF TypeInv, TypeOK, QueueTypeOK, SmTypeOK, Subscription
<1>1. /\ conn[c].pc = "newqueue" /\ q \in Conns /\ obj[q].persistent
      /\ UNCHANGED <<queues, obj, subs>>
  BY <1>0, <1>t, TablesKept, Zenon DEF ConnectSharesQueue, NewQueueShared
<1>2. /\ Only(c) /\ conn'[c].pc = "observe" /\ conn'[c].queue = q
      /\ conn'[c].id = conn[c].id /\ conn'[c].said = conn[c].said
      /\ conn'[c].state = conn[c].state
  BY <1>0, Zenon DEF ConnectSharesQueue, Only, Conn
<1>3. conn[c].state = "New" /\ conn[c].queue = None
  BY <1>0, <1>1, Zenon DEF LifeCycle, Early
<1>4. q # c /\ conn[q].queue = q /\ obj[q].id = conn[c].id
  BY <1>0, <1>1, <1>3, BaseAssumption DEF Safe, OwnershipInv, Allocated, QueueOwnership
<1>5. Alive(c) /\ LifeCycle(c)'
  BY <1>0, <1>1, <1>2, <1>3, BaseAssumption, Zenon DEF Alive, Silent, Ending, LifeCycle, Closed,
     Early
<1> HIDE DEF q
<1>6. conn'[q] = conn[q] /\ \A d \in Conns : conn[d].queue # c
  BY <1>1, <1>2, <1>3, <1>4, BaseAssumption, Zenon DEF Only, Safe, OwnershipInv, Allocated
<1>7. Allocated'
  <2>1. \A d \in Conns : conn[d].queue = d => conn'[d].queue = d
    BY <1>2, <1>6, Zenon DEF Only
  <2> QED
    BY <1>1, <1>2, <1>4, <1>6, <1>t, <2>1 DEF Only, Safe, OwnershipInv, Allocated
<1>8. QueueOwnership'
  BY <1>1, <1>2, <1>4 DEF Only, Safe, OwnershipInv, QueueOwnership
<1>9. ASSUME NEW d \in Conns
      PROVE  Delivers(d)'
  <2>1. Delivers(d)
    BY DeliveryByConnection, Zenon DEF Safe
  <2>2. CASE d = c
    BY <1>2, <1>4, <2>2, Zenon DEF Delivers, OwnQueue
  <2>3. CASE d # c
    BY <1>1, <1>2, <2>1, <2>3, Zenon DEF Delivers, OwnQueue, Only
  <2> QED
    BY <2>2, <2>3, Zenon
<1> QED
  BY <1>2, <1>5, <1>7, <1>8, <1>9, OpeningMove, Zenon DEF OwnershipInv

\* newQueue allocates a queue that nobody has referred to before.
LEMMA AllocateSafe ==
    ASSUME TypeInv, Safe, NEW c \in Conns, ConnectAllocatesQueue(c)
    PROVE  Safe'
<1> DEFINE f == FreshQueue(conn[c].id, ~ conn[c].pkt.clean)
<1>0. conn \in [Conns -> Conn] /\ conn[c] \in Conn /\ LifeCycle(c) /\ conn[c].id \in Ids
  BY ConnFacts, SafeFacts
<1>t. /\ \A d \in Conns : conn[d].queue \in Conns \cup {None}
      /\ queues \in [Ids -> Conns \cup {None}]
      /\ \A id \in Ids : \A t \in Topics : subs[id][t].queue \in Conns \cup {None}
      /\ obj \in [Conns -> Queue]
  BY SafeFacts, Zenon DEF TypeInv, TypeOK, QueueTypeOK, SmTypeOK, Subscription
<1>1. /\ conn[c].pc = "allocate" /\ queues' = [queues EXCEPT ![conn[c].id] = c]
      /\ obj' = [obj EXCEPT ![c] = f] /\ UNCHANGED subs
  BY TablesKept, Zenon DEF ConnectAllocatesQueue, NewQueueAllocates
<1>2. /\ Only(c) /\ conn'[c].pc = "observe" /\ conn'[c].queue = c
      /\ conn'[c].id = conn[c].id /\ conn'[c].said = conn[c].said
      /\ conn'[c].state = conn[c].state /\ conn'[c].sent = conn[c].sent
  BY <1>0, Zenon DEF ConnectAllocatesQueue, Only, Conn
<1>3. conn[c].state = "New" /\ conn[c].queue = None /\ conn[c].sent = <<>>
  BY <1>0, <1>1, Zenon DEF LifeCycle
<1>4. Alive(c) /\ LifeCycle(c)'
  BY <1>1, <1>2, <1>3, BaseAssumption, Zenon DEF Alive, Silent, Ending, LifeCycle, Closed, Early
<1>f. f.id = conn[c].id /\ f.syncq = <<>> /\ f.retainList = <<>> /\ f.pushed = <<>>
  BY Zenon DEF FreshQueue
<1> HIDE DEF f
<1>5. /\ obj'[c] = f /\ \A o \in Conns \ {c} : obj'[o] = obj[o]
      /\ queues'[conn[c].id] = c /\ \A id \in Ids \ {conn[c].id} : queues'[id] = queues[id]
  BY <1>0, <1>1, <1>t, Zenon
<1>6. /\ \A d \in Conns : conn[d].queue # c
      /\ \A id \in Ids : queues[id] # c
      /\ \A id \in Ids : \A t \in Topics : subs[id][t].queue # c
  BY <1>3, BaseAssumption, Zenon DEF Safe, OwnershipInv, Allocated
<1>7. Allocated'
  <2>1. \A d \in Conns : conn[d].queue = d => conn'[d].queue = d
    BY <1>2, <1>6, Zenon DEF Only
  <2>2. \A d \in Conns : conn'[d].queue # None => conn'[conn'[d].queue].queue = conn'[d].queue
    BY <1>2, <1>t, <2>1 DEF Only, Safe, OwnershipInv, Allocated
  <2>3. \A id \in Ids : queues'[id] # None => conn'[queues'[id]].queue = queues'[id]
    BY <1>2, <1>5, <1>t, <2>1, ZenonT(30) DEF Safe, OwnershipInv, Allocated
  <2>4. \A id \in Ids : \A t \in Topics :
            subs[id][t].queue # None => conn'[subs[id][t].queue].queue = subs[id][t].queue
    BY <1>t, <2>1, Zenon DEF Safe, OwnershipInv, Allocated
  <2> QED
    BY <1>1, <2>2, <2>3, <2>4, Zenon DEF Allocated
<1>8. QueueOwnership'
  <2>1. ASSUME NEW d \in Conns, conn'[d].queue # None
        PROVE  /\ obj'[conn'[d].queue].id = conn'[d].id
               /\ conn'[d].queue = d \/ obj'[conn'[d].queue].persistent
    <3>1. CASE d = c
      BY <1>2, <1>5, <1>f, <3>1, Zenon
    <3>2. CASE d # c
      BY <1>2, <1>5, <1>6, <1>t, <2>1, <3>2 DEF Only, Safe, OwnershipInv, QueueOwnership
    <3> QED
      BY <3>1, <3>2, Zenon
  <2>2. \A id \in Ids : queues'[id] # None => obj'[queues'[id]].id = id
    BY <1>5, <1>6, <1>f, <1>t DEF Safe, OwnershipInv, QueueOwnership
  <2>3. \A id \in Ids : \A t \in Topics :
            subs[id][t].queue # None => obj'[subs[id][t].queue].id = id
    BY <1>5, <1>6, <1>t DEF Safe, OwnershipInv, QueueOwnership
  <2> QED
    BY <1>1, <2>1, <2>2, <2>3 DEF QueueOwnership
<1>9. ASSUME NEW d \in Conns
      PROVE  Delivers(d)'
  <2>1. Delivers(d)
    BY DeliveryByConnection DEF Safe
  <2>2. CASE d = c
    <3>1. /\ obj'[c].pushed = <<>> /\ obj'[c].syncq = <<>> /\ obj'[c].retainList = <<>>
          /\ conn'[c].sent = <<>> /\ conn'[c].pc = "observe"
      BY <1>2, <1>3, <1>5, <1>f, Zenon
    <3>2. <<>> \o <<>> = <<>>
      OBVIOUS
    <3>3. obj'[c].pushed = conn'[c].sent \o obj'[c].syncq
      BY <3>1, <3>2, Zenon
    <3> QED
      BY <2>2, <3>1, <3>3, Zenon DEF Delivers
  <2>3. CASE d # c
    BY <1>2, <1>5, <2>1, <2>3, Zenon DEF Delivers, OwnQueue, Only
  <2> QED
    BY <2>2, <2>3
<1> QED
  BY <1>2, <1>4, <1>7, <1>8, <1>9, OpeningMove, Zenon DEF OwnershipInv

LEMMA ConnectSafe ==
    ASSUME TypeInv, Safe, NEW c \in Conns, ConnectStep(c)
    PROVE  Safe'
<1>0. /\ conn \in [Conns -> Conn] /\ conn[c] \in Conn /\ LifeCycle(c) /\ Announced(c)
      /\ ConnShape(c) /\ conn[c].id \in Ids /\ conn[c].queue \in Conns \cup {None}
  BY ConnFacts, SafeFacts, Zenon
<1>1. CASE ConnectInvalid(c) \/ ConnectQueueFails(c)
  <2>1. /\ conn[c].pc \in {"handle", "allocate"} /\ Goto(c, "disconnect")
        /\ othersUnchanged
    BY <1>1, Zenon DEF ConnectInvalid, ConnectQueueFails, Handles
  <2> QED
    BY <2>1, GotoSame, FailingMove, TablesKept, Zenon
<1>2. CASE ConnectRefused(c)
  <2>1. /\ Same(c) /\ conn[c].pc = "handle" /\ conn'[c].pc = "notifyDestroy"
        /\ conn[c].state = "New"
    BY <1>0, <1>2, Zenon DEF ConnectRefused, Handles, Same, Only, Conn
  <2>2. LifeCycle(c)'
    BY <1>0, <2>1, Zenon DEF Same, LifeCycle, Closed, Early
  <2>3. Announced(c)'
    BY <1>0, <2>1, Zenon DEF Same, LifeCycle, Announced, WillIsLast, StillAlive, Closed, Early
  <2> QED
    BY <1>2, <2>1, <2>2, <2>3, EndingMove, TablesKept, Zenon DEF ConnectRefused, Same, Ending
<1>3. CASE ConnectAccepted(c)
  <2>l. PICK label \in {"newqueue", "resume", "remove"} :
            conn' = [conn EXCEPT ![c].id = conn[c].pkt.client, ![c].pc = label]
    BY <1>3, Zenon DEF ConnectAccepted
  <2>0. conn[c].pc = "handle" /\ conn[c].state = "New" /\ othersUnchanged
    BY <1>3, Zenon DEF ConnectAccepted, Handles
  <2>1. /\ Only(c) /\ conn'[c].pc = label
        /\ conn'[c].queue = conn[c].queue /\ conn'[c].sent = conn[c].sent
        /\ conn'[c].said = conn[c].said /\ conn'[c].will = conn[c].will
        /\ conn'[c].state = conn[c].state
    BY <1>0, <2>l, Zenon DEF Only, Conn
  <2>2. conn[c].queue = None
    BY <1>0, <2>0, Zenon DEF LifeCycle, Early
  <2>3. Alive(c) /\ LifeCycle(c)'
    BY <1>0, <2>0, <2>1, Zenon DEF Alive, Silent, Ending, LifeCycle, Closed, Early
  <2> QED
    BY <2>0, <2>1, <2>2, <2>3, LiveMove, TablesKept, Zenon DEF Opening
<1>4. CASE ConnectNotifiesResume(c)
  <2> DEFINE s == Says("resume", SessionEvent("resume", conn[c].id))
  <2>s. s \in Said /\ s.kind = "resume"
    BY <1>0, Zenon DEF Says, SessionEvent, Said
  <2>l. conn[c].pc = "resume" /\ UNCHANGED <<queueVars, smVars>>
        /\ conn' = [conn EXCEPT ![c].pc = "remove", ![c].said = Append(@, s)]
    BY <1>4, Zenon DEF ConnectNotifiesResume, Notify
  <2> HIDE DEF s
  <2>1. /\ Only(c) /\ conn'[c].pc = "remove" /\ conn'[c].said = Append(conn[c].said, s)
        /\ conn'[c].queue = conn[c].queue /\ conn'[c].sent = conn[c].sent
        /\ conn'[c].id = conn[c].id /\ conn'[c].will = conn[c].will
        /\ conn'[c].state = conn[c].state
    BY <1>0, <2>l, Zenon DEF Only, Conn
  <2>2. Alive(c) /\ LifeCycle(c)'
    BY <1>0, <2>l, <2>1, <2>s, Zenon DEF Alive, Silent, Ending, LifeCycle, Closed, Early
  <2> QED
    BY <2>l, <2>1, <2>2, LiveMove, TablesKept, Zenon DEF Opening
<1>5. CASE ConnectRemovesOld(c)
  <2>1. Same(c) /\ conn[c].pc = "remove" /\ conn'[c].pc = "newqueue"
    BY <1>5, GotoSame, Zenon DEF ConnectRemovesOld
  <2>2. Alive(c) /\ LifeCycle(c)'
    BY <1>0, <2>1, Zenon DEF Same, Alive, Silent, Ending, LifeCycle, Closed, Early
  <2> QED
    BY <1>5, <2>1, <2>2, LiveMove, TablesKept, Zenon DEF ConnectRemovesOld, Same, Opening
<1>6. CASE ConnectQueueRefused(c) \/ ConnectReplacesQueue(c) \/ ConnectFindsNoQueue(c)
  <2>l. PICK label \in {"disconnect", "freequeue", "allocate"} :
            conn' = [conn EXCEPT ![c].pc = label, ![c].will = conn[c].pkt.will]
    BY <1>6, Zenon DEF ConnectQueueRefused, ConnectReplacesQueue, ConnectFindsNoQueue
  <2>0. conn[c].pc = "newqueue" /\ UNCHANGED <<queueVars, subs>>
    BY <1>6, Zenon DEF ConnectQueueRefused, ConnectReplacesQueue, ConnectFindsNoQueue
  <2>1. /\ Only(c) /\ conn'[c].pc = label /\ conn'[c].said = conn[c].said
        /\ conn'[c].queue = conn[c].queue /\ conn'[c].sent = conn[c].sent
        /\ conn'[c].id = conn[c].id /\ conn'[c].state = conn[c].state
    BY <1>0, <2>l, Zenon DEF Only, Conn
  <2>2. Alive(c) /\ LifeCycle(c)'
    BY <1>0, <2>0, <2>1, Zenon DEF Alive, Silent, Ending, LifeCycle, Closed, Early
  <2> QED
    BY <2>0, <2>1, <2>2, LiveMove, TablesKept, Zenon DEF Opening
<1>7. CASE ConnectDestroysQueue(c)
  <2>0. /\ conn[c].pc = "freequeue" /\ queues \in [Ids -> Conns \cup {None}]
        /\ queues' = [queues EXCEPT ![conn[c].id] = None]
        /\ UNCHANGED <<obj, subs>>
    BY <1>7, TablesKept, Zenon DEF ConnectDestroysQueue, DestroyQueue, TypeInv, TypeOK,
       QueueTypeOK
  <2>1. Same(c) /\ conn'[c].pc = "allocate"
    BY <1>7, GotoSame, Zenon DEF ConnectDestroysQueue
  <2>2. Alive(c) /\ LifeCycle(c)'
    BY <1>0, <2>0, <2>1, Zenon DEF Same, Alive, Silent, Ending, LifeCycle, Closed, Early
  <2>3. \A id \in Ids : queues'[id] \in {queues[id], None}
    BY <2>0, Zenon
  <2>t. /\ \A d \in Conns : conn[d].queue \in Conns \cup {None}
        /\ \A id \in Ids : queues[id] \in Conns \cup {None}
        /\ \A id \in Ids : \A t \in Topics : subs[id][t].queue \in Conns \cup {None}
    BY SafeFacts, Zenon DEF TypeInv, TypeOK, QueueTypeOK, SmTypeOK, Subscription
  <2>4. \A d \in Conns : conn'[d].queue = conn[d].queue /\ conn'[d].id = conn[d].id
    BY <2>1, Zenon DEF Same, Only
  <2>5. OwnershipInv'
    <3>1. Allocated'
      BY <2>0, <2>3, <2>4, <2>t DEF Safe, OwnershipInv, Allocated
    <3>2. QueueOwnership'
      BY <2>0, <2>3, <2>4, <2>t DEF Safe, OwnershipInv, QueueOwnership
    <3> QED
      BY <3>1, <3>2, Zenon DEF OwnershipInv
  <2>6. ASSUME NEW d \in Conns
        PROVE  Delivers(d)'
    <3>1. Delivers(d)
      BY DeliveryByConnection DEF Safe
    <3>2. CASE d = c
      BY <2>0, <2>1, <3>1, <3>2, Zenon DEF Same, Delivers, OwnQueue, Opening
    <3>3. CASE d # c
      BY <2>0, <2>1, <3>1, <3>3, Zenon DEF Same, Only, Delivers, OwnQueue
    <3> QED
      BY <3>2, <3>3
  <2> QED
    BY <2>1, <2>2, <2>5, <2>6, OpeningMove, Zenon DEF Same
<1>8. CASE ConnectObserves(c)
  <2>0. /\ conn[c].pc = "observe" /\ RegisterObserver(conn[c].queue, c)
        /\ UNCHANGED <<queues, subs>>
    BY <1>8, TablesKept, Zenon DEF ConnectObserves, RegisterObserver
  <2>1. Same(c) /\ conn'[c].pc = "register"
    BY <1>8, GotoSame, Zenon DEF ConnectObserves
  <2>2. Alive(c) /\ LifeCycle(c)'
    BY <1>0, <2>0, <2>1, Zenon DEF Same, Alive, Silent, Ending, LifeCycle, Closed, Early
  <2>3. LifeInv'
    BY <2>1, <2>2, AliveAnnounced, OthersLive, Zenon DEF Same
  <2>4. obj \in [Conns -> Queue] /\ conn[c].queue \in Conns
    BY <1>0, <2>0, Zenon DEF ConnShape, TypeInv, TypeOK, QueueTypeOK
  <2>5. \A o \in Conns : /\ obj'[o].id = obj[o].id
                         /\ obj'[o].persistent = obj[o].persistent
                         /\ obj'[o].pushed = obj[o].pushed
                         /\ obj'[o].syncq = obj[o].syncq
                         /\ obj'[o].retainList = obj[o].retainList
    BY <2>0, <2>4, Zenon DEF RegisterObserver, Queue
  <2>6. OwnershipInv' /\ DeliveryInv'
    BY <2>0, <2>1, <2>5, QueuesTouched, Zenon DEF Opening
  <2> QED
    BY <2>3, <2>6 DEF Safe
<1>9. CASE ConnectRegisters(c)
  <2>1. /\ Only(c) /\ conn[c].pc = "register" /\ conn'[c].pc = "create"
        /\ conn'[c].queue = conn[c].queue /\ conn'[c].sent = conn[c].sent
        /\ conn'[c].id = conn[c].id /\ conn'[c].said = conn[c].said
        /\ conn'[c].state = "Connected"
    BY <1>0, <1>9, Zenon DEF ConnectRegisters, Only, Conn
  <2>2. Alive(c) /\ LifeCycle(c)'
    BY <1>0, <2>1, Zenon DEF Alive, Silent, Ending, LifeCycle, Closed, Early
  <2> QED
    BY <1>9, <2>1, <2>2, LiveMove, TablesKept, Zenon DEF ConnectRegisters, Opening
<1>10. CASE ConnectNotifiesCreate(c)
  <2> DEFINE s == Says("create", SessionEvent("create", conn[c].id))
             tm == IF conn[c].pkt.alive THEN "armed" ELSE conn[c].timer
  <2>s. s \in Said /\ s.kind = "create"
    BY <1>0, Zenon DEF Says, SessionEvent, Said
  <2>l. conn[c].pc = "create" /\ UNCHANGED <<queueVars, smVars>>
        /\ conn' = [conn EXCEPT ![c].pc = "flush", ![c].timer = tm, ![c].said = Append(@, s)]
    BY <1>10, <1>0, Zenon DEF ConnectNotifiesCreate
  <2> HIDE DEF s, tm
  <2>1. /\ Only(c) /\ conn'[c].pc = "flush" /\ conn'[c].said = Append(conn[c].said, s)
        /\ conn'[c].queue = conn[c].queue /\ conn'[c].sent = conn[c].sent
        /\ conn'[c].id = conn[c].id /\ conn'[c].state = conn[c].state
    BY <1>0, <2>l, Zenon DEF Only, Conn
  <2>2. Alive(c) /\ LifeCycle(c)'
    BY <1>0, <2>l, <2>1, <2>s, Zenon DEF Alive, Silent, Ending, LifeCycle, Closed, Early
  <2> QED
    BY <2>l, <2>1, <2>2, LiveMove, TablesKept, Zenon DEF Opening
<1> QED
  BY <1>1, <1>2, <1>3, <1>4, <1>5, <1>6, <1>7, <1>8, <1>9, <1>10, ShareSafe, AllocateSafe, Zenon
     DEF ConnectStep
=============================================================================
