-------------------------- MODULE BrokerTypeProofs --------------------------
(* Type correctness of Broker, for any number of connections, clients and    *)
(* topics and for any packets the clients may send.                          *)
EXTENDS BrokerInvariants, TLAPS

\* The control states as members of their sets, so that no leaf opens them.
LEMMA StateFacts ==
    /\ "select" \in Labels /\ "handle" \in Labels /\ "resume" \in Labels
    /\ "remove" \in Labels /\ "newqueue" \in Labels /\ "freequeue" \in Labels
    /\ "allocate" \in Labels /\ "observe" \in Labels
    /\ "register" \in Labels /\ "create" \in Labels /\ "flush" \in Labels
    /\ "drain" \in Labels /\ "pop" \in Labels /\ "notify" \in Labels
    /\ "reply" \in Labels /\ "disconnect" \in Labels /\ "notifyWill" \in Labels
    /\ "notifyDestroy" \in Labels /\ "teardown" \in Labels /\ "exit" \in Labels
    /\ "reading" \in ReaderStates /\ "offer" \in ReaderStates
    /\ "fail" \in ReaderStates /\ "done" \in ReaderStates
    /\ "off" \in TimerStates /\ "armed" \in TimerStates
    /\ "fired" \in TimerStates /\ "done" \in TimerStates
    /\ "New" \in SessionStates /\ "Connected" \in SessionStates
    /\ "Disconnecting" \in SessionStates /\ "Disconnected" \in SessionStates
    /\ "exit" \in Returns /\ "disconnect" \in Returns
    /\ Returns \subseteq Labels
BY DEF Labels, ReaderStates, TimerStates, SessionStates, Returns

\* The fields of a connection.
LEMMA ConnFields ==
    ASSUME NEW r \in Conn
    PROVE  /\ r.pc \in Labels
           /\ r.rd \in ReaderStates
           /\ r.rpkt \in Packet \cup {None}
           /\ r.nread \in Nat
           /\ r.timer \in TimerStates
           /\ r.up \in BOOLEAN
           /\ r.pkt \in Packet \cup {None}
           /\ r.k \in Nat
           /\ r.state \in SessionStates
           /\ r.id \in Ids
           /\ r.will \in Topics \cup {None}
           /\ r.queue \in Conns \cup {None}
           /\ r.cur \in Message \cup {None}
           /\ r.ret \in Returns
           /\ r.sent \in Seq(Message)
           /\ r.said \in Seq(Said)
BY Zenon DEF Conn

\* A connection stays one when a field is given a value of its type.
LEMMA ConnUpdate ==
    ASSUME NEW r \in Conn
    PROVE  /\ \A x \in Labels : [r EXCEPT !.pc = x] \in Conn
           /\ \A x \in ReaderStates : [r EXCEPT !.rd = x] \in Conn
           /\ \A x \in Packet \cup {None} : [r EXCEPT !.rpkt = x] \in Conn
           /\ \A x \in Nat : [r EXCEPT !.nread = x] \in Conn
           /\ \A x \in TimerStates : [r EXCEPT !.timer = x] \in Conn
           /\ \A x \in BOOLEAN : [r EXCEPT !.up = x] \in Conn
           /\ \A x \in Packet \cup {None} : [r EXCEPT !.pkt = x] \in Conn
           /\ \A x \in Nat : [r EXCEPT !.k = x] \in Conn
           /\ \A x \in SessionStates : [r EXCEPT !.state = x] \in Conn
           /\ \A x \in Ids : [r EXCEPT !.id = x] \in Conn
           /\ \A x \in Topics \cup {None} : [r EXCEPT !.will = x] \in Conn
           /\ \A x \in Conns \cup {None} : [r EXCEPT !.queue = x] \in Conn
           /\ \A x \in Message \cup {None} : [r EXCEPT !.cur = x] \in Conn
           /\ \A x \in Returns : [r EXCEPT !.ret = x] \in Conn
           /\ \A x \in Seq(Message) : [r EXCEPT !.sent = x] \in Conn
           /\ \A x \in Seq(Said) : [r EXCEPT !.said = x] \in Conn
<1>1. \A x \in Labels : [r EXCEPT !.pc = x] \in Conn
  BY Zenon DEF Conn
<1>2. \A x \in ReaderStates : [r EXCEPT !.rd = x] \in Conn
  BY Zenon DEF Conn
<1>3. \A x \in Packet \cup {None} : [r EXCEPT !.rpkt = x] \in Conn
  BY Zenon DEF Conn
<1>4. \A x \in Nat : [r EXCEPT !.nread = x] \in Conn
  BY Zenon DEF Conn
<1>5. \A x \in TimerStates : [r EXCEPT !.timer = x] \in Conn
  BY Zenon DEF Conn
<1>6. \A x \in BOOLEAN : [r EXCEPT !.up = x] \in Conn
  BY Zenon DEF Conn
<1>7. \A x \in Packet \cup {None} : [r EXCEPT !.pkt = x] \in Conn
  BY Zenon DEF Conn
<1>8. \A x \in Nat : [r EXCEPT !.k = x] \in Conn
  BY Zenon DEF Conn
<1>9. \A x \in SessionStates : [r EXCEPT !.state = x] \in Conn
  BY Zenon DEF Conn
<1>10. \A x \in Ids : [r EXCEPT !.id = x] \in Conn
  BY Zenon DEF Conn
<1>11. \A x \in Topics \cup {None} : [r EXCEPT !.will = x] \in Conn
  BY Zenon DEF Conn
<1>12. \A x \in Conns \cup {None} : [r EXCEPT !.queue = x] \in Conn
  BY Zenon DEF Conn
<1>13. \A x \in Message \cup {None} : [r EXCEPT !.cur = x] \in Conn
  BY Zenon DEF Conn
<1>14. \A x \in Returns : [r EXCEPT !.ret = x] \in Conn
  BY Zenon DEF Conn
<1>15. \A x \in Seq(Message) : [r EXCEPT !.sent = x] \in Conn
  BY Zenon DEF Conn
<1>16. \A x \in Seq(Said) : [r EXCEPT !.said = x] \in Conn
  BY Zenon DEF Conn
<1> QED
  BY <1>1, <1>2, <1>3, <1>4, <1>5, <1>6, <1>7, <1>8, <1>9, <1>10, <1>11,
     <1>12, <1>13, <1>14, <1>15, <1>16, Zenon

\* What TypeInv says about one connection, in the form the leaves need.
LEMMA ConnFacts ==
    ASSUME TypeInv, NEW c \in Conns
    PROVE  /\ conn \in [Conns -> Conn]
           /\ conn[c] \in Conn
           /\ DOMAIN conn = Conns
           /\ panicked \in BOOLEAN
           /\ ConnShape(c)
BY DEF TypeInv, TypeOK, SessionTypeOK, Shape

\* A step of the goroutines of connection c, as the other parts see it.
LocalStep(c) ==
    /\ conn'[c] \in Conn
    /\ conn' = [conn EXCEPT ![c] = conn'[c]]
    /\ panicked' \in BOOLEAN
    /\ conn[c].queue # None => conn'[c].queue # None
    /\ ConnShape(c)'

\* A step of one connection leaves the other connections well-formed.
LEMMA LocalStepFrame ==
    ASSUME TypeInv, NEW c \in Conns, LocalStep(c)
    PROVE  /\ SessionTypeOK'
           /\ \A d \in Conns : ConnShape(d)'
           /\ \A d \in Conns : conn[d].queue # None => conn'[d].queue # None
<1>1. conn' \in [Conns -> Conn] /\ \A d \in Conns \ {c} : conn'[d] = conn[d]
  BY ConnFacts DEF LocalStep
<1>2. \A d \in Conns \ {c} : ConnShape(d)'
  BY <1>1, ConnFacts DEF ConnShape
<1> QED
  BY <1>1, <1>2 DEF LocalStep, SessionTypeOK

\* A step of connection c that makes nobody but c an observer, and wakes up
\* nobody, keeps the sessions well-formed.
LEMMA LocalStepTypes ==
    ASSUME TypeInv, NEW c \in Conns, LocalStep(c),
           \A o \in Conns : obj'[o].observer # None =>
                \/ obj'[o].observer = obj[o].observer
                \/ obj'[o].observer = c /\ conn'[c].queue # None,
           sm'.target \in {None, sm.target}
    PROVE  SessionTypeOK' /\ (\A d \in Conns : ConnShape(d)') /\ ObserverShape'
<1>1. /\ SessionTypeOK'
      /\ \A d \in Conns : ConnShape(d)'
      /\ \A d \in Conns : conn[d].queue # None => conn'[d].queue # None
  BY LocalStepFrame
<1>2. /\ \A o \in Conns : obj[o].observer \in Conns \cup {None}
      /\ sm.target \in Conns \cup {None}
  BY DEF TypeInv, TypeOK, QueueTypeOK, SmTypeOK, Manager, Queue
<1>3. ObserverShape'
  BY <1>1, <1>2 DEF TypeInv, Shape, ObserverShape
<1> QED
  BY <1>1, <1>3

\* A step of connection c that changes nothing else.
LEMMA LocalStepOnly ==
    ASSUME TypeInv, NEW c \in Conns, LocalStep(c), othersUnchanged
    PROVE  TypeInv'
<1>1. UNCHANGED <<queues, obj, mongo, sessions, persistent, subs, topics, sm, es, npub>>
  BY DEF othersUnchanged, queueVars, smVars, eventVars
<1>2. QueueTypeOK' /\ SmTypeOK' /\ EventTypeOK' /\ EventShape' /\ ManagerShape'
  BY <1>1 DEF TypeInv, TypeOK, Shape, QueueTypeOK, SmTypeOK, Manager, EventTypeOK,
              EventShape, ManagerShape
<1>3. SessionTypeOK' /\ (\A d \in Conns : ConnShape(d)') /\ ObserverShape'
  BY <1>1, LocalStepTypes
<1> QED
  BY <1>2, <1>3 DEF TypeInv, TypeOK, Shape

\* A step of connection c in which the event goroutine accepts an event.
LEMMA LocalStepNotifies ==
    ASSUME TypeInv, NEW c \in Conns, LocalStep(c),
           NEW e \in Event, e.type \in TopicEvents => e.topic # None,
           ReceiveEvent(e), UNCHANGED <<queueVars, smVars>>
    PROVE  TypeInv'
<1>1. UNCHANGED <<queues, obj, mongo, sessions, persistent, subs, topics, sm>>
  BY DEF queueVars, smVars
<1>2. QueueTypeOK' /\ SmTypeOK' /\ ManagerShape'
  BY <1>1 DEF TypeInv, TypeOK, Shape, QueueTypeOK, SmTypeOK, Manager, ManagerShape
<1>3. e # None
  BY BaseAssumption
<1>4. EventTypeOK' /\ EventShape'
  BY <1>3 DEF TypeInv, TypeOK, EventTypeOK, EventShape, ReceiveEvent, Subscribed
<1>5. SessionTypeOK' /\ (\A d \in Conns : ConnShape(d)') /\ ObserverShape'
  BY <1>1, LocalStepTypes
<1> QED
  BY <1>2, <1>4, <1>5 DEF TypeInv, TypeOK, Shape

LEMMA ReaderTypes ==
    ASSUME TypeInv, NEW c \in Conns,
           Drop(c) \/ TimerFires(c) \/ ReaderStep(c) \/ AvailablePanics(c)
    PROVE  TypeInv'
<1> SUFFICES LocalStep(c) /\ othersUnchanged
  BY LocalStepOnly
<1>0. conn[c] \in Conn /\ DOMAIN conn = Conns /\ ConnShape(c)
  BY ConnFacts
<1>1. CASE Drop(c)
  <2>1. conn'[c] \in Conn
    BY <1>0, <1>1, ConnUpdate, ConnFields, StateFacts, Zenon DEF Drop
  <2>2. conn' = [conn EXCEPT ![c] = conn'[c]] /\ panicked' \in BOOLEAN /\ othersUnchanged
    BY <1>1, ConnFacts, Zenon DEF Drop
  <2>3. conn'[c].queue = conn[c].queue /\ ConnShape(c)'
    BY <1>0, <1>1 DEF Drop, Conn, ConnShape, Handling
  <2> QED
    BY <2>1, <2>2, <2>3 DEF LocalStep
<1>2. CASE TimerFires(c)
  <2>1. conn'[c] \in Conn
    BY <1>0, <1>2, ConnUpdate, ConnFields, StateFacts, Zenon DEF TimerFires
  <2>2. conn' = [conn EXCEPT ![c] = conn'[c]] /\ panicked' \in BOOLEAN /\ othersUnchanged
    BY <1>2, ConnFacts, Zenon DEF TimerFires
  <2>3. conn'[c].queue = conn[c].queue /\ ConnShape(c)'
    BY <1>0, <1>2 DEF TimerFires, Conn, ConnShape, Handling
  <2> QED
    BY <2>1, <2>2, <2>3 DEF LocalStep
<1>3. CASE \E p \in Offered(c) : ReadPacket(c, p)
  <2>0. PICK p \in Offered(c) : ReadPacket(c, p)
    BY <1>3
  <2>p. p \in Packet /\ p # None
    BY <1>0, <2>0, SessionAssumption, BaseAssumption DEF Offered, Conn
  <2>n. conn[c].nread + 1 \in Nat
    BY <1>0, ConnFields
  <2>1. conn'[c] \in Conn
    BY <1>0, <2>0, <2>p, <2>n, ConnUpdate, StateFacts, Zenon DEF ReadPacket
  <2>2. conn' = [conn EXCEPT ![c] = conn'[c]] /\ panicked' \in BOOLEAN /\ othersUnchanged
    BY <2>0, ConnFacts, Zenon DEF ReadPacket
  <2>3. conn'[c].queue = conn[c].queue /\ ConnShape(c)'
    BY <1>0, <2>0, <2>p DEF ReadPacket, Conn, ConnShape, Handling
  <2> QED
    BY <2>1, <2>2, <2>3 DEF LocalStep
<1>4. CASE ReadError(c)
  <2>0. conn' = [conn EXCEPT ![c].rd = "fail"] /\ othersUnchanged /\ UNCHANGED panicked
    BY <1>4 DEF ReadError
  <2>1. conn'[c] \in Conn
    BY <1>0, <2>0, ConnUpdate, ConnFields, StateFacts, Zenon
  <2>2. conn' = [conn EXCEPT ![c] = conn'[c]] /\ panicked' \in BOOLEAN
    BY <2>0, ConnFacts, Zenon
  <2>3. conn'[c].queue = conn[c].queue /\ ConnShape(c)'
    BY <1>0, <2>0 DEF Conn, ConnShape, Handling
  <2> QED
    BY <2>0, <2>1, <2>2, <2>3 DEF LocalStep
<1>5. CASE ReaderPanics(c) \/ AvailablePanics(c)
  <2>1. UNCHANGED conn /\ panicked' = TRUE /\ othersUnchanged
    BY <1>5 DEF ReaderPanics, AvailablePanics
  <2> QED
    BY <2>1, ConnFacts DEF LocalStep, ConnShape
<1> QED
  BY <1>1, <1>2, <1>3, <1>4, <1>5 DEF ReaderStep

\* A blocking Notify at whose end the main loop needs nothing.
LEMMA NotifyTypes ==
    ASSUME TypeInv, NEW c \in Conns, NEW e \in Event,
           e.type \in TopicEvents => e.topic # None,
           NEW kind, Says(kind, e) \in Said,
           NEW label \in {"notifyDestroy", "teardown", "remove"},
           label = "remove" => conn[c].pkt # None,
           Notify(c, e, kind, label)
    PROVE  TypeInv'
<1>0. conn[c] \in Conn /\ DOMAIN conn = Conns /\ ConnShape(c)
  BY ConnFacts
<1>a. /\ conn' = [conn EXCEPT ![c].pc = label, ![c].said = Append(@, Says(kind, e))]
      /\ ReceiveEvent(e) /\ UNCHANGED <<queueVars, smVars>> /\ panicked' = panicked
  BY DEF Notify
<1>s. label \in Labels /\ Append(conn[c].said, Says(kind, e)) \in Seq(Said)
  BY <1>0, ConnFields, StateFacts
<1>1. conn'[c] \in Conn
  BY <1>0, <1>a, <1>s, ConnUpdate, Zenon
<1>2. conn' = [conn EXCEPT ![c] = conn'[c]] /\ panicked' \in BOOLEAN
  BY <1>a, ConnFacts, Zenon
<1>3. conn'[c].queue = conn[c].queue /\ ConnShape(c)'
  BY <1>0, <1>a DEF Conn, ConnShape, Handling
<1> QED
  BY <1>a, <1>1, <1>2, <1>3, LocalStepNotifies, Zenon DEF LocalStep

LEMMA DropHeadType ==
    ASSUME NEW S, NEW s \in Seq(S)
    PROVE  DropHead(s) \in Seq(S)
BY DEF DropHead

LEMMA RetainListRemoveTypes ==
    ASSUME QueueTypeOK, NEW o \in Conns, NEW pid, RetainListRemove(o, pid)
    PROVE  QueueTypeOK' /\ \A q \in Conns : obj'[q].observer = obj[q].observer
<1>1. obj[o] \in Queue /\ DropHead(obj[o].retainList) \in Seq(Message)
  BY DropHeadType DEF QueueTypeOK, Queue
<1>2. obj'[o] \in Queue /\ obj'[o].observer = obj[o].observer
  BY <1>1, Zenon DEF QueueTypeOK, Queue, RetainListRemove
<1>3. obj' = [obj EXCEPT ![o] = obj'[o]]
  BY DEF QueueTypeOK, RetainListRemove
<1> QED
  BY <1>2, <1>3 DEF QueueTypeOK, RetainListRemove

\* A step of connection c that works on the queue table, the queues or the
\* session table, and registers at most c itself as an observer.
LEMMA LocalStepTables ==
    ASSUME TypeInv, NEW c \in Conns, LocalStep(c), QueueTypeOK',
           \A o \in Conns : obj'[o].observer # None =>
                \/ obj'[o].observer = obj[o].observer
                \/ obj'[o].observer = c /\ conn'[c].queue # None,
           sessions' = sessions \/ sessions' \in [Ids -> Conns \cup {None}],
           persistent' = persistent \/ persistent' \in [Conns -> BOOLEAN],
           UNCHANGED <<subs, topics, sm, es, npub>>
    PROVE  TypeInv'
<1>1. SmTypeOK' /\ EventTypeOK' /\ EventShape' /\ ManagerShape'
  BY DEF TypeInv, TypeOK, Shape, SmTypeOK, Manager, EventTypeOK, EventShape, ManagerShape
<1>2. SessionTypeOK' /\ (\A d \in Conns : ConnShape(d)') /\ ObserverShape'
  BY LocalStepTypes
<1> QED
  BY <1>1, <1>2 DEF TypeInv, TypeOK, Shape

LEMMA TablesUnchanged ==
    ASSUME TypeInv, UNCHANGED <<queues, obj, mongo>>
    PROVE  QueueTypeOK' /\ \A o \in Conns : obj'[o].observer = obj[o].observer
BY DEF TypeInv, TypeOK, QueueTypeOK

LEMMA SelectTypes ==
    ASSUME TypeInv, NEW c \in Conns, TakePacket(c) \/ TakeReadError(c) \/ TakeTimeout(c) \/ TakeAvailable(c)
    PROVE  TypeInv'
<1>0. conn[c] \in Conn /\ DOMAIN conn = Conns /\ ConnShape(c)
  BY ConnFacts
<1>1. CASE TakePacket(c)
  <2>v. conn[c].rpkt \in Packet \cup {None} /\ None \in Packet \cup {None} /\ 0 \in Nat
    BY <1>0, ConnFields
  <2>1. conn'[c] \in Conn
    BY <1>0, <1>1, <2>v, ConnUpdate, StateFacts, ZenonT(30) DEF TakePacket
  <2>2. conn' = [conn EXCEPT ![c] = conn'[c]] /\ panicked' \in BOOLEAN /\ othersUnchanged
    BY <1>1, ConnFacts, Zenon DEF TakePacket
  <2>3. conn'[c].queue = conn[c].queue /\ ConnShape(c)'
    BY <1>0, <1>1 DEF TakePacket, Conn, ConnShape, Handling
  <2> QED
    BY <2>1, <2>2, <2>3, LocalStepOnly DEF LocalStep
<1>2. CASE TakeReadError(c)
  <2>1. conn'[c] \in Conn
    BY <1>0, <1>2, ConnUpdate, ConnFields, StateFacts, Zenon DEF TakeReadError
  <2>2. conn' = [conn EXCEPT ![c] = conn'[c]] /\ panicked' \in BOOLEAN /\ othersUnchanged
    BY <1>2, ConnFacts, Zenon DEF TakeReadError
  <2>3. conn'[c].queue = conn[c].queue /\ ConnShape(c)'
    BY <1>0, <1>2 DEF TakeReadError, Conn, ConnShape, Handling
  <2> QED
    BY <2>1, <2>2, <2>3, LocalStepOnly DEF LocalStep
<1>3. CASE TakeTimeout(c)
  <2>1. conn'[c] \in Conn
    BY <1>0, <1>3, ConnUpdate, ConnFields, StateFacts, Zenon DEF TakeTimeout
  <2>2. conn' = [conn EXCEPT ![c] = conn'[c]] /\ panicked' \in BOOLEAN /\ othersUnchanged
    BY <1>3, ConnFacts, Zenon DEF TakeTimeout
  <2>3. conn'[c].queue = conn[c].queue /\ ConnShape(c)'
    BY <1>0, <1>3 DEF TakeTimeout, Conn, ConnShape, Handling
  <2> QED
    BY <2>1, <2>2, <2>3, LocalStepOnly DEF LocalStep
<1>4. CASE TakeAvailable(c)
  <2>0. conn[c].queue # None
    BY <1>4, BaseAssumption DEF TakeAvailable, TypeInv, Shape, ObserverShape
  <2>1. conn'[c] \in Conn
    BY <1>0, <1>4, ConnUpdate, ConnFields, StateFacts, Zenon DEF TakeAvailable, Goto
  <2>2. /\ conn' = [conn EXCEPT ![c] = conn'[c]]
        /\ panicked' \in BOOLEAN
        /\ UNCHANGED <<queues, obj, mongo, sessions, persistent, subs, topics, es, npub>>
    BY <1>4, ConnFacts, Zenon DEF TakeAvailable, Goto, queueVars, eventVars
  <2>3. conn'[c].queue = conn[c].queue /\ ConnShape(c)'
    BY <1>0, <1>4, <2>0 DEF TakeAvailable, Goto, Conn, ConnShape, Handling
  <2>4. LocalStep(c)
    BY <2>1, <2>2, <2>3 DEF LocalStep
  <2>5. QueueTypeOK' /\ EventTypeOK' /\ EventShape'
    BY <2>2 DEF TypeInv, TypeOK, Shape, QueueTypeOK, EventTypeOK, EventShape
  <2>6. SmTypeOK' /\ ManagerShape' /\ sm'.target = None
    BY <1>4, <2>2, Zenon DEF TakeAvailable, TypeInv, TypeOK, Shape, SmTypeOK, Manager, ManagerShape,
                      TopicEvents, Publishing
  <2>7. SessionTypeOK' /\ (\A d \in Conns : ConnShape(d)') /\ ObserverShape'
    BY <2>2, <2>4, <2>6, LocalStepTypes
  <2> QED
    BY <2>5, <2>6, <2>7 DEF TypeInv, TypeOK, Shape
<1> QED
  BY <1>1, <1>2, <1>3, <1>4

LEMMA PacketTypes ==
    ASSUME TypeInv, NEW c \in Conns, PacketStep(c)
    PROVE  TypeInv'
<1>0. conn[c] \in Conn /\ DOMAIN conn = Conns /\ ConnShape(c)
  BY ConnFacts
<1>1. CASE PublishInvalid(c)
  <2>1. conn'[c] \in Conn
    BY <1>0, <1>1, ConnUpdate, ConnFields, StateFacts, Zenon DEF PublishInvalid, Handles, Goto
  <2>2. conn' = [conn EXCEPT ![c] = conn'[c]] /\ panicked' \in BOOLEAN /\ othersUnchanged
    BY <1>1, ConnFacts, Zenon DEF PublishInvalid, Handles, Goto
  <2>3. conn'[c].queue = conn[c].queue /\ ConnShape(c)'
    BY <1>0, <1>1 DEF PublishInvalid, Handles, Goto, Conn, ConnShape, Handling
  <2> QED
    BY <2>1, <2>2, <2>3, LocalStepOnly DEF LocalStep
<1>2. CASE NotifiesTopics(c)
  <2>0. conn[c].pc = "handle" /\ conn[c].pkt \in Packet
    BY <1>0, <1>2 DEF NotifiesTopics, ConnShape, Handling, Conn
  <2>p. conn[c].pkt.topics # <<>> => 0 < Len(conn[c].pkt.topics)
    BY <2>0 DEF Packet
  <2>l. PICK label \in {"reply", "notify"} :
            /\ label = "notify" => conn[c].pkt.topics # <<>>
            /\ conn' = [conn EXCEPT ![c].pc = label]
    BY <1>2, Zenon DEF NotifiesTopics, Goto
  <2>1. conn'[c] \in Conn
    BY <1>0, <2>l, ConnUpdate, ConnFields, StateFacts, Zenon
  <2>2. conn' = [conn EXCEPT ![c] = conn'[c]] /\ panicked' \in BOOLEAN /\ othersUnchanged
    BY <1>2, <2>l, ConnFacts, Zenon DEF NotifiesTopics
  <2>3. conn'[c].queue = conn[c].queue /\ ConnShape(c)'
    BY <1>0, <2>0, <2>p, <2>l DEF Conn, ConnShape, Handling
  <2> QED
    BY <2>1, <2>2, <2>3, LocalStepOnly DEF LocalStep
<1>3. CASE NotifyTopic(c)
  <2> DEFINE p == conn[c].pkt
             t == p.topics[conn[c].k + 1]
             e == TopicEvent(TopicEventType(p.kind), conn[c].id, t, p.qos, npub + 1)
  <2>0. conn[c].pc = "notify" /\ p \in Packet /\ conn[c].k \in Nat /\ conn[c].id \in Ids
    BY <1>0, <1>3 DEF NotifyTopic, ConnShape, Handling, Conn
  <2>t. p.topics \in Seq(Topics) /\ t \in Topics /\ p.qos \in Qos
    BY <1>0, <2>0 DEF ConnShape, Packet
  <2>n. npub + 1 \in Nat
    BY DEF TypeInv, TypeOK, EventTypeOK
  <2>k. TopicEventType(p.kind) \in TopicEvents
    BY DEF TopicEventType, TopicEvents
  <2>e. e \in Event /\ e.topic # None
    BY <2>0, <2>t, <2>n, <2>k, BaseAssumption DEF TopicEvent, Event, TopicEvents
  <2>s. Says(e.type, e) \in Said
    BY <2>0, <2>t, <2>k DEF TopicEvent, Says, Said, TopicEvents
  <2>l. PICK label \in {"reply", "notify"} :
            /\ label = "notify" => conn[c].k + 1 # Len(p.topics)
            /\ conn' = [conn EXCEPT ![c].pc = label, ![c].k = @ + 1,
                                    ![c].said = Append(@, Says(e.type, e))]
    BY <1>0, <1>3, <2>0, ZenonT(30) DEF NotifyTopic
  <2>a. ReceiveEvent(e) /\ UNCHANGED <<queueVars, smVars>> /\ panicked' \in BOOLEAN
    BY <1>3, ConnFacts DEF NotifyTopic
  <2> HIDE DEF e
  <2>m. label \in Labels /\ conn[c].k + 1 \in Nat
        /\ Append(conn[c].said, Says(e.type, e)) \in Seq(Said)
    BY <1>0, <2>s, ConnFields, StateFacts
  <2>1. conn'[c] \in Conn
    BY <1>0, <2>l, <2>m, ConnUpdate, Zenon
  <2>2. conn' = [conn EXCEPT ![c] = conn'[c]]
    BY <2>l, ConnFacts, Zenon
  <2>3. conn'[c].queue = conn[c].queue
    BY <1>0, <2>l DEF Conn
  <2>4. ConnShape(c)'
    BY <1>0, <2>0, <2>t, <2>l DEF Conn, ConnShape, Handling
  <2>5. LocalStep(c)
    BY <2>1, <2>2, <2>3, <2>4, <2>a DEF LocalStep
  <2> QED
    BY <2>5, <2>a, <2>e, LocalStepNotifies
<1>4. CASE OnlyReplies(c)
  <2>1. conn'[c] \in Conn
    BY <1>0, <1>4, ConnUpdate, ConnFields, StateFacts, Zenon DEF OnlyReplies, Goto
  <2>2. conn' = [conn EXCEPT ![c] = conn'[c]] /\ panicked' \in BOOLEAN /\ othersUnchanged
    BY <1>4, ConnFacts, Zenon DEF OnlyReplies, Goto
  <2>3. conn'[c].queue = conn[c].queue /\ ConnShape(c)'
    BY <1>0, <1>4 DEF OnlyReplies, Goto, Conn, ConnShape, Handling
  <2> QED
    BY <2>1, <2>2, <2>3, LocalStepOnly DEF LocalStep
<1>5. CASE Reply(c)
  <2>l. PICK label \in {"select", "disconnect"} : conn' = [conn EXCEPT ![c].pc = label]
    BY <1>5, Zenon DEF Reply, Goto
  <2>1. conn'[c] \in Conn
    BY <1>0, <2>l, ConnUpdate, ConnFields, StateFacts, Zenon
  <2>2. conn' = [conn EXCEPT ![c] = conn'[c]] /\ panicked' \in BOOLEAN /\ othersUnchanged
    BY <1>5, <2>l, ConnFacts, Zenon DEF Reply
  <2>3. conn'[c].queue = conn[c].queue /\ ConnShape(c)'
    BY <1>0, <2>l DEF Conn, ConnShape, Handling
  <2> QED
    BY <2>1, <2>2, <2>3, LocalStepOnly DEF LocalStep
<1>6. CASE PubAckInvalid(c)
  <2>1. conn'[c] \in Conn
    BY <1>0, <1>6, ConnUpdate, ConnFields, StateFacts, Zenon DEF PubAckInvalid, Handles, Goto
  <2>2. conn' = [conn EXCEPT ![c] = conn'[c]] /\ panicked' \in BOOLEAN /\ othersUnchanged
    BY <1>6, ConnFacts, Zenon DEF PubAckInvalid, Handles, Goto
  <2>3. conn'[c].queue = conn[c].queue /\ ConnShape(c)'
    BY <1>0, <1>6 DEF PubAckInvalid, Handles, Goto, Conn, ConnShape, Handling
  <2> QED
    BY <2>1, <2>2, <2>3, LocalStepOnly DEF LocalStep
<1>7. CASE PubAck(c)
  <2> DEFINE o == conn[c].queue
  <2>0. o \in Conns
    BY <1>0, <1>7 DEF PubAck, Conn
  <2>a. /\ RetainListRemove(o, conn[c].pkt.pid)
        /\ conn' = [conn EXCEPT ![c].pc = "select"]
        /\ UNCHANGED <<sessions, persistent, subs, topics, sm, es, npub, panicked>>
    BY <1>7 DEF PubAck, Goto, smVars, eventVars
  <2>1. conn'[c] \in Conn
    BY <1>0, <2>a, ConnUpdate, ConnFields, StateFacts, Zenon
  <2>2. conn' = [conn EXCEPT ![c] = conn'[c]] /\ panicked' \in BOOLEAN
    BY <2>a, ConnFacts, Zenon
  <2>3. conn'[c].queue = conn[c].queue /\ ConnShape(c)'
    BY <1>0, <2>a DEF Conn, ConnShape, Handling
  <2>4. LocalStep(c)
    BY <2>1, <2>2, <2>3 DEF LocalStep
  <2>5. QueueTypeOK' /\ \A q \in Conns : obj'[q].observer = obj[q].observer
    BY <2>0, <2>a, RetainListRemoveTypes DEF TypeInv, TypeOK
  <2> QED
    BY <2>a, <2>4, <2>5, LocalStepTables
<1>8. CASE PubAckPanics(c)
  <2>1. UNCHANGED conn /\ panicked' = TRUE /\ othersUnchanged
    BY <1>8 DEF PubAckPanics
  <2> QED
    BY <2>1, ConnFacts, LocalStepOnly DEF LocalStep, ConnShape
<1>9. CASE UnrecognizedPacket(c)
  <2>1. conn'[c] \in Conn
    BY <1>0, <1>9, ConnUpdate, ConnFields, StateFacts, Zenon DEF UnrecognizedPacket, Handles, Goto
  <2>2. conn' = [conn EXCEPT ![c] = conn'[c]] /\ panicked' \in BOOLEAN /\ othersUnchanged
    BY <1>9, ConnFacts, Zenon DEF UnrecognizedPacket, Handles, Goto
  <2>3. conn'[c].queue = conn[c].queue /\ ConnShape(c)'
    BY <1>0, <1>9 DEF UnrecognizedPacket, Handles, Goto, Conn, ConnShape, Handling
  <2> QED
    BY <2>1, <2>2, <2>3, LocalStepOnly DEF LocalStep
<1> QED
  BY <1>1, <1>2, <1>3, <1>4, <1>5, <1>6, <1>7, <1>8, <1>9 DEF PacketStep

LEMMA DisconnectTypes ==
    ASSUME TypeInv, NEW c \in Conns, DisconnectStep(c)
    PROVE  TypeInv'
<1>0. conn[c] \in Conn /\ DOMAIN conn = Conns /\ ConnShape(c)
  BY ConnFacts
<1>1. CASE DisconnectInvalid(c)
  <2>1. conn'[c] \in Conn
    BY <1>0, <1>1, ConnUpdate, ConnFields, StateFacts, Zenon DEF DisconnectInvalid, Handles, Goto
  <2>2. conn' = [conn EXCEPT ![c] = conn'[c]] /\ panicked' \in BOOLEAN /\ othersUnchanged
    BY <1>1, ConnFacts, Zenon DEF DisconnectInvalid, Handles, Goto
  <2>3. conn'[c].queue = conn[c].queue /\ ConnShape(c)'
    BY <1>0, <1>1 DEF DisconnectInvalid, Handles, Goto, Conn, ConnShape, Handling
  <2> QED
    BY <2>1, <2>2, <2>3, LocalStepOnly DEF LocalStep
<1>2. CASE HandleDisconnect(c)
  <2>0. /\ conn' = [conn EXCEPT ![c].pc = "notifyDestroy", ![c].ret = "exit",
                                 ![c].will = None, ![c].state = "Disconnecting"]
        /\ othersUnchanged /\ UNCHANGED panicked
    BY <1>2 DEF HandleDisconnect
  <2>1. conn'[c] \in Conn
    BY <1>0, <2>0, ConnUpdate, ConnFields, StateFacts, Zenon
  <2>2. conn' = [conn EXCEPT ![c] = conn'[c]] /\ panicked' \in BOOLEAN
    BY <2>0, ConnFacts, Zenon
  <2>3. conn'[c].queue = conn[c].queue /\ ConnShape(c)'
    BY <1>0, <2>0 DEF Conn, ConnShape, Handling
  <2> QED
    BY <2>0, <2>1, <2>2, <2>3, LocalStepOnly, Zenon DEF LocalStep
<1>3. CASE Disconnect(c)
  <2>1. conn'[c] \in Conn
    BY <1>0, <1>3, ConnUpdate, ConnFields, StateFacts, Zenon DEF Disconnect
  <2>2. conn' = [conn EXCEPT ![c] = conn'[c]] /\ panicked' \in BOOLEAN /\ othersUnchanged
    BY <1>3, ConnFacts, Zenon DEF Disconnect
  <2>3. conn'[c].queue = conn[c].queue /\ ConnShape(c)'
    BY <1>0, <1>3 DEF Disconnect, Conn, ConnShape, Handling
  <2> QED
    BY <2>1, <2>2, <2>3, LocalStepOnly DEF LocalStep
<1>4. CASE NotifyWill(c)
  <2> DEFINE e == TopicEvent("publish", conn[c].id, conn[c].will, 0, npub + 1)
  <2>0. conn[c].pc = "notifyWill" /\ conn[c].will \in Topics /\ conn[c].id \in Ids
    BY <1>0, <1>4 DEF NotifyWill, ConnShape, Conn
  <2>e. e \in Event /\ e.topic # None
    BY <2>0, BaseAssumption DEF TopicEvent, Event, Qos, TypeInv, TypeOK, EventTypeOK
  <2>s. Says("will", e) \in Said
    BY <2>0 DEF TopicEvent, Says, Said
  <2>a. Notify(c, e, "will", "notifyDestroy")
    BY <1>4 DEF NotifyWill
  <2> HIDE DEF e
  <2> QED
    BY <1>0, <2>0, <2>a, <2>e, <2>s, NotifyTypes
<1>5. CASE NotifyDestroy(c)
  <2> DEFINE e == SessionEvent("destroy", conn[c].id)
  <2>0. conn[c].pc = "notifyDestroy" /\ conn[c].id \in Ids
    BY <1>0, <1>5 DEF NotifyDestroy, Conn
  <2>e. e \in Event /\ e.type \notin TopicEvents
    BY <2>0 DEF SessionEvent, Event, Qos, TopicEvents
  <2>s. Says("destroy", e) \in Said
    BY <2>0 DEF SessionEvent, Says, Said
  <2>a. Notify(c, e, "destroy", "teardown")
    BY <1>5 DEF NotifyDestroy
  <2> HIDE DEF e
  <2> QED
    BY <1>0, <2>0, <2>a, <2>e, <2>s, NotifyTypes
<1>6. CASE Teardown(c)
  <2>0. /\ conn' = [conn EXCEPT ![c].pc = conn[c].ret, ![c].state = "Disconnected",
                                 ![c].up = FALSE,
                                 ![c].timer = IF @ = "armed" THEN "off" ELSE @]
        /\ othersUnchanged /\ UNCHANGED panicked
    BY <1>6 DEF Teardown
  <2>r. conn[c].ret \in {"exit", "disconnect"}
    BY <1>0, ConnFields DEF Returns
  <2>v. /\ conn[c].ret \in Labels
        /\ (IF conn[c].timer = "armed" THEN "off" ELSE conn[c].timer) \in TimerStates
    BY <1>0, ConnFields, StateFacts
  <2>1. conn'[c] \in Conn
    BY <1>0, <2>0, <2>v, ConnUpdate, StateFacts, Zenon
  <2>2. conn' = [conn EXCEPT ![c] = conn'[c]] /\ panicked' \in BOOLEAN
    BY <2>0, ConnFacts, Zenon
  <2>3. conn'[c].queue = conn[c].queue /\ ConnShape(c)'
    BY <1>0, <2>0, <2>r DEF Conn, ConnShape, Handling
  <2> QED
    BY <2>0, <2>1, <2>2, <2>3, LocalStepOnly, Zenon DEF LocalStep
<1> QED
  BY <1>1, <1>2, <1>3, <1>4, <1>5, <1>6 DEF DisconnectStep

\* newQueue looks the client up, and the caller gets no queue yet.
LEMMA LookUpTypes ==
    ASSUME TypeInv, NEW c \in Conns, NEW label \in {"disconnect", "freequeue", "allocate"},
           conn[c].pc = "newqueue",
           ConnectStoresFlags(c),
           conn' = [conn EXCEPT ![c].pc = label, ![c].will = conn[c].pkt.will],
           UNCHANGED <<queueVars, sessions, subs, topics, sm, eventVars, panicked>>
    PROVE  TypeInv'
<1>0. conn[c] \in Conn /\ DOMAIN conn = Conns /\ ConnShape(c)
  BY ConnFacts
<1>1. conn[c].pkt \in Packet /\ label \in Labels
  BY <1>0, ConnFields, StateFacts DEF ConnShape, Handling
<1>2. conn[c].pkt.will \in Topics \cup {None} /\ conn[c].pkt.clean \in BOOLEAN
  BY <1>1 DEF Packet
<1>3. UNCHANGED <<queues, obj, mongo, sessions, subs, topics, sm, es, npub, panicked>>
  BY DEF queueVars, eventVars
<1>4. conn'[c] \in Conn
  BY <1>0, <1>1, <1>2, ConnUpdate, Zenon
<1>5. conn' = [conn EXCEPT ![c] = conn'[c]] /\ panicked' \in BOOLEAN
  BY <1>3, ConnFacts, Zenon
<1>6. conn'[c].queue = conn[c].queue /\ ConnShape(c)'
  BY <1>0 DEF Conn, ConnShape, Handling
<1>7. persistent' \in [Conns -> BOOLEAN]
  BY <1>2 DEF ConnectStoresFlags, TypeInv, TypeOK, SmTypeOK
<1> QED
  BY <1>3, <1>4, <1>5, <1>6, <1>7, LocalStepTables, TablesUnchanged, Zenon DEF LocalStep

LEMMA ConnectTypes ==
    ASSUME TypeInv, NEW c \in Conns, ConnectStep(c)
    PROVE  TypeInv'
<1>0. conn[c] \in Conn /\ DOMAIN conn = Conns /\ ConnShape(c)
  BY ConnFacts
<1>1. CASE ConnectInvalid(c)
  <2>1. conn'[c] \in Conn
    BY <1>0, <1>1, ConnUpdate, ConnFields, StateFacts, Zenon DEF ConnectInvalid, Handles, Goto
  <2>2. conn' = [conn EXCEPT ![c] = conn'[c]] /\ panicked' \in BOOLEAN /\ othersUnchanged
    BY <1>1, ConnFacts, Zenon DEF ConnectInvalid, Handles, Goto
  <2>3. conn'[c].queue = conn[c].queue /\ ConnShape(c)'
    BY <1>0, <1>1 DEF ConnectInvalid, Handles, Goto, Conn, ConnShape, Handling
  <2> QED
    BY <2>1, <2>2, <2>3, LocalStepOnly DEF LocalStep
<1>2. CASE ConnectRefused(c)
  <2>1. conn'[c] \in Conn
    BY <1>0, <1>2, ConnUpdate, ConnFields, StateFacts, Zenon DEF ConnectRefused, Handles
  <2>2. conn' = [conn EXCEPT ![c] = conn'[c]] /\ panicked' \in BOOLEAN /\ othersUnchanged
    BY <1>2, ConnFacts, Zenon DEF ConnectRefused, Handles
  <2>3. conn'[c].queue = conn[c].queue /\ ConnShape(c)'
    BY <1>0, <1>2 DEF ConnectRefused, Handles, Conn, ConnShape, Handling
  <2> QED
    BY <2>1, <2>2, <2>3, LocalStepOnly DEF LocalStep
<1>3. CASE ConnectAccepted(c)
  <2>0. conn[c].pc = "handle" /\ conn[c].pkt \in Packet
    BY <1>0, <1>3 DEF ConnectAccepted, Handles, ConnShape, Handling, Conn
  <2>i. conn[c].pkt.client \in Ids
    BY <2>0 DEF Packet
  <2>l. PICK label \in {"newqueue", "resume", "remove"} :
            conn' = [conn EXCEPT ![c].id = conn[c].pkt.client, ![c].pc = label]
    BY <1>3, Zenon DEF ConnectAccepted
  <2>1. conn'[c] \in Conn
    BY <1>0, <2>i, <2>l, ConnUpdate, ConnFields, StateFacts, Zenon
  <2>2. conn' = [conn EXCEPT ![c] = conn'[c]] /\ panicked' \in BOOLEAN /\ othersUnchanged
    BY <1>3, <2>l, ConnFacts, Zenon DEF ConnectAccepted
  <2>3. conn'[c].queue = conn[c].queue /\ ConnShape(c)'
    BY <1>0, <2>0, <2>l DEF Conn, ConnShape, Handling
  <2> QED
    BY <2>1, <2>2, <2>3, LocalStepOnly DEF LocalStep
<1>4. CASE ConnectNotifiesResume(c)
  <2> DEFINE e == SessionEvent("resume", conn[c].id)
  <2>0. conn[c].pc = "resume" /\ conn[c].pkt # None /\ conn[c].id \in Ids
    BY <1>0, <1>4 DEF ConnectNotifiesResume, ConnShape, Handling, Conn
  <2>e. e \in Event /\ e.type \notin TopicEvents
    BY <2>0 DEF SessionEvent, Event, Qos, TopicEvents
  <2>s. Says("resume", e) \in Said
    BY <2>0 DEF SessionEvent, Says, Said
  <2>a. Notify(c, e, "resume", "remove")
    BY <1>4 DEF ConnectNotifiesResume
  <2> HIDE DEF e
  <2> QED
    BY <2>0, <2>a, <2>e, <2>s, NotifyTypes
<1>5. CASE ConnectRemovesOld(c)
  <2>1. conn'[c] \in Conn
    BY <1>0, <1>5, ConnUpdate, ConnFields, StateFacts, Zenon DEF ConnectRemovesOld, Goto
  <2>2. /\ conn' = [conn EXCEPT ![c] = conn'[c]]
        /\ panicked' \in BOOLEAN
        /\ UNCHANGED <<queues, obj, mongo, persistent, subs, topics, sm, es, npub>>
    BY <1>5, ConnFacts, Zenon DEF ConnectRemovesOld, Goto, queueVars, eventVars
  <2>3. conn'[c].queue = conn[c].queue /\ ConnShape(c)'
    BY <1>0, <1>5 DEF ConnectRemovesOld, Goto, Conn, ConnShape, Handling
  <2>4. sessions' \in [Ids -> Conns \cup {None}]
    BY <1>5, Zenon DEF ConnectRemovesOld, RemoveSession, TypeInv, TypeOK, SmTypeOK, Manager
  <2> QED
    BY <2>1, <2>2, <2>3, <2>4, LocalStepTables, TablesUnchanged DEF LocalStep
<1>6. CASE ConnectSharesQueue(c)
  <2>0. /\ conn[c].pc = "newqueue" /\ conn[c].pkt \in Packet
        /\ conn[c].id \in Ids /\ queues[conn[c].id] \in Conns
    BY <1>0, <1>6 DEF ConnectSharesQueue, NewQueueShared, ConnShape, Handling, Conn,
                      TypeInv, TypeOK, QueueTypeOK
  <2>w. conn[c].pkt.will \in Topics \cup {None} /\ conn[c].pkt.clean \in BOOLEAN
    BY <2>0 DEF Packet
  <2>a. /\ conn' = [conn EXCEPT ![c].pc = "observe", ![c].will = conn[c].pkt.will,
                                 ![c].queue = queues[conn[c].id]]
        /\ persistent' = [persistent EXCEPT ![c] = ~ conn[c].pkt.clean]
        /\ UNCHANGED <<queues, obj, mongo, sessions, subs, topics, sm, es, npub, panicked>>
    BY <1>6 DEF ConnectSharesQueue, ConnectStoresFlags, queueVars, eventVars
  <2>1. conn'[c] \in Conn
    BY <1>0, <2>0, <2>w, <2>a, ConnUpdate, ConnFields, StateFacts, ZenonT(30)
  <2>2. conn' = [conn EXCEPT ![c] = conn'[c]] /\ panicked' \in BOOLEAN
    BY <2>a, ConnFacts, Zenon
  <2>3. conn'[c].queue # None /\ ConnShape(c)'
    BY <1>0, <2>0, <2>a, BaseAssumption DEF Conn, ConnShape, Handling
  <2>4. persistent' \in [Conns -> BOOLEAN]
    BY <2>a DEF TypeInv, TypeOK, SmTypeOK, Manager
  <2> QED
    BY <2>a, <2>1, <2>2, <2>3, <2>4, LocalStepTables, TablesUnchanged, Zenon DEF LocalStep
<1>7. CASE ConnectAllocatesQueue(c)
  <2>0. conn[c].pc = "allocate" /\ conn[c].pkt \in Packet /\ conn[c].id \in Ids
    BY <1>0, <1>7 DEF ConnectAllocatesQueue, ConnShape, Handling, Conn
  <2>w. conn[c].pkt.clean \in BOOLEAN
    BY <2>0 DEF Packet
  <2>a. /\ conn' = [conn EXCEPT ![c].pc = "observe", ![c].queue = c]
        /\ queues' = [queues EXCEPT ![conn[c].id] = c]
        /\ obj' = [obj EXCEPT ![c] = FreshQueue(conn[c].id, ~ conn[c].pkt.clean)]
        /\ UNCHANGED <<mongo, sessions, persistent, subs, topics, sm, es, npub, panicked>>
    BY <1>7 DEF ConnectAllocatesQueue, NewQueueAllocates, smVars, eventVars
  <2>q. /\ FreshQueue(conn[c].id, ~ conn[c].pkt.clean) \in Queue
        /\ FreshQueue(conn[c].id, ~ conn[c].pkt.clean).observer = None
    BY <2>0, <2>w DEF FreshQueue, Queue
  <2>1. conn'[c] \in Conn
    BY <1>0, <2>0, <2>a, ConnUpdate, StateFacts, ZenonT(30)
  <2>2. conn' = [conn EXCEPT ![c] = conn'[c]] /\ panicked' \in BOOLEAN
    BY <2>a, ConnFacts, Zenon
  <2>3. conn'[c].queue # None /\ ConnShape(c)'
    BY <1>0, <2>0, <2>a, BaseAssumption DEF Conn, ConnShape, Handling
  <2>5. /\ QueueTypeOK'
        /\ \A o \in Conns : obj'[o].observer # None => obj'[o].observer = obj[o].observer
    BY <2>a, <2>q, Zenon DEF TypeInv, TypeOK, QueueTypeOK
  <2> QED
    BY <2>a, <2>1, <2>2, <2>3, <2>5, LocalStepTables, Zenon DEF LocalStep
<1>8. CASE ConnectDestroysQueue(c)
  <2>0. conn[c].pc = "freequeue" /\ conn[c].pkt # None /\ conn[c].id \in Ids
    BY <1>0, <1>8 DEF ConnectDestroysQueue, ConnShape, Handling, Conn
  <2>a. /\ conn' = [conn EXCEPT ![c].pc = "allocate"]
        /\ queues' = [queues EXCEPT ![conn[c].id] = None]
        /\ UNCHANGED <<obj, mongo, sessions, persistent, subs, topics, sm, es, npub, panicked>>
    BY <1>8 DEF ConnectDestroysQueue, DestroyQueue, Goto, smVars, eventVars
  <2>1. conn'[c] \in Conn
    BY <1>0, <2>a, ConnUpdate, StateFacts, Zenon
  <2>2. conn' = [conn EXCEPT ![c] = conn'[c]] /\ panicked' \in BOOLEAN
    BY <2>a, ConnFacts, Zenon
  <2>3. conn'[c].queue = conn[c].queue /\ ConnShape(c)'
    BY <1>0, <2>0, <2>a DEF Conn, ConnShape, Handling
  <2>5. QueueTypeOK' /\ \A o \in Conns : obj'[o].observer = obj[o].observer
    BY <2>a, Zenon DEF TypeInv, TypeOK, QueueTypeOK
  <2> QED
    BY <2>a, <2>1, <2>2, <2>3, <2>5, LocalStepTables, Zenon DEF LocalStep
<1>9. CASE ConnectObserves(c)
  <2>0. conn[c].pc = "observe" /\ conn[c].queue \in Conns /\ conn[c].pkt # None
    BY <1>0, <1>9 DEF ConnectObserves, ConnShape, Handling, Conn
  <2>a. /\ conn' = [conn EXCEPT ![c].pc = "register"]
        /\ obj' = [obj EXCEPT ![conn[c].queue].observer = c]
        /\ UNCHANGED <<queues, mongo, sessions, persistent, subs, topics, sm, es, npub,
                       panicked>>
    BY <1>9 DEF ConnectObserves, RegisterObserver, Goto, smVars, eventVars
  <2>1. conn'[c] \in Conn
    BY <1>0, <2>a, ConnUpdate, ConnFields, StateFacts, Zenon
  <2>2. conn' = [conn EXCEPT ![c] = conn'[c]] /\ panicked' \in BOOLEAN
    BY <2>a, ConnFacts, Zenon
  <2>3. conn'[c].queue = conn[c].queue /\ ConnShape(c)'
    BY <1>0, <2>0, <2>a DEF Conn, ConnShape, Handling
  <2>5. /\ QueueTypeOK'
        /\ \A o \in Conns : obj'[o].observer \in {obj[o].observer, c}
    BY <2>0, <2>a, ZenonT(30) DEF TypeInv, TypeOK, QueueTypeOK, Queue
  <2>6. persistent' \in [Conns -> BOOLEAN] /\ sessions' \in [Ids -> Conns \cup {None}]
    BY <2>a DEF TypeInv, TypeOK, SmTypeOK, Manager
  <2> QED
    BY <2>0, <2>a, <2>1, <2>2, <2>3, <2>5, <2>6, LocalStepTables, BaseAssumption, Zenon
       DEF LocalStep
<1>10. CASE ConnectRegisters(c)
  <2>1. conn'[c] \in Conn
    BY <1>0, <1>10, ConnUpdate, ConnFields, StateFacts, Zenon DEF ConnectRegisters, Goto
  <2>2. /\ conn' = [conn EXCEPT ![c] = conn'[c]]
        /\ panicked' \in BOOLEAN
        /\ UNCHANGED <<queues, obj, mongo, persistent, subs, topics, sm, es, npub>>
    BY <1>10, ConnFacts, Zenon DEF ConnectRegisters, Goto, queueVars, eventVars
  <2>3. conn'[c].queue = conn[c].queue /\ ConnShape(c)'
    BY <1>0, <1>10 DEF ConnectRegisters, Goto, Conn, ConnShape, Handling
  <2>4. sessions' \in [Ids -> Conns \cup {None}]
    BY <1>10, Zenon DEF ConnectRegisters, RegisterSession, TypeInv, TypeOK, SmTypeOK, Manager
  <2> QED
    BY <2>1, <2>2, <2>3, <2>4, LocalStepTables, TablesUnchanged DEF LocalStep
<1>11. CASE ConnectNotifiesCreate(c)
  <2> DEFINE e == SessionEvent("create", conn[c].id)
  <2>0. conn[c].pc = "create" /\ conn[c].queue # None /\ conn[c].id \in Ids
    BY <1>0, <1>11 DEF ConnectNotifiesCreate, ConnShape, Conn
  <2>e. e \in Event /\ e.type \notin TopicEvents
    BY <2>0 DEF SessionEvent, Event, Qos, TopicEvents
  <2>s. Says("create", e) \in Said
    BY <2>0 DEF SessionEvent, Says, Said
  <2>a. ReceiveEvent(e) /\ UNCHANGED <<queueVars, smVars>> /\ panicked' \in BOOLEAN
    BY <1>11, ConnFacts DEF ConnectNotifiesCreate
  <2>t. PICK t \in {"armed", conn[c].timer} :
            conn' = [conn EXCEPT ![c].pc = "flush", ![c].timer = t,
                                 ![c].said = Append(@, Says("create", e))]
    <3>1. CASE conn[c].pkt.alive
      BY <1>11, <3>1 DEF ConnectNotifiesCreate
    <3>2. CASE ~ conn[c].pkt.alive
      BY <1>11, <3>2, Zenon DEF ConnectNotifiesCreate
    <3> QED
      BY <3>1, <3>2
  <2> HIDE DEF e
  <2>v. t \in TimerStates /\ Append(conn[c].said, Says("create", e)) \in Seq(Said)
    BY <1>0, <2>s, ConnFields, StateFacts
  <2>1. conn'[c] \in Conn
    BY <1>0, <2>t, <2>v, ConnUpdate, StateFacts, Zenon
  <2>2. conn' = [conn EXCEPT ![c] = conn'[c]]
    BY <2>t, ConnFacts, Zenon
  <2>3. conn'[c].queue = conn[c].queue /\ ConnShape(c)'
    BY <1>0, <2>0, <2>t DEF Conn, ConnShape, Handling
  <2> QED
    BY <2>a, <2>e, <2>1, <2>2, <2>3, LocalStepNotifies DEF LocalStep
<1>12. CASE ConnectQueueFails(c)
  <2>1. conn'[c] \in Conn
    BY <1>0, <1>12, ConnUpdate, StateFacts, Zenon DEF ConnectQueueFails, Goto
  <2>2. conn' = [conn EXCEPT ![c] = conn'[c]] /\ panicked' \in BOOLEAN /\ othersUnchanged
    BY <1>12, ConnFacts, Zenon DEF ConnectQueueFails, Goto
  <2>3. conn'[c].queue = conn[c].queue /\ ConnShape(c)'
    BY <1>0, <1>12 DEF ConnectQueueFails, Goto, Conn, ConnShape, Handling
  <2> QED
    BY <2>1, <2>2, <2>3, LocalStepOnly DEF LocalStep
<1>13. CASE ConnectQueueRefused(c) \/ ConnectReplacesQueue(c) \/ ConnectFindsNoQueue(c)
  BY <1>13, LookUpTypes, Zenon
     DEF ConnectQueueRefused, ConnectReplacesQueue, ConnectFindsNoQueue
<1> QED
  BY <1>1, <1>2, <1>3, <1>4, <1>5, <1>6, <1>7, <1>8, <1>9, <1>10, <1>11, <1>12, <1>13
     DEF ConnectStep

LEMMA ContentsType ==
    ASSUME TypeInv, NEW o \in Conns
    PROVE  Contents(o) \in Seq(Message)
<1>1. obj[o] \in Queue /\ mongo \in [Ids -> Seq(Message)]
  BY DEF TypeInv, TypeOK, QueueTypeOK
<1> QED
  BY <1>1 DEF Contents, Queue

LEMMA PopAndRetainTypes ==
    ASSUME QueueTypeOK, NEW o \in Conns, NEW m \in Message, PopAndRetain(o, m)
    PROVE  QueueTypeOK' /\ \A q \in Conns : obj'[q].observer = obj[q].observer
<1> DEFINE sq == IF obj[o].persistent THEN obj[o].syncq ELSE DropHead(obj[o].syncq)
           rl == IF m.qos = 1 THEN Append(obj[o].retainList, [m EXCEPT !.dup = TRUE])
                              ELSE obj[o].retainList
           mg == IF obj[o].persistent THEN DropHead(mongo[obj[o].id]) ELSE mongo[obj[o].id]
<1>1. /\ obj[o] \in Queue /\ obj[o].id \in Ids
      /\ obj[o].syncq \in Seq(Message) /\ obj[o].retainList \in Seq(Message)
      /\ mongo[obj[o].id] \in Seq(Message)
  BY DEF QueueTypeOK, Queue
<1>2. [m EXCEPT !.dup = TRUE] \in Message
  BY Zenon DEF Message
<1>3. sq \in Seq(Message) /\ rl \in Seq(Message) /\ mg \in Seq(Message)
  BY <1>1, <1>2, DropHeadType
<1>4. /\ obj' = [obj EXCEPT ![o].syncq = sq, ![o].retainList = rl]
      /\ mongo' = [mongo EXCEPT ![obj[o].id] = mg]
      /\ queues' = queues
  BY DEF PopAndRetain
<1> HIDE DEF sq, rl, mg
<1>5. obj'[o] \in Queue /\ obj'[o].observer = obj[o].observer
  BY <1>1, <1>3, <1>4, Zenon DEF QueueTypeOK, Queue
<1>6. obj' = [obj EXCEPT ![o] = obj'[o]]
  BY <1>4, Zenon DEF QueueTypeOK
<1> QED
  BY <1>1, <1>3, <1>4, <1>5, <1>6 DEF QueueTypeOK

LEMMA DrainTypes ==
    ASSUME TypeInv, NEW c \in Conns, DrainStep(c)
    PROVE  TypeInv'
<1>0. conn[c] \in Conn /\ DOMAIN conn = Conns /\ ConnShape(c)
  BY ConnFacts
<1>q. conn[c].pc \in {"flush", "drain", "pop"} => conn[c].queue \in Conns
  BY <1>0 DEF ConnShape, Conn
<1>1. CASE Flush(c)
  <2>0. conn[c].pc = "flush" /\ conn[c].queue \in Conns
    BY <1>1, <1>q DEF Flush
  <2>r. obj[conn[c].queue].retainList \in Seq(Message) /\ conn[c].sent \in Seq(Message)
    BY <1>0, <2>0 DEF TypeInv, TypeOK, QueueTypeOK, Queue, Conn
  <2>s. PICK s \in Seq(Message) : conn' = [conn EXCEPT ![c].pc = "drain", ![c].sent = s]
    <3>1. CASE conn[c].up
      <4>1. conn[c].sent \o obj[conn[c].queue].retainList \in Seq(Message)
        BY <2>r
      <4> QED
        BY <1>0, <1>1, <3>1, <4>1, Zenon DEF Flush
    <3>2. CASE ~ conn[c].up
      BY <1>0, <1>1, <2>r, <3>2, Zenon DEF Flush
    <3> QED
      BY <3>1, <3>2
  <2>1. conn'[c] \in Conn
    BY <1>0, <2>s, ConnUpdate, ConnFields, StateFacts, Zenon
  <2>2. conn' = [conn EXCEPT ![c] = conn'[c]] /\ panicked' \in BOOLEAN /\ othersUnchanged
    BY <1>1, <2>s, ConnFacts, Zenon DEF Flush
  <2>3. conn'[c].queue = conn[c].queue /\ ConnShape(c)'
    BY <1>0, <2>0, <2>s DEF Conn, ConnShape, Handling
  <2> QED
    BY <2>1, <2>2, <2>3, LocalStepOnly DEF LocalStep
<1>2. CASE DrainSend(c)
  <2>0. conn[c].pc = "drain" /\ conn[c].queue \in Conns
    BY <1>2, <1>q DEF DrainSend
  <2>h. /\ Contents(conn[c].queue) # <<>>
        /\ conn' = [conn EXCEPT ![c].pc = "pop", ![c].cur = Head(Contents(conn[c].queue)),
                                ![c].sent = Append(@, Head(Contents(conn[c].queue)))]
    BY <1>2 DEF DrainSend
  <2>m. Head(Contents(conn[c].queue)) \in Message
    BY <2>0, <2>h, ContentsType
  <2>v. Append(conn[c].sent, Head(Contents(conn[c].queue))) \in Seq(Message)
    BY <1>0, <2>m, ConnFields
  <2>1. conn'[c] \in Conn
    BY <1>0, <2>h, <2>m, <2>v, ConnUpdate, StateFacts, Zenon
  <2>2. conn' = [conn EXCEPT ![c] = conn'[c]] /\ panicked' \in BOOLEAN /\ othersUnchanged
    BY <1>2, ConnFacts, Zenon DEF DrainSend
  <2>3. conn'[c].queue = conn[c].queue /\ ConnShape(c)'
    BY <1>0, <2>0, <2>h, <2>m, BaseAssumption DEF Conn, ConnShape, Handling
  <2> QED
    BY <2>1, <2>2, <2>3, LocalStepOnly DEF LocalStep
<1>3. CASE DrainPop(c)
  <2>0. conn[c].pc = "pop" /\ conn[c].queue \in Conns /\ conn[c].cur \in Message
    BY <1>0, <1>3, <1>q DEF DrainPop, ConnShape, Conn
  <2>a. /\ PopAndRetain(conn[c].queue, conn[c].cur)
        /\ conn' = [conn EXCEPT ![c].pc = "drain", ![c].cur = None]
        /\ UNCHANGED <<sessions, persistent, subs, topics, sm, es, npub, panicked>>
    BY <1>3 DEF DrainPop, smVars, eventVars
  <2>1. conn'[c] \in Conn
    BY <1>0, <2>a, ConnUpdate, ConnFields, StateFacts, Zenon
  <2>2. conn' = [conn EXCEPT ![c] = conn'[c]] /\ panicked' \in BOOLEAN
    BY <2>a, ConnFacts, Zenon
  <2>3. conn'[c].queue = conn[c].queue /\ ConnShape(c)'
    BY <1>0, <2>0, <2>a DEF Conn, ConnShape, Handling
  <2>4. QueueTypeOK' /\ \A q \in Conns : obj'[q].observer = obj[q].observer
    BY <2>0, <2>a, PopAndRetainTypes DEF TypeInv, TypeOK
  <2> QED
    BY <2>a, <2>1, <2>2, <2>3, <2>4, LocalStepTables, Zenon DEF LocalStep
<1>4. CASE DrainDone(c)
  <2>1. conn'[c] \in Conn
    BY <1>0, <1>4, ConnUpdate, ConnFields, StateFacts, Zenon DEF DrainDone, Goto
  <2>2. conn' = [conn EXCEPT ![c] = conn'[c]] /\ panicked' \in BOOLEAN /\ othersUnchanged
    BY <1>4, ConnFacts, Zenon DEF DrainDone, Goto
  <2>3. conn'[c].queue = conn[c].queue /\ ConnShape(c)'
    BY <1>0, <1>4 DEF DrainDone, Goto, Conn, ConnShape, Handling
  <2> QED
    BY <2>1, <2>2, <2>3, LocalStepOnly DEF LocalStep
<1> QED
  BY <1>1, <1>2, <1>3, <1>4 DEF DrainStep

LEMMA EventTypes ==
    ASSUME TypeInv, EventStep
    PROVE  TypeInv'
<1>0. /\ es \in [pc: {"idle", "deliver", "publish"}, cur: Event \cup {None}]
      /\ EventShape /\ npub \in Nat
  BY DEF TypeInv, TypeOK, EventTypeOK, Shape
<1>1. CASE HandOver
  <2>1. /\ es.pc = "deliver" /\ es' = [es EXCEPT !.pc = "publish"]
        /\ sm' = [Idle EXCEPT !.pc = es.cur.type, !.cur = es.cur]
        /\ UNCHANGED <<queues, obj, mongo, sessions, persistent, subs, topics, npub,
                       conn, panicked>>
    BY <1>1 DEF HandOver, HandedOver, TakeEvent, queueVars, sessionVars
  <2>2. es.cur \in Event /\ es.cur # None
    BY <1>0, <2>1 DEF EventShape
  <2>3. EventTypeOK' /\ EventShape'
    BY <1>0, <2>1 DEF EventTypeOK, EventShape
  <2>4. /\ es.cur.type \in {"create", "destroy", "subscribe", "unsubscribe", "publish"}
        /\ es.cur.type \in TopicEvents => es.cur.topic # None
    BY <1>0, <2>1, <2>2 DEF EventShape, Event
  <2>5. SmTypeOK' /\ ManagerShape' /\ sm'.target = None
    BY <2>1, <2>2, <2>4, Zenon DEF TypeInv, TypeOK, SmTypeOK, Manager, ManagerShape, Idle, Publishing,
                            TopicEvents
  <2>6. QueueTypeOK' /\ SessionTypeOK' /\ (\A c \in Conns : ConnShape(c)') /\ ObserverShape'
    BY <2>1, <2>5 DEF TypeInv, TypeOK, Shape, QueueTypeOK, SessionTypeOK, ConnShape,
                      ObserverShape
  <2> QED
    BY <2>3, <2>5, <2>6 DEF TypeInv, TypeOK, Shape
<1>2. CASE PublishToKafka /\ UNCHANGED <<queueVars, smVars, sessionVars>>
  <2>1. EventTypeOK' /\ EventShape'
    BY <1>0, <1>2 DEF PublishToKafka, EventTypeOK, EventShape
  <2>2. UNCHANGED <<queues, obj, mongo, sessions, persistent, subs, topics, sm, conn, panicked>>
    BY <1>2 DEF queueVars, smVars, sessionVars
  <2>3. QueueTypeOK' /\ SmTypeOK' /\ SessionTypeOK'
    BY <2>2 DEF TypeInv, TypeOK, QueueTypeOK, SmTypeOK, Manager, SessionTypeOK
  <2>4. ManagerShape' /\ (\A c \in Conns : ConnShape(c)') /\ ObserverShape'
    BY <2>2 DEF TypeInv, Shape, ManagerShape, ConnShape, ObserverShape
  <2> QED
    BY <2>1, <2>3, <2>4 DEF TypeInv, TypeOK, Shape
<1> QED
  BY <1>1, <1>2 DEF EventStep

\* A step of the session manager that changes neither the connections nor an
\* observer, except to remove one.
LEMMA ManagerStepTypes ==
    ASSUME TypeInv, QueueTypeOK', SmTypeOK', ManagerShape',
           \A o \in Conns : obj'[o].observer \in {None, obj[o].observer},
           \/ sm'.target \in {None, sm.target}
           \/ \E o \in Conns : sm'.target = obj[o].observer,
           UNCHANGED <<eventVars, sessionVars>>
    PROVE  TypeInv'
<1>1. UNCHANGED <<es, npub, conn, panicked>>
  BY DEF eventVars, sessionVars
<1>2. EventTypeOK' /\ EventShape' /\ SessionTypeOK' /\ \A c \in Conns : ConnShape(c)'
  BY <1>1 DEF TypeInv, TypeOK, Shape, EventTypeOK, EventShape, SessionTypeOK, ConnShape
<1>3. ObserverShape'
  BY <1>1 DEF TypeInv, Shape, ObserverShape
<1> QED
  BY <1>2, <1>3 DEF TypeInv, TypeOK, Shape

LEMMA StoreTypes ==
    ASSUME QueueTypeOK, NEW o \in Conns, NEW m \in Message, Store(o, m)
    PROVE  QueueTypeOK' /\ \A q \in Conns : obj'[q].observer = obj[q].observer
<1> DEFINE sq == IF obj[o].persistent THEN obj[o].syncq ELSE Append(obj[o].syncq, m)
           mg == IF obj[o].persistent THEN Append(mongo[obj[o].id], m) ELSE mongo[obj[o].id]
<1>1. /\ obj[o] \in Queue /\ obj[o].id \in Ids
      /\ obj[o].syncq \in Seq(Message) /\ mongo[obj[o].id] \in Seq(Message)
  BY DEF QueueTypeOK, Queue
<1>2. sq \in Seq(Message) /\ mg \in Seq(Message)
  BY <1>1
<1>3. /\ obj' = [obj EXCEPT ![o].syncq = sq, ![o].pushed = Append(@, m)]
      /\ mongo' = [mongo EXCEPT ![obj[o].id] = mg]
      /\ queues' = queues
  BY DEF Store
<1> HIDE DEF sq, mg
<1>4. obj'[o] \in Queue /\ obj'[o].observer = obj[o].observer
  BY <1>1, <1>2, <1>3, SMTT(30) DEF QueueTypeOK, Queue
<1>5. obj' = [obj EXCEPT ![o] = obj'[o]]
  BY <1>3, Zenon DEF QueueTypeOK
<1> QED
  BY <1>1, <1>2, <1>3, <1>4, <1>5 DEF QueueTypeOK

LEMMA CloseUpType ==
    ASSUME NEW list \in Seq(Topics), NEW t
    PROVE  CloseUp(list, t) \in Seq(Topics)
<1>1. \A j \in 1..Len(list) : list[j] \in Topics /\ (j < Len(list) => list[j + 1] \in Topics)
  OBVIOUS
<1>2. CloseUp(list, t) \in [1..Len(list) -> Topics]
  BY <1>1 DEF CloseUp
<1>3. Len(list) \in Nat
  OBVIOUS
<1> QED
  BY <1>2, <1>3

LEMMA RemoveSubscriptionTypes ==
    ASSUME TypeInv, NEW id \in Ids, NEW t \in Topics, RemoveSubscription(id, t)
    PROVE  subs' \in [Ids -> [Topics -> Subscription]] /\ topics' \in [Ids -> Seq(Topics)]
<1>1. subs \in [Ids -> [Topics -> Subscription]] /\ topics \in [Ids -> Seq(Topics)]
  BY DEF TypeInv, TypeOK, SmTypeOK, Manager
<1>2. NoSubscription \in Subscription
  BY DEF NoSubscription, Subscription, Qos
<1>3. CloseUp(topics[id], t) \in Seq(Topics)
  BY <1>1, CloseUpType
<1> QED
  BY <1>1, <1>2, <1>3 DEF RemoveSubscription

LEMMA ManagerTypes ==
    ASSUME TypeInv, ManagerStep
    PROVE  TypeInv'
<1>0. QueueTypeOK /\ SmTypeOK /\ ManagerShape
  BY DEF TypeInv, TypeOK, Shape
<1>a. UNCHANGED <<eventVars, sessionVars>>
  BY DEF ManagerStep
<1>c. sm.pc # "idle" => sm.cur \in Event /\ sm.cur.client \in Ids /\ sm.cur.qos \in Qos
                        /\ sm.cur.mid \in Nat
  BY <1>0 DEF SmTypeOK, Manager, ManagerShape, Event
<1>t. sm.pc \in TopicEvents \cup Publishing => sm.cur.topic \in Topics
  BY <1>0, <1>c DEF ManagerShape, Event, TopicEvents, Publishing
<1>q. ASSUME UNCHANGED <<queues, obj, mongo>>
      PROVE  QueueTypeOK' /\ \A o \in Conns : obj'[o].observer = obj[o].observer
  BY <1>0, <1>q DEF QueueTypeOK
<1>i. ASSUME sm' = Idle
      PROVE  /\ sm'.target = None /\ ManagerShape'
             /\ sm' \in [pc: {"idle"}, cur: {None}, pending: {{}}, queue: {None},
                         target: {None}, i: Nat]
  BY <1>i DEF Idle, ManagerShape, TopicEvents, Publishing
<1>1. CASE OnSessionCreate
  <2>1. sm' = Idle /\ UNCHANGED <<queues, obj, mongo, sessions, persistent, subs, topics>>
    BY <1>1 DEF OnSessionCreate, queueVars
  <2>2. SmTypeOK'
    BY <1>0, <1>i, <2>1 DEF SmTypeOK, Manager
  <2> QED
    BY <1>a, <1>q, <1>i, <2>1, <2>2, ManagerStepTypes
<1>2. CASE OnTopicSubscribe
  <2> DEFINE id == sm.cur.client
             t  == sm.cur.topic
             q  == queues[id]
             s  == [queue |-> q, qos |-> sm.cur.qos]
  <2>1. /\ sm.pc = "subscribe" /\ sm' = Idle
        /\ subs' = [subs EXCEPT ![id][t] = IF q = None THEN @ ELSE s]
        /\ topics' = [topics EXCEPT ![id] = IF q = None THEN @ ELSE Append(@, t)]
        /\ UNCHANGED <<queues, obj, mongo, sessions, persistent>>
    BY <1>2 DEF OnTopicSubscribe, queueVars
  <2>2. id \in Ids /\ t \in Topics /\ q \in Conns \cup {None}
    BY <1>0, <1>c, <1>t, <2>1 DEF TopicEvents, QueueTypeOK
  <2>3. s \in Subscription
    BY <1>c, <2>1, <2>2 DEF Subscription
  <2> HIDE DEF s, id, t, q
  <2>4. subs' \in [Ids -> [Topics -> Subscription]] /\ topics' \in [Ids -> Seq(Topics)]
    BY <1>0, <2>1, <2>2, <2>3 DEF SmTypeOK, Manager
  <2>5. SmTypeOK'
    BY <1>0, <1>i, <2>1, <2>4 DEF SmTypeOK, Manager
  <2> QED
    BY <1>a, <1>q, <1>i, <2>1, <2>5, ManagerStepTypes
<1>3. CASE OnTopicUnsubscribe
  <2>1. /\ sm.pc = "unsubscribe" /\ sm' = Idle
        /\ RemoveSubscription(sm.cur.client, sm.cur.topic)
        /\ UNCHANGED <<queues, obj, mongo, sessions, persistent>>
    BY <1>3 DEF OnTopicUnsubscribe, queueVars
  <2>2. subs' \in [Ids -> [Topics -> Subscription]] /\ topics' \in [Ids -> Seq(Topics)]
    BY <1>c, <1>t, <2>1, RemoveSubscriptionTypes DEF TopicEvents
  <2>3. SmTypeOK'
    BY <1>0, <1>i, <2>1, <2>2 DEF SmTypeOK, Manager
  <2> QED
    BY <1>a, <1>q, <1>i, <2>1, <2>3, ManagerStepTypes
<1>4. CASE OnTopicPublish
  <2> DEFINE P == {id \in Ids : subs[id][sm.cur.topic].queue # None}
  <2>1. /\ sm.pc = "publish" /\ sm' = [sm EXCEPT !.pc = "push", !.pending = P]
        /\ UNCHANGED <<queues, obj, mongo, sessions, persistent, subs, topics>>
    BY <1>4 DEF OnTopicPublish, queueVars
  <2>2. P \in SUBSET Ids /\ \A id \in P : subs[id][sm.cur.topic].queue # None
    OBVIOUS
  <2> HIDE DEF P
  <2>3. SmTypeOK' /\ sm'.target = sm.target
    BY <1>0, <2>1, <2>2, Zenon DEF SmTypeOK, Manager
  <2>4. ManagerShape'
    BY <1>0, <1>t, <2>1, <2>2 DEF SmTypeOK, Manager, ManagerShape, TopicEvents, Publishing
  <2> QED
    BY <1>a, <1>q, <2>1, <2>3, <2>4, ManagerStepTypes
<1>5. CASE \E id \in Ids : PushTo(id)
  <2>0. PICK id \in Ids : PushTo(id)
    BY <1>5
  <2> DEFINE sub == subs[id][sm.cur.topic]
             m == [mid |-> sm.cur.mid, topic |-> sm.cur.topic, qos |-> sub.qos, dup |-> FALSE]
  <2>1. /\ sm.pc = "push" /\ id \in sm.pending /\ Store(sub.queue, m)
        /\ sm' = [sm EXCEPT !.pc = "wake", !.pending = @ \ {id}, !.queue = sub.queue]
        /\ UNCHANGED <<sessions, persistent, subs, topics>>
    BY <2>0 DEF PushTo
  <2>2. sm.cur.topic \in Topics /\ sub \in Subscription /\ sub.queue # None
    BY <1>0, <1>t, <2>1 DEF SmTypeOK, Manager, ManagerShape, Publishing
  <2>3. sub.queue \in Conns /\ m \in Message
    BY <1>c, <2>1, <2>2 DEF Subscription, Message
  <2>4. QueueTypeOK' /\ \A o \in Conns : obj'[o].observer = obj[o].observer
    BY <1>0, <2>1, <2>3, StoreTypes
  <2> HIDE DEF sub, m
  <2>5. SmTypeOK' /\ sm'.target = sm.target
    BY <1>0, <2>1, <2>3, Zenon DEF SmTypeOK, Manager
  <2>6. ManagerShape'
    BY <1>0, <2>1, <2>2, <2>3 DEF SmTypeOK, Manager, ManagerShape, TopicEvents, Publishing
  <2> QED
    BY <1>a, <2>1, <2>4, <2>5, <2>6, ManagerStepTypes
<1>6. CASE Wake
  <2> DEFINE o == obj[sm.queue].observer
  <2>1. /\ sm.pc = "wake"
        /\ sm' = [sm EXCEPT !.pc = IF o = None THEN "push" ELSE "blocked", !.target = o]
        /\ UNCHANGED <<queues, obj, mongo, sessions, persistent, subs, topics>>
    BY <1>6 DEF Wake, queueVars
  <2>2. sm.queue \in Conns /\ o \in Conns \cup {None}
    BY <1>0, <2>1 DEF ManagerShape, SmTypeOK, Manager, QueueTypeOK, Queue
  <2>3. SmTypeOK' /\ sm'.target = o
    BY <1>0, <2>1, <2>2, Zenon DEF SmTypeOK, Manager
  <2>4. ManagerShape'
    BY <1>0, <2>1, <2>2 DEF SmTypeOK, Manager, ManagerShape, TopicEvents, Publishing
  <2> QED
    BY <1>a, <1>q, <2>1, <2>2, <2>3, <2>4, ManagerStepTypes
<1>7. CASE PublishDone
  <2>1. sm' = Idle /\ UNCHANGED <<queues, obj, mongo, sessions, persistent, subs, topics>>
    BY <1>7 DEF PublishDone, queueVars
  <2>2. SmTypeOK'
    BY <1>0, <1>i, <2>1 DEF SmTypeOK, Manager
  <2> QED
    BY <1>a, <1>q, <1>i, <2>1, <2>2, ManagerStepTypes
<1>8. CASE OnSessionDestroy
  <2>1. /\ sm.pc = "destroy"
        /\ UNCHANGED <<queues, obj, mongo, sessions, persistent, subs, topics>>
    BY <1>8 DEF OnSessionDestroy, queueVars
  <2>2. PICK label \in {"clear", "sweep"} : sm' = [sm EXCEPT !.pc = label, !.i = 1]
    BY <1>8, Zenon DEF OnSessionDestroy
  <2>3. SmTypeOK' /\ sm'.target = sm.target
    BY <1>0, <2>1, <2>2, Zenon DEF SmTypeOK, Manager
  <2>4. ManagerShape'
    BY <1>0, <2>1, <2>2 DEF SmTypeOK, Manager, ManagerShape, TopicEvents, Publishing
  <2> QED
    BY <1>a, <1>q, <2>1, <2>3, <2>4, ManagerStepTypes
<1>9. CASE ClearObserver
  <2> DEFINE q == queues[sm.cur.client]
  <2>1. /\ sm' = Idle
        /\ obj' = [o \in Conns |-> IF o = q THEN [obj[o] EXCEPT !.observer = None] ELSE obj[o]]
        /\ UNCHANGED <<queues, mongo, sessions, persistent, subs, topics>>
    BY <1>9 DEF ClearObserver
  <2> HIDE DEF q
  <2>2. \A o \in Conns : obj'[o] \in Queue /\ obj'[o].observer \in {None, obj[o].observer}
    BY <1>0, <2>1, Zenon DEF QueueTypeOK, Queue
  <2>3. QueueTypeOK'
    BY <1>0, <2>1, <2>2 DEF QueueTypeOK
  <2>4. SmTypeOK'
    BY <1>0, <1>i, <2>1 DEF SmTypeOK, Manager
  <2> QED
    BY <1>a, <1>i, <2>1, <2>2, <2>3, <2>4, ManagerStepTypes
<1>10. CASE SweepTopic
  <2> DEFINE id == sm.cur.client
  <2>1. /\ sm.pc = "sweep" /\ sm.i <= Len(topics[id])
        /\ RemoveSubscription(id, topics[id][sm.i])
        /\ sm' = [sm EXCEPT !.i = @ + 1]
        /\ UNCHANGED <<queues, obj, mongo, sessions, persistent>>
    BY <1>10 DEF SweepTopic, queueVars
  <2>2. id \in Ids /\ topics[id][sm.i] \in Topics
    BY <1>0, <1>c, <2>1 DEF SmTypeOK, Manager, ManagerShape
  <2>3. subs' \in [Ids -> [Topics -> Subscription]] /\ topics' \in [Ids -> Seq(Topics)]
    BY <2>1, <2>2, RemoveSubscriptionTypes
  <2>s. /\ sm' = [sm EXCEPT !.i = @ + 1] /\ sm.i \in Nat
        /\ UNCHANGED <<sessions, persistent>>
    BY <1>0, <2>1 DEF SmTypeOK, Manager
  <2>m. sm' \in Manager /\ sm'.target = sm.target
    <3>1. sm \in Manager /\ sm.i + 1 \in Nat
      BY <1>0, <2>s DEF SmTypeOK
    <3>2. sm' = [sm EXCEPT !.i = sm.i + 1]
      BY <2>s
    <3> QED
      BY <3>1, <3>2 DEF Manager
  <2>4. SmTypeOK'
    BY <1>0, <2>s, <2>3, <2>m, Zenon DEF SmTypeOK, Manager
  <2>5. ManagerShape'
    BY <1>0, <2>1 DEF SmTypeOK, Manager, ManagerShape, TopicEvents, Publishing
  <2> QED
    BY <1>a, <1>q, <2>1, <2>m, <2>4, <2>5, ManagerStepTypes
<1>11. CASE SweepDone
  <2>1. /\ sm.pc = "sweep" /\ sm' = [sm EXCEPT !.pc = "remove"]
        /\ UNCHANGED <<queues, obj, mongo, sessions, persistent, subs, topics>>
    BY <1>11 DEF SweepDone, queueVars
  <2>2. SmTypeOK' /\ sm'.target = sm.target
    BY <1>0, <2>1, Zenon DEF SmTypeOK, Manager
  <2>3. ManagerShape'
    BY <1>0, <2>1 DEF SmTypeOK, Manager, ManagerShape, TopicEvents, Publishing
  <2> QED
    BY <1>a, <1>q, <2>1, <2>2, <2>3, ManagerStepTypes
<1>12. CASE DestroyRemovesSession
  <2>1. /\ sm.pc = "remove" /\ sm' = [sm EXCEPT !.pc = "free"]
        /\ sessions' = [sessions EXCEPT ![sm.cur.client] = None]
        /\ UNCHANGED <<queues, obj, mongo, persistent, subs, topics>>
    BY <1>12 DEF DestroyRemovesSession, RemoveSession, queueVars
  <2>2. SmTypeOK' /\ sm'.target = sm.target
    BY <1>0, <2>1, Zenon DEF SmTypeOK, Manager
  <2>3. ManagerShape'
    BY <1>0, <2>1 DEF SmTypeOK, Manager, ManagerShape, TopicEvents, Publishing
  <2> QED
    BY <1>a, <1>q, <2>1, <2>2, <2>3, ManagerStepTypes
<1>13. CASE DestroyFreesQueue
  <2>1. /\ sm' = Idle
        /\ queues' = [queues EXCEPT ![sm.cur.client] = None]
        /\ UNCHANGED <<obj, mongo, sessions, persistent, subs, topics>>
    BY <1>13 DEF DestroyFreesQueue, DestroyQueue
  <2>2. QueueTypeOK' /\ SmTypeOK'
    BY <1>0, <1>i, <2>1, Zenon DEF QueueTypeOK, SmTypeOK, Manager
  <2> QED
    BY <1>a, <1>i, <2>1, <2>2, ManagerStepTypes
<1> QED
  BY <1>1, <1>2, <1>3, <1>4, <1>5, <1>6, <1>7, <1>8, <1>9, <1>10, <1>11, <1>12, <1>13
     DEF ManagerStep

LEMMA InitTypes ==
    ASSUME Init
    PROVE  TypeInv
<1>1. QueueTypeOK
  <2>1. FreshQueue(None, FALSE) \in Queue
    BY DEF FreshQueue, Queue, Ids
  <2>2. <<>> \in Seq(Message)
    OBVIOUS
  <2> QED
    BY <2>1, <2>2, Zenon DEF Init, QueueInit, QueueTypeOK
<1>2. SmTypeOK /\ ManagerShape /\ sm.target = None
  <2>1. NoSubscription \in Subscription
    BY DEF NoSubscription, Subscription, Qos
  <2> QED
    BY <2>1, SMTT(30) DEF Init, SmInit, SmTypeOK, Manager, Idle, ManagerShape, TopicEvents, Publishing
<1>3. EventTypeOK /\ EventShape
  BY DEF Init, EventInit, EventTypeOK, EventShape
<1>4. NewMqttSession \in Conn
  <2>1. 0 \in Nat /\ <<>> \in Seq(Message) /\ <<>> \in Seq(Said) /\ TRUE \in BOOLEAN
    OBVIOUS
  <2> QED
    BY StateFacts, <2>1, ZenonT(30) DEF NewMqttSession, Conn, Ids
<1>5. SessionTypeOK /\ \A c \in Conns : ConnShape(c)
  <2>1. conn = [c \in Conns |-> NewMqttSession] /\ panicked = FALSE
    BY DEF Init, SessionInit
  <2>2. \A c \in Conns : ConnShape(c)
    BY <2>1, ZenonT(30) DEF ConnShape, NewMqttSession, Handling
  <2> QED
    BY <1>4, <2>1, <2>2, Zenon DEF SessionTypeOK
<1>6. ObserverShape
  BY <1>2 DEF Init, QueueInit, FreshQueue, ObserverShape
<1> QED
  BY <1>1, <1>2, <1>3, <1>5, <1>6 DEF TypeInv, TypeOK, Shape

\* A step that at most ends the process.
LEMMA StutterTypes ==
    ASSUME TypeInv, panicked' \in BOOLEAN, UNCHANGED <<queueVars, smVars, eventVars, conn>>
    PROVE  TypeInv'
<1>1. UNCHANGED <<queues, obj, mongo, sessions, persistent, subs, topics, sm, es, npub, conn>>
  BY DEF queueVars, smVars, eventVars
<1>2. QueueTypeOK' /\ SmTypeOK' /\ EventTypeOK' /\ SessionTypeOK'
  BY <1>1 DEF TypeInv, TypeOK, QueueTypeOK, SmTypeOK, Manager, EventTypeOK, SessionTypeOK
<1>3. (\A c \in Conns : ConnShape(c)') /\ ObserverShape' /\ EventShape' /\ ManagerShape'
  BY <1>1, ZenonT(30) DEF TypeInv, Shape, ConnShape, ObserverShape, EventShape, ManagerShape
<1> QED
  BY <1>2, <1>3 DEF TypeInv, TypeOK, Shape

LEMMA NextTypes ==
    ASSUME TypeInv, [Next]_vars
    PROVE  TypeInv'
<1>1. ASSUME NEW c \in Conns, MainStep(c)
      PROVE  TypeInv'
  BY <1>1, SelectTypes, ConnectTypes, DrainTypes, PacketTypes, DisconnectTypes DEF MainStep
<1>2. ASSUME NEW c \in Conns, Drop(c) \/ TimerFires(c) \/ ReaderStep(c) \/ AvailablePanics(c)
      PROVE  TypeInv'
  BY <1>2, ReaderTypes
<1>3. CASE ConcurrentMapAccess
  BY <1>3, StutterTypes DEF ConcurrentMapAccess
<1>4. CASE UNCHANGED vars
  BY <1>4, StutterTypes DEF vars, sessionVars, TypeInv, TypeOK, SessionTypeOK
<1> QED
  BY <1>1, <1>2, <1>3, <1>4, EventTypes, ManagerTypes DEF Next

\* Every variable keeps its type, and no goroutine ever dereferences a nil
\* packet, queue, message, event or observer except where the model says that
\* it panics: TypeInv is an invariant.
THEOREM TypeCorrect == Spec => []TypeInv
<1>1. Init => TypeInv
  BY InitTypes
<1>2. TypeInv /\ [Next]_vars => TypeInv'
  BY NextTypes
<1> QED
  BY <1>1, <1>2, PTL DEF Spec

\* In particular every variable has its type.
THEOREM TypesHold == Spec => []TypeOK
<1>1. TypeInv => TypeOK
  BY DEF TypeInv
<1> QED
  BY <1>1, TypeCorrect, PTL
=============================================================================
