------------------------- MODULE BrokerSafetyProofs -------------------------
(* The safety properties of Broker, for any number of connections, clients *)
(* and topics: where the messages of a client come from and in which order, *)
(* the life of a session, the ownership of queues, the delivery to clean   *)
(* sessions.                                                               *)
EXTENDS BrokerSafetySteps, Integers

-----------------------------------------------------------------------------
(* Sequences of messages *)

LEMMA DroppedTopics ==
    ASSUME NEW s \in Seq(Message)
    PROVE  TopicsOf(DropHead(s)) \subseteq TopicsOf(s)
<1>1. CASE s = <<>>
  BY <1>1, Zenon DEF DropHead
<1>2. CASE s # <<>>
  <2> SUFFICES ASSUME NEW i \in 1..Len(Tail(s))
               PROVE  Tail(s)[i].topic \in TopicsOf(s)
    BY <1>2, Zenon DEF DropHead, TopicsOf
  <2>1. i + 1 \in 1..Len(s) /\ Tail(s)[i] = s[i + 1]
    BY <1>2
  <2> QED
    BY <2>1, Zenon DEF TopicsOf
<1> QED
  BY <1>1, <1>2

LEMMA AppendedTopic ==
    ASSUME NEW s \in Seq(Message), NEW m \in Message
    PROVE  TopicsOf(Append(s, m)) \subseteq TopicsOf(s) \cup {m.topic}
BY DEF TopicsOf

LEMMA HeadTopic ==
    ASSUME NEW s \in Seq(Message), s # <<>>
    PROVE  Head(s).topic \in TopicsOf(s)
BY DEF TopicsOf

LEMMA NoTopics == TopicsOf(<<>>) = {}
BY DEF TopicsOf

LEMMA JoinedTopics ==
    ASSUME NEW s \in Seq(Message), NEW t \in Seq(Message)
    PROVE  TopicsOf(s \o t) \subseteq TopicsOf(s) \cup TopicsOf(t)
<1> SUFFICES ASSUME NEW i \in 1..Len(s \o t)
             PROVE  (s \o t)[i].topic \in TopicsOf(s) \cup TopicsOf(t)
  BY DEF TopicsOf
<1>1. CASE i <= Len(s)
  BY <1>1 DEF TopicsOf
<1>2. CASE i > Len(s)
  <2>1. i - Len(s) \in 1..Len(t) /\ (s \o t)[i] = t[i - Len(s)]
    BY <1>2
  <2> QED
    BY <2>1, Zenon DEF TopicsOf
<1> QED
  BY <1>1, <1>2

LEMMA MidsAreNumbers ==
    ASSUME NEW s \in Seq(Message)
    PROVE  \A i \in 1..Len(s) : s[i].mid \in Nat
<1>1. \A i \in 1..Len(s) : s[i] \in Message
  OBVIOUS
<1> QED
  BY <1>1, Zenon DEF Message

LEMMA BelowMore ==
    ASSUME NEW s \in Seq(Message), NEW n \in Int, NEW k \in Int, Below(s, n), n <= k
    PROVE  Below(s, k)
BY MidsAreNumbers DEF Below

LEMMA PushedRises ==
    ASSUME NEW s \in Seq(Message), NEW m \in Message, Rising(s), Below(s, m.mid)
    PROVE  Rising(Append(s, m))
<1>1. m.mid \in Nat
  BY DEF Message
<1>2. /\ Len(Append(s, m)) = Len(s) + 1 /\ Len(s) \in Nat
      /\ Append(s, m)[Len(s) + 1] = m
      /\ \A i \in 1..Len(s) : Append(s, m)[i] = s[i]
  OBVIOUS
<1> DEFINE t == Append(s, m)
<1> HIDE DEF t
<1>3. ASSUME NEW i \in 1..Len(t), NEW j \in 1..Len(t), i < j
      PROVE  t[i].mid < t[j].mid
  <2>1. i \in 1..Len(s)
    BY <1>2, <1>3 DEF t
  <2>2. CASE j \in 1..Len(s)
    BY <1>2, <1>3, <2>1, <2>2 DEF t, Rising
  <2>3. CASE j = Len(s) + 1
    BY <1>2, <2>1, <2>3 DEF t, Below
  <2> QED
    BY <1>2, <2>2, <2>3 DEF t
<1> QED
  BY <1>3 DEF t, Rising

LEMMA PushedBelow ==
    ASSUME NEW s \in Seq(Message), NEW m \in Message, NEW n \in Int, Below(s, n), m.mid < n
    PROVE  Below(Append(s, m), n)
<1>1. m.mid \in Nat
  BY DEF Message
<1> QED
  BY <1>1, MidsAreNumbers DEF Below

-----------------------------------------------------------------------------
(* The topics of a message *)

\* What a client has asked for stays asked for.
Keeps == \A id \in Ids : Asked[id] \subseteq Asked'[id]

LEMMA AskedSame ==
    ASSUME \A d \in Conns : conn'[d].said = conn[d].said
    PROVE  Asked' = Asked
BY DEF Asked

LEMMA AskedGrows ==
    ASSUME TypeInv, NEW c \in Conns, Only(c), NEW s \in Said,
           conn'[c].said = Append(conn[c].said, s)
    PROVE  /\ Keeps
           /\ s.kind = "subscribe" /\ s.topic \in Topics => s.topic \in Asked'[s.client]
<1>0. conn[c].said \in Seq(Said) /\ s.client \in Ids
  BY ConnFacts, ConnFields, Zenon DEF Said
<1>1. /\ Len(conn'[c].said) = Len(conn[c].said) + 1 /\ Len(conn[c].said) \in Nat
      /\ \A j \in 1..Len(conn[c].said) : conn'[c].said[j] = conn[c].said[j]
      /\ conn'[c].said[Len(conn[c].said) + 1] = s
  BY <1>0
<1>2. ASSUME NEW id \in Ids, NEW t \in Asked[id]
      PROVE  t \in Asked'[id]
  <2> DEFINE r == [kind |-> "subscribe", client |-> id, topic |-> t]
  <2>1. PICK d \in Conns : \E j \in 1..Len(conn[d].said) : conn[d].said[j] = r
    BY <1>2, Zenon DEF Asked
  <2>2. PICK j \in 1..Len(conn[d].said) : conn[d].said[j] = r
    BY <2>1, Zenon
  <2> HIDE DEF r
  <2>3. j \in 1..Len(conn'[d].said) /\ conn'[d].said[j] = r
    BY <1>1, <2>2 DEF Only
  <2> QED
    BY <1>2, <2>3, Zenon DEF Asked, r
<1>3. ASSUME s.kind = "subscribe", s.topic \in Topics
      PROVE  s.topic \in Asked'[s.client]
  <2>1. s = [kind |-> "subscribe", client |-> s.client, topic |-> s.topic]
    BY <1>3 DEF Said
  <2>2. Len(conn[c].said) + 1 \in 1..Len(conn'[c].said)
    BY <1>1
  <2> QED
    BY <1>0, <1>1, <1>3, <2>1, <2>2, Zenon DEF Asked
<1> QED
  BY <1>2, <1>3, Zenon DEF Keeps

LEMMA RoutingFrames ==
    ASSUME TypeInv, RoutingInv, Keeps
    PROVE  /\ UNCHANGED es /\ (sm'.pc = "subscribe" => UNCHANGED sm) => HeldAsked'
           /\ UNCHANGED subs => SubsAsked'
           /\ UNCHANGED <<obj, mongo>> => QueuesAsked'
           /\ \A d \in Conns :
                /\ conn'[d].id = conn[d].id /\ conn'[d].sent = conn[d].sent
                /\ conn'[d].pc = "pop" => conn[d].pc = "pop" /\ conn'[d].cur = conn[d].cur
                => SentAsked(d)'
<1>1. /\ sm.pc = "subscribe" => sm.cur.client \in Ids
      /\ es.pc = "deliver" => es.cur.client \in Ids
  <2>1. /\ sm.pc = "subscribe" => sm.cur \in Event
        /\ es.pc = "deliver" => es.cur \in Event
    BY Zenon DEF TypeInv, TypeOK, SmTypeOK, EventTypeOK, Shape, ManagerShape, EventShape, Manager
  <2> QED
    BY <2>1, Zenon DEF Event
<1>2. UNCHANGED es /\ (sm'.pc = "subscribe" => UNCHANGED sm) => HeldAsked'
  BY <1>1, Zenon DEF RoutingInv, HeldAsked, Keeps
<1>3. UNCHANGED subs => SubsAsked'
  BY Zenon DEF RoutingInv, SubsAsked, Keeps
<1>4. UNCHANGED <<obj, mongo>> => QueuesAsked'
  <2>1. \A o \in Conns : obj[o].id \in Ids
    BY Zenon DEF TypeInv, TypeOK, QueueTypeOK, Queue
  <2> QED
    BY <2>1, Zenon DEF RoutingInv, QueuesAsked, Keeps
<1>5. ASSUME NEW d \in Conns,
             conn'[d].id = conn[d].id, conn'[d].sent = conn[d].sent,
             conn'[d].pc = "pop" => conn[d].pc = "pop" /\ conn'[d].cur = conn[d].cur
      PROVE  SentAsked(d)'
  <2>1. conn[d].id \in Ids /\ SentAsked(d)
    BY ConnFacts, ConnFields, Zenon DEF RoutingInv
  <2> QED
    BY <1>5, <2>1, Zenon DEF SentAsked, Keeps
<1> QED
  BY <1>2, <1>3, <1>4, <1>5, Zenon

\* A step of connection c that neither sends a message nor announces anything.
Quiet(c) ==
    /\ Only(c)
    /\ conn'[c].said = conn[c].said
    /\ conn'[c].id = conn[c].id
    /\ conn'[c].sent = conn[c].sent
    /\ conn'[c].pc = "pop" => conn[c].pc = "pop" /\ conn'[c].cur = conn[c].cur

\* What OrderInv and RoutingInv read besides the connections.
routeVars == <<obj, mongo, subs, sm, es, npub>>

LEMMA RouteKept ==
    /\ othersUnchanged => UNCHANGED routeVars
    /\ UNCHANGED queueVars => UNCHANGED <<obj, mongo>>
    /\ UNCHANGED smVars => UNCHANGED <<subs, sm>>
    /\ UNCHANGED eventVars => UNCHANGED <<es, npub>>
BY Zenon DEF othersUnchanged, queueVars, smVars, eventVars, routeVars

LEMMA GotoQuiet ==
    ASSUME TypeInv, NEW c \in Conns, NEW label, Goto(c, label), label # "pop"
    PROVE  Quiet(c)
BY GotoSame, Zenon DEF Same, Quiet

LEMMA QuietKeeps ==
    ASSUME NEW c \in Conns, Quiet(c)
    PROVE  Keeps
<1>1. \A d \in Conns : conn'[d].said = conn[d].said
  BY Zenon DEF Quiet, Only
<1> QED
  BY <1>1, AskedSame, Zenon DEF Keeps

LEMMA QuietSent ==
    ASSUME TypeInv, RoutingInv, Keeps, NEW c \in Conns, Only(c), SentAsked(c)'
    PROVE  \A d \in Conns : SentAsked(d)'
<1>1. ASSUME NEW d \in Conns, d # c
      PROVE  SentAsked(d)'
  <2>1. conn'[d] = conn[d]
    BY <1>1, Zenon DEF Only
  <2> QED
    BY <2>1, RoutingFrames, Zenon
<1> QED
  BY <1>1, Zenon

LEMMA QuietMove ==
    ASSUME TypeInv, RoutingInv, NEW c \in Conns, Quiet(c),
           UNCHANGED <<obj, mongo, subs, es>>, sm'.pc = "subscribe" => UNCHANGED sm
    PROVE  RoutingInv'
<1>1. Keeps
  BY QuietKeeps, Zenon
<1>2. SentAsked(c)'
  BY <1>1, RoutingFrames, Zenon DEF Quiet
<1>3. \A d \in Conns : SentAsked(d)'
  BY <1>1, <1>2, QuietSent, Zenon DEF Quiet
<1> QED
  BY <1>1, <1>3, RoutingFrames, Zenon DEF RoutingInv

\* A step that changes nothing of what RoutingInv is about.
LEMMA RoutingStutters ==
    ASSUME TypeInv, RoutingInv, UNCHANGED <<conn, obj, mongo, subs, es>>,
           sm'.pc = "subscribe" => UNCHANGED sm
    PROVE  RoutingInv'
<1>1. Keeps
  BY AskedSame, Zenon DEF Keeps
<1> QED
  BY <1>1, RoutingFrames, Zenon DEF RoutingInv

\* A session announces an event, which the event service takes.
LEMMA NotifyMove ==
    ASSUME TypeInv, RoutingInv, NEW c \in Conns, NEW e \in Event, NEW kind,
           Says(kind, e) \in Said, ReceiveEvent(e), Only(c),
           conn'[c].said = Append(conn[c].said, Says(kind, e)),
           conn'[c].id = conn[c].id, conn'[c].sent = conn[c].sent, conn'[c].pc # "pop",
           e.type = "subscribe" => kind = "subscribe" /\ e.topic \in Topics,
           UNCHANGED <<queueVars, smVars>>
    PROVE  RoutingInv'
<1> DEFINE s == Says(kind, e)
<1>0. s.kind = kind /\ s.client = e.client /\ s.topic = e.topic
  BY Zenon DEF Says
<1>1. Keeps /\ (s.kind = "subscribe" /\ s.topic \in Topics => s.topic \in Asked'[s.client])
  <2> HIDE DEF s
  <2>1. s \in Said /\ conn'[c].said = Append(conn[c].said, s)
    BY Zenon DEF s
  <2> QED
    BY <2>1, AskedGrows
<1>2. es'.cur = e /\ UNCHANGED sm
  BY RouteKept, Zenon DEF ReceiveEvent
<1>3. HeldAsked'
  <2>1. e.type = "subscribe" => e.topic \in Asked'[e.client]
    BY <1>0, <1>1, Zenon
  <2>2. sm.pc = "subscribe" => sm.cur.client \in Ids
    BY Zenon DEF TypeInv, TypeOK, SmTypeOK, Shape, ManagerShape, Manager, Event
  <2> QED
    BY <1>1, <1>2, <2>1, <2>2, Zenon DEF RoutingInv, HeldAsked, Keeps
<1>4. SentAsked(c)'
  BY <1>1, RoutingFrames, Zenon
<1>5. \A d \in Conns : SentAsked(d)'
  BY <1>1, <1>4, QuietSent, Zenon
<1>6. SubsAsked' /\ QueuesAsked'
  BY <1>1, RoutingFrames, RouteKept, Zenon
<1> QED
  BY <1>3, <1>5, <1>6, Zenon DEF RoutingInv

LEMMA ReaderRouting ==
    ASSUME TypeInv, RoutingInv, NEW c \in Conns,
           Drop(c) \/ TimerFires(c) \/ ReaderStep(c) \/ AvailablePanics(c)
    PROVE  RoutingInv'
<1>0. conn \in [Conns -> Conn] /\ conn[c] \in Conn
  BY ConnFacts, Zenon
<1>1. CASE Drop(c)
  <2>1. Quiet(c)
    BY <1>0, <1>1, Zenon DEF Drop, Quiet, Only, Conn
  <2> QED
    BY <1>1, <2>1, QuietMove, RouteKept, Zenon DEF Drop, routeVars
<1>4. CASE TimerFires(c)
  <2>1. Quiet(c)
    BY <1>0, <1>4, Zenon DEF TimerFires, Quiet, Only, Conn
  <2> QED
    BY <1>4, <2>1, QuietMove, RouteKept, Zenon DEF TimerFires, routeVars
<1>5. CASE ReadError(c)
  <2>1. Quiet(c)
    BY <1>0, <1>5, Zenon DEF ReadError, Quiet, Only, Conn
  <2> QED
    BY <1>5, <2>1, QuietMove, RouteKept, Zenon DEF ReadError, routeVars
<1>2. CASE \E p \in Offered(c) : ReadPacket(c, p)
  <2>0. PICK p \in Offered(c) : ReadPacket(c, p)
    BY <1>2, Zenon
  <2>1. Quiet(c)
    BY <1>0, <2>0, Zenon DEF ReadPacket, Quiet, Only, Conn
  <2> QED
    BY <2>0, <2>1, QuietMove, RouteKept, Zenon DEF ReadPacket, routeVars
<1>3. CASE ReaderPanics(c) \/ AvailablePanics(c)
  BY <1>3, RoutingStutters, RouteKept, Zenon DEF ReaderPanics, AvailablePanics, routeVars
<1> QED
  BY <1>1, <1>2, <1>3, <1>4, <1>5, Zenon DEF ReaderStep

LEMMA SelectRouting ==
    ASSUME TypeInv, RoutingInv, NEW c \in Conns,
           TakePacket(c) \/ TakeReadError(c) \/ TakeTimeout(c) \/ TakeAvailable(c)
    PROVE  RoutingInv'
<1>0. conn \in [Conns -> Conn] /\ conn[c] \in Conn
  BY ConnFacts, Zenon
<1>1. CASE TakePacket(c)
  <2>1. Quiet(c)
    BY <1>0, <1>1, Zenon DEF TakePacket, Quiet, Only, Conn
  <2> QED
    BY <1>1, <2>1, QuietMove, RouteKept, Zenon DEF TakePacket, routeVars
<1>2. CASE TakeAvailable(c)
  <2>1. Quiet(c)
    BY <1>2, GotoQuiet, Zenon DEF TakeAvailable
  <2>2. sm'.pc = "push"
    BY <1>2 DEF TakeAvailable, TypeInv, TypeOK, SmTypeOK, Manager
  <2> QED
    BY <1>2, <2>1, <2>2, QuietMove, RouteKept, Zenon DEF TakeAvailable
<1>3. CASE TakeReadError(c)
  <2>1. Quiet(c)
    BY <1>0, <1>3, Zenon DEF TakeReadError, Quiet, Only, Conn
  <2> QED
    BY <1>3, <2>1, QuietMove, RouteKept, Zenon DEF TakeReadError, routeVars
<1>4. CASE TakeTimeout(c)
  <2>1. Quiet(c)
    BY <1>0, <1>4, Zenon DEF TakeTimeout, Quiet, Only, Conn
  <2> QED
    BY <1>4, <2>1, QuietMove, RouteKept, Zenon DEF TakeTimeout, routeVars
<1> QED
  BY <1>1, <1>2, <1>3, <1>4, Zenon

LEMMA PacketRouting ==
    ASSUME TypeInv, RoutingInv, NEW c \in Conns, PacketStep(c)
    PROVE  RoutingInv'
<1>0. conn \in [Conns -> Conn] /\ conn[c] \in Conn
  BY ConnFacts, Zenon
<1>1. CASE \/ PublishInvalid(c) \/ PubAckInvalid(c) \/ UnrecognizedPacket(c)
           \/ NotifiesTopics(c) \/ OnlyReplies(c) \/ Reply(c)
  <2>1. PICK label \in {"reply", "notify", "select", "disconnect"} :
            Goto(c, label) /\ othersUnchanged
    BY <1>1, Zenon DEF PublishInvalid, PubAckInvalid, UnrecognizedPacket, NotifiesTopics,
       OnlyReplies, Reply
  <2>2. Quiet(c)
    BY <2>1, GotoQuiet, Zenon
  <2> QED
    BY <2>1, <2>2, QuietMove, RouteKept, Zenon DEF routeVars
<1>2. CASE NotifyTopic(c)
  <2> DEFINE p == conn[c].pkt
             t == p.topics[conn[c].k + 1]
             e == TopicEvent(TopicEventType(p.kind), conn[c].id, t, p.qos, npub + 1)
  <2>0. p \in Packet /\ conn[c].k \in Nat /\ conn[c].id \in Ids /\ npub \in Nat
    BY <1>0, <1>2, ConnFacts, Zenon DEF NotifyTopic, ConnShape, Handling, Conn, TypeInv, TypeOK,
       EventTypeOK
  <2>t. t \in Topics
    <3>1. p.topics \in Seq(Topics)
      BY <2>0, Zenon DEF Packet
    <3>2. conn[c].k < Len(p.topics)
      BY <1>2, ConnFacts, Zenon DEF NotifyTopic, ConnShape
    <3> DEFINE k == conn[c].k
               s == p.topics
    <3>3. k \in Nat /\ k < Len(s) /\ s \in Seq(Topics) /\ t = s[k + 1]
      BY <2>0, <3>1, <3>2, Zenon
    <3> HIDE DEF k, s, t
    <3> QED
      BY <3>3
  <2>n. npub + 1 \in Nat
    BY <2>0
  <2>y. TopicEventType(p.kind) \in {"subscribe", "unsubscribe", "publish"}
    BY Zenon DEF TopicEventType
  <2>q. p.qos \in Qos
    BY <2>0, Zenon DEF Packet
  <2>e. e \in Event /\ Says(e.type, e) \in Said /\ e.topic \in Topics
    BY <2>0, <2>t, <2>n, <2>y, <2>q, Zenon DEF TopicEvent, Event, Says, Said
  <2>l. PICK label \in {"reply", "notify"} :
            conn' = [conn EXCEPT ![c].pc = label, ![c].k = @ + 1,
                                 ![c].said = Append(@, Says(e.type, e))]
    BY <1>0, <1>2, ZenonT(30) DEF NotifyTopic
  <2>r. ReceiveEvent(e) /\ UNCHANGED <<queueVars, smVars>>
    BY <1>2, Zenon DEF NotifyTopic
  <2> HIDE DEF e
  <2>1. /\ Only(c) /\ conn'[c].pc = label /\ conn'[c].id = conn[c].id
        /\ conn'[c].said = Append(conn[c].said, Says(e.type, e))
        /\ conn'[c].sent = conn[c].sent
    BY <1>0, <2>l, Zenon DEF Only, Conn
  <2>2. conn'[c].pc # "pop"
    BY <2>1, Zenon
  <2> QED
    BY <2>e, <2>r, <2>1, <2>2, NotifyMove, Zenon
<1>3. CASE PubAck(c)
  <2> DEFINE q == conn[c].queue
  <2>0. obj \in [Conns -> Queue] /\ q \in Conns /\ RetainListRemove(q, conn[c].pkt.pid)
    BY <1>3, ConnFacts, ConnFields, Zenon DEF PubAck, TypeInv, TypeOK, QueueTypeOK
  <2>1. Quiet(c)
    BY <1>3, GotoQuiet, Zenon DEF PubAck
  <2> HIDE DEF q
  <2>2. /\ UNCHANGED mongo
        /\ \A o \in Conns : obj'[o].id = obj[o].id /\ obj'[o].syncq = obj[o].syncq
        /\ \A o \in Conns : obj'[o].retainList \in {obj[o].retainList, DropHead(obj[o].retainList)}
    BY <2>0, Zenon DEF RetainListRemove, Queue
  <2>3. \A o \in Conns : TopicsOf(obj'[o].retainList) \subseteq TopicsOf(obj[o].retainList)
    <3>1. \A o \in Conns : obj[o].retainList \in Seq(Message)
      BY <2>0, Zenon DEF Queue
    <3>2. \A s \in Seq(Message) : TopicsOf(DropHead(s)) \subseteq TopicsOf(s)
      BY DroppedTopics, Zenon
    <3> QED
      BY <2>2, <3>1, <3>2, Zenon
  <2>4. Keeps /\ UNCHANGED <<es, sm, subs>>
    BY <1>3, <2>1, QuietKeeps, RouteKept, Zenon DEF PubAck
  <2>5. QueuesAsked'
    <3>1. \A o \in Conns : obj[o].id \in Ids
      BY <2>0, Zenon DEF Queue
    <3> QED
      BY <2>2, <2>3, <2>4, <3>1, Zenon DEF RoutingInv, QueuesAsked, Keeps
  <2>6. SentAsked(c)'
    BY <2>1, <2>4, RoutingFrames, Zenon DEF Quiet
  <2>7. \A d \in Conns : SentAsked(d)'
    BY <2>1, <2>4, <2>6, QuietSent, Zenon DEF Quiet
  <2> QED
    BY <2>4, <2>5, <2>7, RoutingFrames, Zenon DEF RoutingInv
<1>4. CASE PubAckPanics(c)
  BY <1>4, RoutingStutters, RouteKept, Zenon DEF PubAckPanics, routeVars
<1> QED
  BY <1>1, <1>2, <1>3, <1>4, Zenon DEF PacketStep

LEMMA DisconnectRouting ==
    ASSUME TypeInv, RoutingInv, NEW c \in Conns, DisconnectStep(c)
    PROVE  RoutingInv'
<1>0. conn \in [Conns -> Conn] /\ conn[c] \in Conn /\ ConnShape(c) /\ npub \in Nat
  BY ConnFacts, Zenon DEF TypeInv, TypeOK, EventTypeOK
<1>f. conn[c].id \in Ids /\ conn[c].will \in Topics \cup {None} /\ conn[c].ret \in Returns
  BY <1>0, ConnFields, Zenon
<1>1. CASE DisconnectInvalid(c)
  BY <1>1, GotoQuiet, QuietMove, RouteKept, Zenon DEF DisconnectInvalid, routeVars
<1>2. CASE HandleDisconnect(c)
  <2>1. Quiet(c)
    BY <1>0, <1>2, Zenon DEF HandleDisconnect, Quiet, Only, Conn
  <2> QED
    BY <1>2, <2>1, QuietMove, RouteKept, Zenon DEF HandleDisconnect, routeVars
<1>3. CASE Disconnect(c)
  <2>l. PICK label \in {"exit", "notifyWill", "notifyDestroy"} :
            conn' = [conn EXCEPT ![c].ret = "exit", ![c].pc = label]
    BY <1>3, Zenon DEF Disconnect
  <2>1. Quiet(c)
    BY <1>0, <2>l, Zenon DEF Quiet, Only, Conn
  <2> QED
    BY <1>3, <2>1, QuietMove, RouteKept, Zenon DEF Disconnect, routeVars
<1>4. CASE NotifyWill(c)
  <2> DEFINE e == TopicEvent("publish", conn[c].id, conn[c].will, 0, npub + 1)
  <2>n. npub + 1 \in Nat /\ 0 \in Qos
    BY <1>0 DEF Qos
  <2>e. e \in Event /\ Says("will", e) \in Said /\ e.type = "publish"
    BY <1>f, <2>n, Zenon DEF TopicEvent, Event, Says, Said
  <2>l. /\ conn' = [conn EXCEPT ![c].pc = "notifyDestroy", ![c].said = Append(@, Says("will", e))]
        /\ ReceiveEvent(e) /\ UNCHANGED <<queueVars, smVars>>
    BY <1>4, Zenon DEF NotifyWill, Notify
  <2> HIDE DEF e
  <2>1. /\ Only(c) /\ conn'[c].pc = "notifyDestroy" /\ conn'[c].id = conn[c].id
        /\ conn'[c].said = Append(conn[c].said, Says("will", e))
        /\ conn'[c].sent = conn[c].sent
    BY <1>0, <2>l, Zenon DEF Only, Conn
  <2> QED
    BY <2>e, <2>l, <2>1, NotifyMove, Zenon
<1>5. CASE NotifyDestroy(c)
  <2> DEFINE e == SessionEvent("destroy", conn[c].id)
  <2>n. 0 \in Nat /\ 0 \in Qos
    BY DEF Qos
  <2>e. e \in Event /\ Says("destroy", e) \in Said /\ e.type = "destroy"
    BY <1>f, <2>n, Zenon DEF SessionEvent, Event, Says, Said
  <2>l. /\ conn' = [conn EXCEPT ![c].pc = "teardown", ![c].said = Append(@, Says("destroy", e))]
        /\ ReceiveEvent(e) /\ UNCHANGED <<queueVars, smVars>>
    BY <1>5, Zenon DEF NotifyDestroy, Notify
  <2> HIDE DEF e
  <2>1. /\ Only(c) /\ conn'[c].pc = "teardown" /\ conn'[c].id = conn[c].id
        /\ conn'[c].said = Append(conn[c].said, Says("destroy", e))
        /\ conn'[c].sent = conn[c].sent
    BY <1>0, <2>l, Zenon DEF Only, Conn
  <2> QED
    BY <2>e, <2>l, <2>1, NotifyMove, Zenon
<1>6. CASE Teardown(c)
  <2>1. conn'[c].pc = conn[c].ret
    BY <1>0, <1>6, Zenon DEF Teardown, Conn
  <2>2. conn'[c].pc # "pop"
    BY <1>f, <2>1, Zenon DEF Returns
  <2>3. Quiet(c)
    BY <1>0, <1>6, <2>2, Zenon DEF Teardown, Quiet, Only, Conn
  <2> QED
    BY <1>6, <2>3, QuietMove, RouteKept, Zenon DEF Teardown, routeVars
<1> QED
  BY <1>1, <1>2, <1>3, <1>4, <1>5, <1>6, Zenon DEF DisconnectStep

\* What a session reads is in the queue of its client.
LEMMA OwnContents ==
    ASSUME TypeInv, Safe, RoutingInv, NEW c \in Conns, conn[c].queue # None
    PROVE  /\ conn[c].queue \in Conns
           /\ obj[conn[c].queue] \in Queue
           /\ obj[conn[c].queue].id = conn[c].id
           /\ Contents(conn[c].queue) \in Seq(Message)
           /\ TopicsOf(Contents(conn[c].queue)) \subseteq Asked[conn[c].id]
           /\ TopicsOf(obj[conn[c].queue].retainList) \subseteq Asked[conn[c].id]
<1>1. conn[c].queue \in Conns /\ conn[c].id \in Ids
  BY SafeFacts, Zenon
<1>2. obj[conn[c].queue].id = conn[c].id
  BY Zenon DEF Safe, OwnershipInv, QueueOwnership
<1>3. obj[conn[c].queue] \in Queue /\ mongo[conn[c].id] \in Seq(Message)
  BY <1>1, Zenon DEF TypeInv, TypeOK, QueueTypeOK
<1>4. obj[conn[c].queue].syncq \in Seq(Message)
  BY <1>3, Zenon DEF Queue
<1> QED
  BY <1>1, <1>2, <1>3, <1>4, Zenon DEF Contents, RoutingInv, QueuesAsked

\* A step of connection c that announces nothing; what it sends was asked for.
LEMMA SendingMove ==
    ASSUME TypeInv, RoutingInv, NEW c \in Conns, Only(c), conn'[c].said = conn[c].said,
           Keeps => SentAsked(c)', QueuesAsked', UNCHANGED <<subs, sm, es>>
    PROVE  RoutingInv'
<1>1. Keeps
  <2>1. \A d \in Conns : conn'[d].said = conn[d].said
    BY Zenon DEF Only
  <2> QED
    BY <2>1, AskedSame, Zenon DEF Keeps
<1>2. \A d \in Conns : SentAsked(d)'
  BY <1>1, QuietSent, Zenon
<1> QED
  BY <1>1, <1>2, RoutingFrames, Zenon DEF RoutingInv

LEMMA UnqueuedMove ==
    ASSUME TypeInv, RoutingInv, NEW c \in Conns, Only(c), conn'[c].said = conn[c].said,
           Keeps => SentAsked(c)', UNCHANGED routeVars
    PROVE  RoutingInv'
<1>1. Keeps
  <2>1. \A d \in Conns : conn'[d].said = conn[d].said
    BY Zenon DEF Only
  <2> QED
    BY <2>1, AskedSame, Zenon DEF Keeps
<1>2. QueuesAsked'
  BY <1>1, RoutingFrames, Zenon DEF routeVars
<1> QED
  BY <1>2, SendingMove, Zenon DEF routeVars

LEMMA DrainRouting ==
    ASSUME TypeInv, Safe, RoutingInv, NEW c \in Conns, DrainStep(c)
    PROVE  RoutingInv'
<1> DEFINE q == conn[c].queue
<1>0. /\ conn \in [Conns -> Conn] /\ conn[c] \in Conn /\ obj \in [Conns -> Queue]
      /\ conn[c].sent \in Seq(Message) /\ conn[c].id \in Ids
      /\ mongo \in [Ids -> Seq(Message)]
  BY ConnFacts, ConnFields, Zenon DEF TypeInv, TypeOK, QueueTypeOK
<1>p. /\ conn[c].pc \in {"flush", "drain", "pop"}
      /\ conn[c].pc = "pop" => conn[c].cur \in Message
  BY <1>0, ConnFacts, ConnFields, Zenon DEF DrainStep, Flush, DrainSend, DrainPop, DrainDone, ConnShape
<1>q. /\ q \in Conns /\ obj[q] \in Queue /\ obj[q].id = conn[c].id
      /\ Contents(q) \in Seq(Message)
      /\ TopicsOf(Contents(q)) \subseteq Asked[conn[c].id]
      /\ TopicsOf(obj[q].retainList) \subseteq Asked[conn[c].id]
  BY <1>p, ConnFacts, OwnContents, Zenon DEF ConnShape
<1>a. /\ TopicsOf(conn[c].sent) \subseteq Asked[conn[c].id]
      /\ conn[c].pc = "pop" => conn[c].cur.topic \in Asked[conn[c].id]
  BY Zenon DEF RoutingInv, SentAsked
<1> HIDE DEF q
<1>1. CASE Flush(c)
  <2>l. PICK s \in {conn[c].sent, conn[c].sent \o obj[q].retainList} :
            conn' = [conn EXCEPT ![c].pc = "drain", ![c].sent = s]
    BY <1>1, Zenon DEF Flush, q
  <2>1. /\ Only(c) /\ conn'[c].said = conn[c].said /\ conn'[c].id = conn[c].id
        /\ conn'[c].sent = s /\ conn'[c].pc = "drain"
    BY <1>0, <2>l, Zenon DEF Only, Conn
  <2>2. TopicsOf(s) \subseteq Asked[conn[c].id]
    <3>1. obj[q].retainList \in Seq(Message)
      BY <1>q, Zenon DEF Queue
    <3>2. TopicsOf(conn[c].sent \o obj[q].retainList)
              \subseteq TopicsOf(conn[c].sent) \cup TopicsOf(obj[q].retainList)
      BY <1>0, <3>1, JoinedTopics, Zenon
    <3> QED
      BY <1>q, <1>a, <3>2, Zenon
  <2>3. Keeps => SentAsked(c)'
    BY <1>0, <2>1, <2>2, Zenon DEF SentAsked, Keeps
  <2> QED
    BY <1>1, <2>1, <2>3, UnqueuedMove, RouteKept, Zenon DEF Flush, routeVars
<1>2. CASE DrainSend(c)
  <2> DEFINE h == Head(Contents(q))
  <2>0. /\ Contents(q) # <<>> /\ othersUnchanged
        /\ conn' = [conn EXCEPT ![c].pc = "pop", ![c].cur = h, ![c].sent = Append(@, h)]
    BY <1>2, Zenon DEF DrainSend, q
  <2>h. h \in Message /\ h.topic \in Asked[conn[c].id]
    <3>1. h \in Message
      BY <1>q, <2>0
    <3>2. h.topic \in TopicsOf(Contents(q))
      BY <1>q, <2>0, HeadTopic, Zenon
    <3> QED
      BY <1>q, <3>1, <3>2, Zenon
  <2> HIDE DEF h
  <2>1. /\ Only(c) /\ conn'[c].said = conn[c].said /\ conn'[c].id = conn[c].id
        /\ conn'[c].sent = Append(conn[c].sent, h) /\ conn'[c].pc = "pop" /\ conn'[c].cur = h
    BY <1>0, <2>0, Zenon DEF Only, Conn
  <2>2. TopicsOf(conn'[c].sent) \subseteq TopicsOf(conn[c].sent) \cup {h.topic}
    BY <1>0, <2>1, <2>h, AppendedTopic, Zenon
  <2>3. Keeps => SentAsked(c)'
    BY <1>0, <1>a, <2>1, <2>2, <2>h, Zenon DEF SentAsked, Keeps
  <2> QED
    BY <2>0, <2>1, <2>3, UnqueuedMove, RouteKept, Zenon DEF routeVars
<1>3. CASE DrainPop(c)
  <2> DEFINE m == conn[c].cur
             k == [m EXCEPT !.dup = TRUE]
  <2>0. /\ conn[c].pc = "pop" /\ conn' = [conn EXCEPT ![c].pc = "drain", ![c].cur = None]
        /\ PopAndRetain(q, m) /\ UNCHANGED <<subs, sm, es>>
    BY <1>3, RouteKept, Zenon DEF DrainPop, q
  <2>1. Quiet(c)
    BY <1>0, <2>0, Zenon DEF Quiet, Only, Conn
  <2>k. k \in Message /\ k.topic \in Asked[conn[c].id]
    BY <1>p, <1>a, <2>0 DEF Message
  <2> HIDE DEF k
  <2>2. /\ \A o \in Conns : obj'[o].id = obj[o].id
        /\ \A o \in Conns \ {q} : obj'[o] = obj[o]
        /\ obj'[q].syncq \in {obj[q].syncq, DropHead(obj[q].syncq)}
        /\ obj'[q].retainList \in {obj[q].retainList, Append(obj[q].retainList, k)}
    BY <1>0, <1>q, <2>0, Zenon DEF PopAndRetain, Queue, k
  <2>3. \A id \in Ids : mongo'[id] \in {mongo[id], DropHead(mongo[id])}
    BY <1>0, <1>q, <2>0, Zenon DEF PopAndRetain
  <2>4. /\ TopicsOf(obj'[q].syncq) \subseteq TopicsOf(obj[q].syncq)
        /\ TopicsOf(obj'[q].retainList) \subseteq TopicsOf(obj[q].retainList) \cup {k.topic}
    <3>1. obj[q].syncq \in Seq(Message) /\ obj[q].retainList \in Seq(Message)
      BY <1>q, Zenon DEF Queue
    <3> QED
      BY <2>2, <2>k, <3>1, DroppedTopics, AppendedTopic, Zenon
  <2>5. \A id \in Ids : TopicsOf(mongo'[id]) \subseteq TopicsOf(mongo[id])
    BY <1>0, <2>3, DroppedTopics, Zenon
  <2>6. Keeps
    BY <2>1, QuietKeeps, Zenon
  <2>7. QueuesAsked'
    <3>1. \A o \in Conns : obj[o].id \in Ids
      BY <1>0, Zenon DEF Queue
    <3>2. ASSUME NEW o \in Conns
          PROVE  /\ TopicsOf(obj'[o].syncq) \subseteq Asked'[obj'[o].id]
                 /\ TopicsOf(obj'[o].retainList) \subseteq Asked'[obj'[o].id]
      <4>1. CASE o = q
        <5>1. obj[q].id = conn[c].id /\ obj'[q].id = conn[c].id /\ conn[c].id \in Ids
          BY <1>q, <2>2, <3>1, Zenon
        <5>2. Asked[conn[c].id] \subseteq Asked'[conn[c].id]
          BY <2>6, <5>1, Zenon DEF Keeps
        <5>3. /\ TopicsOf(obj[q].syncq) \subseteq Asked[conn[c].id]
              /\ TopicsOf(obj[q].retainList) \subseteq Asked[conn[c].id]
          BY <1>q, <5>1, Zenon DEF RoutingInv, QueuesAsked
        <5> QED
          BY <2>4, <2>k, <4>1, <5>1, <5>2, <5>3, Zenon
      <4>2. CASE o # q
        BY <2>2, <2>6, <3>1, <4>2, Zenon DEF RoutingInv, QueuesAsked, Keeps
      <4> QED
        BY <4>1, <4>2, Zenon
    <3>3. \A id \in Ids : TopicsOf(mongo'[id]) \subseteq Asked'[id]
      BY <2>5, <2>6, Zenon DEF RoutingInv, QueuesAsked, Keeps
    <3> QED
      BY <3>2, <3>3, Zenon DEF QueuesAsked
  <2>8. SentAsked(c)'
    BY <2>1, <2>6, RoutingFrames, Zenon DEF Quiet
  <2> QED
    BY <2>0, <2>1, <2>7, <2>8, SendingMove, Zenon DEF Quiet
<1>4. CASE DrainDone(c)
  BY <1>4, GotoQuiet, QuietMove, RouteKept, Zenon DEF DrainDone, routeVars
<1> QED
  BY <1>1, <1>2, <1>3, <1>4, Zenon DEF DrainStep

LEMMA ConnectRouting ==
    ASSUME TypeInv, Safe, RoutingInv, NEW c \in Conns, ConnectStep(c)
    PROVE  RoutingInv'
<1>0. /\ conn \in [Conns -> Conn] /\ conn[c] \in Conn /\ LifeCycle(c) /\ ConnShape(c)
      /\ conn[c].id \in Ids /\ obj \in [Conns -> Queue]
  BY ConnFacts, SafeFacts, Zenon DEF TypeInv, TypeOK, QueueTypeOK
<1>n. 0 \in Nat /\ 0 \in Qos
  BY DEF Qos
<1>1. CASE ConnectInvalid(c) \/ ConnectQueueFails(c)
  BY <1>1, GotoQuiet, QuietMove, RouteKept, Zenon DEF ConnectInvalid, ConnectQueueFails, routeVars
<1>2. CASE ConnectRefused(c)
  <2>1. Quiet(c)
    BY <1>0, <1>2, Zenon DEF ConnectRefused, Quiet, Only, Conn
  <2> QED
    BY <1>2, <2>1, QuietMove, RouteKept, Zenon DEF ConnectRefused, routeVars
<1>3. CASE ConnectAccepted(c)
  <2>l. PICK label \in {"newqueue", "resume", "remove"} :
            conn' = [conn EXCEPT ![c].id = conn[c].pkt.client, ![c].pc = label]
    BY <1>3, Zenon DEF ConnectAccepted
  <2>0. conn[c].pc = "handle" /\ conn[c].state = "New" /\ othersUnchanged
    BY <1>3, Zenon DEF ConnectAccepted, Handles
  <2>1. /\ Only(c) /\ conn'[c].pc = label /\ conn'[c].said = conn[c].said
        /\ conn'[c].sent = conn[c].sent
    BY <1>0, <2>l, Zenon DEF Only, Conn
  <2>2. conn[c].sent = <<>>
    BY <1>0, <2>0, Zenon DEF LifeCycle, Early
  <2>3. SentAsked(c)'
    BY <2>1, <2>2, NoTopics, Zenon DEF SentAsked
  <2> QED
    BY <2>0, <2>1, <2>3, UnqueuedMove, RouteKept, Zenon
<1>4. CASE ConnectNotifiesResume(c)
  <2> DEFINE e == SessionEvent("resume", conn[c].id)
  <2>e. e \in Event /\ Says("resume", e) \in Said /\ e.type = "resume"
    BY <1>0, <1>n, Zenon DEF SessionEvent, Event, Says, Said
  <2>l. /\ conn' = [conn EXCEPT ![c].pc = "remove", ![c].said = Append(@, Says("resume", e))]
        /\ ReceiveEvent(e) /\ UNCHANGED <<queueVars, smVars>>
    BY <1>4, Zenon DEF ConnectNotifiesResume, Notify
  <2> HIDE DEF e
  <2>1. /\ Only(c) /\ conn'[c].pc = "remove" /\ conn'[c].id = conn[c].id
        /\ conn'[c].said = Append(conn[c].said, Says("resume", e))
        /\ conn'[c].sent = conn[c].sent
    BY <1>0, <2>l, Zenon DEF Only, Conn
  <2> QED
    BY <2>e, <2>l, <2>1, NotifyMove, Zenon
<1>5. CASE ConnectRemovesOld(c)
  BY <1>5, GotoQuiet, QuietMove, RouteKept, Zenon DEF ConnectRemovesOld
<1>6. CASE ConnectSharesQueue(c)
  <2>1. Quiet(c)
    BY <1>0, <1>6, Zenon DEF ConnectSharesQueue, Quiet, Only, Conn
  <2> QED
    BY <1>6, <2>1, QuietMove, RouteKept, Zenon DEF ConnectSharesQueue
<1>7. CASE ConnectQueueRefused(c) \/ ConnectReplacesQueue(c) \/ ConnectFindsNoQueue(c)
  <2>l. PICK label \in {"disconnect", "freequeue", "allocate"} :
            conn' = [conn EXCEPT ![c].pc = label, ![c].will = conn[c].pkt.will]
    BY <1>7, Zenon DEF ConnectQueueRefused, ConnectReplacesQueue, ConnectFindsNoQueue
  <2>1. Quiet(c)
    BY <1>0, <2>l, Zenon DEF Quiet, Only, Conn
  <2>2. UNCHANGED <<obj, mongo, subs, sm, es>>
    BY <1>7, RouteKept, Zenon DEF ConnectQueueRefused, ConnectReplacesQueue, ConnectFindsNoQueue
  <2> QED
    BY <2>1, <2>2, QuietMove, Zenon
<1>8. CASE ConnectDestroysQueue(c)
  BY <1>8, GotoQuiet, QuietMove, RouteKept, Zenon DEF ConnectDestroysQueue, DestroyQueue
<1>9. CASE ConnectAllocatesQueue(c)
  <2> DEFINE f == FreshQueue(conn[c].id, ~ conn[c].pkt.clean)
  <2>1. Quiet(c)
    BY <1>0, <1>9, Zenon DEF ConnectAllocatesQueue, Quiet, Only, Conn
  <2>2. /\ f.syncq = <<>> /\ f.retainList = <<>>
        /\ obj' = [obj EXCEPT ![c] = f] /\ UNCHANGED <<mongo, subs, sm, es>>
    BY <1>9, RouteKept, Zenon DEF ConnectAllocatesQueue, NewQueueAllocates, FreshQueue
  <2> HIDE DEF f
  <2>3. obj'[c] = f /\ \A o \in Conns \ {c} : obj'[o] = obj[o]
    BY <1>0, <2>2, Zenon
  <2>4. Keeps
    BY <2>1, QuietKeeps, Zenon
  <2>5. QueuesAsked'
    <3>1. \A o \in Conns : obj[o].id \in Ids
      BY <1>0, Zenon DEF Queue
    <3>2. ASSUME NEW o \in Conns
          PROVE  /\ TopicsOf(obj'[o].syncq) \subseteq Asked'[obj'[o].id]
                 /\ TopicsOf(obj'[o].retainList) \subseteq Asked'[obj'[o].id]
      <4>1. CASE o = c
        BY <2>2, <2>3, <4>1, NoTopics, Zenon
      <4>2. CASE o # c
        BY <2>3, <2>4, <3>1, <4>2, Zenon DEF RoutingInv, QueuesAsked, Keeps
      <4> QED
        BY <4>1, <4>2, Zenon
    <3> QED
      BY <2>2, <2>4, <3>2, Zenon DEF RoutingInv, QueuesAsked, Keeps
  <2>6. SentAsked(c)'
    BY <2>1, <2>4, RoutingFrames, Zenon DEF Quiet
  <2> QED
    BY <2>1, <2>2, <2>5, <2>6, SendingMove, Zenon DEF Quiet
<1>10. CASE ConnectObserves(c)
  <2>0. RegisterObserver(conn[c].queue, c) /\ conn[c].queue \in Conns
    BY <1>0, <1>10, SafeFacts, Zenon DEF ConnectObserves, ConnShape
  <2>1. Quiet(c)
    BY <1>10, GotoQuiet, Zenon DEF ConnectObserves
  <2>2. \A o \in Conns : /\ obj'[o].id = obj[o].id
                         /\ obj'[o].syncq = obj[o].syncq
                         /\ obj'[o].retainList = obj[o].retainList
    BY <1>0, <2>0, Zenon DEF RegisterObserver, Queue
  <2>u. UNCHANGED <<mongo, subs, sm, es>>
    BY <1>10, RouteKept, Zenon DEF ConnectObserves, RegisterObserver
  <2>3. Keeps /\ \A o \in Conns : obj[o].id \in Ids
    BY <1>0, <2>1, QuietKeeps, Zenon DEF Queue
  <2>4. QueuesAsked'
    BY <2>2, <2>u, <2>3, Zenon DEF RoutingInv, QueuesAsked, Keeps
  <2>5. SentAsked(c)'
    BY <2>1, <2>3, RoutingFrames, Zenon DEF Quiet
  <2> QED
    BY <2>1, <2>u, <2>4, <2>5, SendingMove, Zenon DEF Quiet
<1>11. CASE ConnectRegisters(c)
  <2>1. Quiet(c)
    BY <1>0, <1>11, Zenon DEF ConnectRegisters, Quiet, Only, Conn
  <2> QED
    BY <1>11, <2>1, QuietMove, RouteKept, Zenon DEF ConnectRegisters
<1>12. CASE ConnectNotifiesCreate(c)
  <2> DEFINE e == SessionEvent("create", conn[c].id)
             tm == IF conn[c].pkt.alive THEN "armed" ELSE conn[c].timer
  <2>e. e \in Event /\ Says("create", e) \in Said /\ e.type = "create"
    BY <1>0, <1>n, Zenon DEF SessionEvent, Event, Says, Said
  <2>l. /\ conn' = [conn EXCEPT ![c].pc = "flush", ![c].timer = tm,
                                ![c].said = Append(@, Says("create", e))]
        /\ ReceiveEvent(e) /\ UNCHANGED <<queueVars, smVars>>
    BY <1>0, <1>12, Zenon DEF ConnectNotifiesCreate
  <2> HIDE DEF e, tm
  <2>1. /\ Only(c) /\ conn'[c].pc = "flush" /\ conn'[c].id = conn[c].id
        /\ conn'[c].said = Append(conn[c].said, Says("create", e))
        /\ conn'[c].sent = conn[c].sent
    BY <1>0, <2>l, Zenon DEF Only, Conn
  <2> QED
    BY <2>e, <2>l, <2>1, NotifyMove, Zenon
<1> QED
  BY <1>1, <1>2, <1>3, <1>4, <1>5, <1>6, <1>7, <1>8, <1>9, <1>10, <1>11, <1>12, Zenon
     DEF ConnectStep

\* The event goes to the session manager with the topic it has.
LEMMA EventRouting ==
    ASSUME TypeInv, RoutingInv, EventStep
    PROVE  RoutingInv'
<1>0. Keeps /\ UNCHANGED <<conn, obj, mongo, subs>>
  BY AskedSame, RouteKept, Zenon DEF EventStep, HandOver, TakeEvent, sessionVars, Keeps
<1>1. HeldAsked'
  <2>t. /\ es \in [pc: {"idle", "deliver", "publish"}, cur: Event \cup {None}]
        /\ es.pc = "deliver" => es.cur \in Event
        /\ sm.pc = "subscribe" => sm.cur \in Event
    BY Zenon DEF TypeInv, TypeOK, SmTypeOK, EventTypeOK, Shape, ManagerShape, EventShape, Manager
  <2>c. /\ es.pc = "deliver" => es.cur.client \in Ids
        /\ sm.pc = "subscribe" => sm.cur.client \in Ids
    BY <2>t, Zenon DEF Event
  <2>1. CASE HandOver
    <3>1. es.pc = "deliver" /\ es'.pc = "publish" /\ sm'.pc = es.cur.type /\ sm'.cur = es.cur
      BY <2>1, <2>t DEF HandOver, HandedOver, TakeEvent, Idle
    <3> QED
      BY <1>0, <2>c, <3>1, Zenon DEF RoutingInv, HeldAsked, Keeps
  <2>2. CASE PublishToKafka /\ UNCHANGED smVars
    BY <1>0, <2>2, <2>c, RouteKept, Zenon DEF PublishToKafka, RoutingInv, HeldAsked, Keeps
  <2> QED
    BY <2>1, <2>2, Zenon DEF EventStep
<1> QED
  BY <1>0, <1>1, RoutingFrames, Zenon DEF RoutingInv

LEMMA StoreRouting ==
    ASSUME TypeInv, RoutingInv, NEW o \in Conns, NEW m \in Message, Store(o, m),
           m.topic \in Asked[obj[o].id], Keeps
    PROVE  QueuesAsked'
<1>0. /\ obj \in [Conns -> Queue] /\ obj[o] \in Queue /\ \A d \in Conns : obj[d].id \in Ids
      /\ mongo \in [Ids -> Seq(Message)]
      /\ obj[o].syncq \in Seq(Message)
  BY Zenon DEF TypeInv, TypeOK, QueueTypeOK, Queue
<1>1. /\ \A d \in Conns \ {o} : obj'[d] = obj[d]
      /\ obj'[o].id = obj[o].id /\ obj'[o].retainList = obj[o].retainList
      /\ obj'[o].syncq \in {obj[o].syncq, Append(obj[o].syncq, m)}
  BY <1>0, Zenon DEF Store, Queue
<1>2. /\ \A id \in Ids \ {obj[o].id} : mongo'[id] = mongo[id]
      /\ mongo'[obj[o].id] \in {mongo[obj[o].id], Append(mongo[obj[o].id], m)}
  BY <1>0, Zenon DEF Store
<1>3. /\ TopicsOf(obj'[o].syncq) \subseteq TopicsOf(obj[o].syncq) \cup {m.topic}
      /\ TopicsOf(mongo'[obj[o].id]) \subseteq TopicsOf(mongo[obj[o].id]) \cup {m.topic}
  BY <1>0, <1>1, <1>2, AppendedTopic, Zenon
<1>4. ASSUME NEW d \in Conns
      PROVE  /\ TopicsOf(obj'[d].syncq) \subseteq Asked'[obj'[d].id]
             /\ TopicsOf(obj'[d].retainList) \subseteq Asked'[obj'[d].id]
  <2>1. CASE d = o
    BY <1>0, <1>1, <1>3, <2>1, Zenon DEF RoutingInv, QueuesAsked, Keeps
  <2>2. CASE d # o
    BY <1>0, <1>1, <2>2, Zenon DEF RoutingInv, QueuesAsked, Keeps
  <2> QED
    BY <2>1, <2>2, Zenon
<1>5. ASSUME NEW id \in Ids
      PROVE  TopicsOf(mongo'[id]) \subseteq Asked'[id]
  <2>1. CASE id = obj[o].id
    BY <1>0, <1>3, <2>1, Zenon DEF RoutingInv, QueuesAsked, Keeps
  <2>2. CASE id # obj[o].id
    BY <1>2, <2>2, Zenon DEF RoutingInv, QueuesAsked, Keeps
  <2> QED
    BY <2>1, <2>2, Zenon
<1> QED
  BY <1>4, <1>5, Zenon DEF QueuesAsked

LEMMA ManagerRouting ==
    ASSUME TypeInv, Safe, RoutingInv, ManagerStep
    PROVE  RoutingInv'
<1>0. /\ subs \in [Ids -> [Topics -> Subscription]] /\ obj \in [Conns -> Queue]
      /\ ManagerShape /\ sm \in Manager /\ topics \in [Ids -> Seq(Topics)]
  BY Zenon DEF TypeInv, TypeOK, SmTypeOK, QueueTypeOK, Shape
<1>c. sm.pc # "idle" => sm.cur \in Event /\ sm.cur.client \in Ids
  BY <1>0, Zenon DEF ManagerShape, Manager, Event
<1>u. UNCHANGED <<conn, es>>
  BY RouteKept, Zenon DEF ManagerStep, sessionVars
<1>k. Keeps
  BY <1>u, AskedSame, Zenon DEF Keeps
<1>s. \A d \in Conns : SentAsked(d)'
  BY <1>u, <1>k, RoutingFrames, Zenon
<1>i. sm' = Idle => sm'.pc = "idle"
  BY DEF Idle
<1>1. CASE OnTopicSubscribe
  <2>1. UNCHANGED <<obj, mongo>> /\ sm'.pc = "idle" /\ sm.pc = "subscribe"
    BY <1>1, <1>i, RouteKept, Zenon DEF OnTopicSubscribe
  <2>2. \A id \in Ids : \A t \in Topics :
            \/ subs'[id][t].queue = subs[id][t].queue
            \/ id = sm.cur.client /\ t = sm.cur.topic
    BY <1>0, <1>1, <1>c, <2>1, Zenon DEF OnTopicSubscribe
  <2>3. SubsAsked'
    BY <1>k, <2>1, <2>2, Zenon DEF RoutingInv, SubsAsked, HeldAsked, Keeps
  <2> QED
    BY <1>k, <1>s, <1>u, <2>1, <2>3, RoutingFrames, Zenon DEF RoutingInv
<1>2. CASE OnTopicUnsubscribe \/ SweepTopic
  <2>r. PICK id \in Ids : \E t : RemoveSubscription(id, t)
    BY <1>2, <1>c, Zenon DEF OnTopicUnsubscribe, SweepTopic
  <2>0. PICK t : RemoveSubscription(id, t)
    BY <2>r, Zenon
  <2>1. UNCHANGED <<obj, mongo>> /\ sm'.pc # "subscribe"
    <3>1. CASE OnTopicUnsubscribe
      BY <1>i, <3>1, RouteKept, Zenon DEF OnTopicUnsubscribe
    <3>2. CASE SweepTopic
      BY <1>0, <3>2, RouteKept, Zenon DEF SweepTopic, Manager
    <3> QED
      BY <1>2, <3>1, <3>2, Zenon
  <2>2. \A i \in Ids : \A u \in Topics : subs'[i][u].queue \in {subs[i][u].queue, None}
    BY <1>0, <2>0, Zenon DEF RemoveSubscription, NoSubscription
  <2>3. SubsAsked'
    BY <1>k, <2>2, Zenon DEF RoutingInv, SubsAsked, Keeps
  <2> QED
    BY <1>k, <1>s, <1>u, <2>1, <2>3, RoutingFrames, Zenon DEF RoutingInv
<1>3. CASE \E id \in Ids : PushTo(id)
  <2>0. PICK id \in Ids : PushTo(id)
    BY <1>3, Zenon
  <2> DEFINE sub == subs[id][sm.cur.topic]
             m == [mid |-> sm.cur.mid, topic |-> sm.cur.topic, qos |-> sub.qos, dup |-> FALSE]
  <2>1. /\ sm.pc = "push" /\ id \in sm.pending /\ Store(sub.queue, m) /\ UNCHANGED subs
        /\ sm' = [sm EXCEPT !.pc = "wake", !.pending = @ \ {id}, !.queue = sub.queue]
    BY <2>0, Zenon DEF PushTo
  <2>p. sm'.pc = "wake"
    BY <1>0, <2>1 DEF Manager
  <2>2. sm.cur.topic \in Topics /\ sub \in Subscription /\ sub.queue # None
    BY <1>0, <1>c, <2>1, Zenon DEF Manager, ManagerShape, Publishing, Event
  <2>3. sub.queue \in Conns /\ m \in Message /\ m.topic = sm.cur.topic
    BY <1>c, <2>1, <2>2, Zenon DEF Subscription, Message, Event
  <2>4. obj[sub.queue].id = id
    BY <2>2, Zenon DEF Safe, OwnershipInv, QueueOwnership
  <2>5. sm.cur.topic \in Asked[id]
    BY <2>2, Zenon DEF RoutingInv, SubsAsked
  <2> HIDE DEF sub, m
  <2>6. QueuesAsked'
    BY <1>k, <2>1, <2>3, <2>4, <2>5, StoreRouting, Zenon
  <2> QED
    BY <1>k, <1>s, <1>u, <2>1, <2>6, <2>p, RoutingFrames, Zenon DEF RoutingInv
<1>4. CASE ClearObserver
  <2>1. UNCHANGED <<subs, mongo>> /\ sm'.pc = "idle"
    BY <1>4, <1>i, Zenon DEF ClearObserver
  <2>2. \A o \in Conns : /\ obj'[o].id = obj[o].id
                         /\ obj'[o].syncq = obj[o].syncq
                         /\ obj'[o].retainList = obj[o].retainList
    BY <1>0, <1>4, Zenon DEF ClearObserver, Queue
  <2>3. \A o \in Conns : obj[o].id \in Ids
    BY <1>0, Zenon DEF Queue
  <2>4. QueuesAsked'
    BY <1>k, <2>1, <2>2, <2>3, Zenon DEF RoutingInv, QueuesAsked, Keeps
  <2> QED
    BY <1>k, <1>s, <1>u, <2>1, <2>4, RoutingFrames, Zenon DEF RoutingInv
<1>5. CASE \/ OnSessionCreate \/ PublishDone \/ DestroyFreesQueue
  <2>1. UNCHANGED <<obj, mongo, subs>> /\ sm'.pc = "idle"
    BY <1>5, <1>i, RouteKept, Zenon DEF OnSessionCreate, PublishDone, DestroyFreesQueue,
       DestroyQueue
  <2> QED
    BY <1>u, <2>1, RoutingStutters, Zenon
<1>6. CASE \/ OnTopicPublish \/ Wake \/ OnSessionDestroy \/ SweepDone \/ DestroyRemovesSession
  <2>1. UNCHANGED <<obj, mongo, subs>>
    BY <1>6, RouteKept, Zenon DEF OnTopicPublish, Wake, OnSessionDestroy, SweepDone,
       DestroyRemovesSession
  <2>2. sm'.pc # "subscribe"
    BY <1>0, <1>6 DEF OnTopicPublish, Wake, OnSessionDestroy, SweepDone,
       DestroyRemovesSession, Manager
  <2> QED
    BY <1>u, <2>1, <2>2, RoutingStutters, Zenon
<1> QED
  BY <1>1, <1>2, <1>3, <1>4, <1>5, <1>6, Zenon DEF ManagerStep

-----------------------------------------------------------------------------
(* The order of messages *)

Routing == {"publish"} \cup Publishing

\* A step that stores no message, though it may make a new queue.
NothingPushed ==
    \A o \in Conns : \/ obj'[o].pushed = obj[o].pushed /\ obj'[o].id = obj[o].id
                     \/ obj'[o].pushed = <<>>

\* The session manager goes on with the publication it has, or has none.
SamePublication ==
    \/ sm'.pc \notin Routing
    \/ /\ sm.pc = "publish" \/ (sm.pc \in Publishing /\ sm'.pending = sm.pending)
       /\ sm'.pc = "publish" => sm.pc = "publish"
       /\ sm'.cur = sm.cur

LEMMA OrderTypes ==
    ASSUME TypeInv
    PROVE  /\ npub \in Nat /\ Taken \in Int
           /\ es.pc = "deliver" => es.cur \in Event /\ es.cur.mid \in Nat
           /\ sm.pc # "idle" => sm.cur \in Event /\ sm.cur.mid \in Nat
           /\ \A o \in Conns : obj[o].pushed \in Seq(Message)
<1>1. npub \in Nat
  BY Zenon DEF TypeInv, TypeOK, EventTypeOK
<1>2. Taken \in Int
  BY <1>1 DEF Taken
<1>3. /\ es.pc = "deliver" => es.cur \in Event
      /\ sm.pc # "idle" => sm.cur \in Event
  BY Zenon DEF TypeInv, TypeOK, SmTypeOK, EventTypeOK, Shape, ManagerShape, EventShape, Manager
<1>4. \A o \in Conns : obj[o].pushed \in Seq(Message)
  BY Zenon DEF TypeInv, TypeOK, QueueTypeOK, Queue
<1> QED
  BY <1>1, <1>2, <1>3, <1>4, Zenon DEF Event

LEMMA OrderMove ==
    ASSUME TypeInv, OrderInv, NothingPushed, SamePublication, Taken' = Taken,
           Offering' => es'.cur.mid = npub'
    PROVE  OrderInv'
<1>0. Taken \in Int /\ Taken + 1 \in Int /\ \A n \in Int : Rising(<<>>) /\ Below(<<>>, n)
  BY OrderTypes DEF Rising, Below
<1>p. sm.pc \in Routing => sm.cur.mid \in Int
  <2>1. sm.pc \in Routing => sm.pc # "idle"
    BY Zenon DEF Routing, Publishing
  <2> QED
    BY <2>1, OrderTypes
<1>1. sm'.pc \in Routing => sm.pc \in Routing /\ sm'.cur = sm.cur
  BY Zenon DEF SamePublication, Routing
<1>2. sm'.pc \in Routing => sm'.cur.mid <= Taken'
  BY <1>1, Zenon DEF OrderInv, Routing
<1>3. ASSUME NEW o \in Conns
      PROVE  /\ Rising(obj'[o].pushed)
             /\ Below(obj'[o].pushed, Taken' + 1)
             /\ Awaits(o)' => Below(obj'[o].pushed, sm'.cur.mid)
  <2>1. CASE obj'[o].pushed = <<>>
    <3>1. Awaits(o)' => sm'.cur.mid \in Int
      BY <1>1, <1>p, Zenon DEF Awaits, Routing
    <3> QED
      BY <1>0, <2>1, <3>1, Zenon
  <2>2. CASE obj'[o].pushed = obj[o].pushed /\ obj'[o].id = obj[o].id
    <3>1. Awaits(o)' => Awaits(o) /\ sm'.cur = sm.cur
      BY <2>2, Zenon DEF Awaits, SamePublication, Routing
    <3> QED
      BY <2>2, <3>1, Zenon DEF OrderInv
  <2> QED
    BY <2>1, <2>2, Zenon DEF NothingPushed
<1> QED
  BY <1>2, <1>3, Zenon DEF OrderInv, Routing

LEMMA OrderStutters ==
    ASSUME TypeInv, OrderInv, NothingPushed, SamePublication, UNCHANGED <<es, npub>>
    PROVE  OrderInv'
<1>1. Taken' = Taken /\ (Offering' <=> Offering)
  BY Zenon DEF Taken, Offering
<1> QED
  BY <1>1, OrderMove, Zenon DEF OrderInv

LEMMA OrderKept ==
    /\ UNCHANGED obj => NothingPushed
    /\ UNCHANGED sm => SamePublication
    /\ sm'.pc \notin Routing => SamePublication
BY Zenon DEF NothingPushed, SamePublication, Routing

\* A session announces an event: publications are numbered as they are taken.
LEMMA OrderNotify ==
    ASSUME TypeInv, OrderInv, NEW e \in Event, ReceiveEvent(e),
           e.type = "publish" => e.mid = npub + 1, UNCHANGED <<queueVars, smVars>>
    PROVE  OrderInv'
<1>0. es.pc = "idle" /\ npub \in Nat
  BY OrderTypes, Zenon DEF ReceiveEvent
<1>1. es'.cur = e /\ (e.type = "publish" => es'.pc = "deliver")
      /\ npub' = IF e.type = "publish" THEN npub + 1 ELSE npub
  BY DEF ReceiveEvent, Subscribed
<1>2. Taken = npub
  BY <1>0, Zenon DEF Taken, Offering
<1>3. Taken' = npub
  BY <1>0, <1>1 DEF Taken, Offering
<1>4. Offering' => es'.cur.mid = npub'
  BY <1>1, Zenon DEF Offering
<1> QED
  BY <1>2, <1>3, <1>4, OrderKept, OrderMove, RouteKept, Zenon

LEMMA EventOrder ==
    ASSUME TypeInv, OrderInv, EventStep
    PROVE  OrderInv'
<1>0. UNCHANGED <<obj, npub>>
  BY RouteKept, Zenon DEF EventStep, HandOver, HandedOver, PublishToKafka
<1>t. /\ npub \in Nat /\ es \in [pc: {"idle", "deliver", "publish"}, cur: Event \cup {None}]
      /\ es.pc = "deliver" => es.cur \in Event
  BY OrderTypes, Zenon DEF TypeInv, TypeOK, EventTypeOK
<1>1. CASE HandOver
  <2>1. es.pc = "deliver" /\ es'.pc = "publish" /\ sm'.pc = es.cur.type /\ sm'.cur = es.cur
    BY <1>1, <1>t DEF HandOver, HandedOver, TakeEvent, Idle
  <2>2. Taken' = npub /\ ~Offering'
    BY <1>0, <2>1, Zenon DEF Taken, Offering
  <2>3. CASE es.cur.type = "publish"
    <3>1. Taken = npub - 1 /\ es.cur.mid = npub
      BY <2>1, <2>3, Zenon DEF Taken, Offering, OrderInv
    <3>2. sm'.cur.mid <= Taken'
      BY <1>t, <2>1, <2>2, <3>1
    <3>3. ASSUME NEW o \in Conns
          PROVE  /\ Rising(obj[o].pushed)
                 /\ Below(obj[o].pushed, Taken' + 1)
                 /\ Below(obj[o].pushed, sm'.cur.mid)
      <4>1. Rising(obj[o].pushed) /\ Below(obj[o].pushed, Taken + 1)
        BY Zenon DEF OrderInv
      <4>2. Below(obj[o].pushed, npub)
        BY <1>t, <3>1, <4>1
      <4>3. Below(obj[o].pushed, npub + 1)
        <5>1. npub \in Int /\ npub + 1 \in Int /\ npub <= npub + 1
          BY <1>t
        <5> QED
          BY <4>2, <5>1, BelowMore, OrderTypes, Zenon
      <4> QED
        BY <2>1, <2>2, <3>1, <4>1, <4>2, <4>3, Zenon
    <3> QED
      BY <1>0, <2>2, <3>2, <3>3, Zenon DEF OrderInv
  <2>4. CASE es.cur.type # "publish"
    <3>1. Taken' = Taken
      BY <2>2, <2>4, Zenon DEF Taken, Offering
    <3>2. sm'.pc \notin Routing
      BY <1>t, <2>1, <2>4 DEF Routing, Publishing, Event
    <3> QED
      BY <1>0, <2>2, <3>1, <3>2, OrderKept, OrderMove, Zenon
  <2> QED
    BY <2>3, <2>4, Zenon
<1>2. CASE PublishToKafka /\ UNCHANGED smVars
  <2>1. Taken' = Taken /\ ~Offering'
    BY <1>0, <1>2, Zenon DEF PublishToKafka, Taken, Offering
  <2> QED
    BY <1>0, <1>2, <2>1, OrderKept, OrderMove, RouteKept, Zenon
<1> QED
  BY <1>1, <1>2, Zenon DEF EventStep

LEMMA ManagerOrder ==
    ASSUME TypeInv, Safe, OrderInv, ManagerStep
    PROVE  OrderInv'
<1>0. /\ subs \in [Ids -> [Topics -> Subscription]] /\ obj \in [Conns -> Queue]
      /\ ManagerShape /\ sm \in Manager
  BY Zenon DEF TypeInv, TypeOK, SmTypeOK, QueueTypeOK, Shape
<1>u. UNCHANGED <<es, npub>>
  BY RouteKept, Zenon DEF ManagerStep
<1>i. sm' = Idle => sm'.pc \notin Routing
  BY DEF Idle, Routing, Publishing
<1>1. CASE \E id \in Ids : PushTo(id)
  <2>0. PICK id \in Ids : PushTo(id)
    BY <1>1, Zenon
  <2> DEFINE sub == subs[id][sm.cur.topic]
             o == sub.queue
             m == [mid |-> sm.cur.mid, topic |-> sm.cur.topic, qos |-> sub.qos, dup |-> FALSE]
  <2>1. /\ sm.pc = "push" /\ id \in sm.pending /\ Store(o, m)
        /\ sm' = [sm EXCEPT !.pc = "wake", !.pending = @ \ {id}, !.queue = o]
    BY <2>0, Zenon DEF PushTo
  <2>p. sm'.pc = "wake" /\ sm'.pending = sm.pending \ {id} /\ sm'.cur = sm.cur
    BY <1>0, <2>1 DEF Manager
  <2>c. sm.cur \in Event /\ sm.cur.mid \in Nat /\ Taken \in Int
    BY <2>1, OrderTypes, Zenon
  <2>2. sm.cur.topic \in Topics /\ sub \in Subscription /\ o # None
    BY <1>0, <2>c, <2>1, Zenon DEF ManagerShape, Publishing, Event
  <2>3. o \in Conns /\ m \in Message /\ m.mid = sm.cur.mid
    BY <2>c, <2>2, Zenon DEF Subscription, Message
  <2>4. obj[o].id = id
    BY <2>2, Zenon DEF Safe, OwnershipInv, QueueOwnership
  <2> HIDE DEF o, m
  <2>5. /\ obj'[o].pushed = Append(obj[o].pushed, m) /\ obj'[o].id = id
        /\ \A d \in Conns \ {o} : obj'[d] = obj[d]
    BY <1>0, <2>1, <2>3, <2>4, Zenon DEF Store, Queue
  <2>6. /\ Rising(obj[o].pushed) /\ Below(obj[o].pushed, m.mid)
        /\ Below(obj[o].pushed, Taken + 1) /\ sm.cur.mid <= Taken
    BY <2>1, <2>3, <2>4, Zenon DEF OrderInv, Awaits, Publishing
  <2>7. Taken' = Taken /\ (Offering' <=> Offering)
    BY <1>u, Zenon DEF Taken, Offering
  <2>8. m.mid < Taken + 1 /\ Taken + 1 \in Int
    BY <2>c, <2>3, <2>6
  <2>9. ASSUME NEW d \in Conns
        PROVE  /\ Rising(obj'[d].pushed)
               /\ Below(obj'[d].pushed, Taken + 1)
               /\ Awaits(d)' => Below(obj'[d].pushed, sm.cur.mid)
    <3>1. CASE d = o
      <4>1. ~ Awaits(d)'
        <5>1. sm'.pc # "publish"
          BY <2>p
        <5>2. obj'[d].id \notin sm'.pending
          BY <2>p, <2>5, <3>1, Zenon
        <5> QED
          BY <5>1, <5>2, Zenon DEF Awaits
      <4>2. obj[o].pushed \in Seq(Message)
        BY <2>3, OrderTypes, Zenon
      <4> QED
        BY <2>3, <2>5, <2>6, <2>8, <3>1, <4>1, <4>2, PushedRises, PushedBelow, Zenon
    <3>2. CASE d # o
      <4>1. Awaits(d)' => Awaits(d)
        BY <2>1, <2>p, <2>5, <3>2, Zenon DEF Awaits, Publishing
      <4> QED
        BY <2>5, <3>2, <4>1, Zenon DEF OrderInv
    <3> QED
      BY <3>1, <3>2, Zenon
  <2> QED
    BY <1>u, <2>p, <2>6, <2>7, <2>9, Zenon DEF OrderInv
<1>2. CASE OnTopicPublish \/ Wake
  <2>1. UNCHANGED obj /\ SamePublication
    <3>1. CASE OnTopicPublish
      <4>1. sm.pc = "publish" /\ sm'.pc = "push" /\ sm'.cur = sm.cur
        BY <1>0, <3>1 DEF OnTopicPublish, Manager
      <4> QED
        BY <3>1, <4>1, RouteKept, Zenon DEF OnTopicPublish, SamePublication
    <3>2. CASE Wake
      <4>1. /\ sm.pc = "wake" /\ sm'.pc # "publish" /\ sm'.cur = sm.cur
            /\ sm'.pending = sm.pending
        BY <1>0, <3>2 DEF Wake, Manager
      <4> QED
        BY <3>2, <4>1, RouteKept, Zenon DEF Wake, SamePublication, Publishing
    <3> QED
      BY <1>2, <3>1, <3>2, Zenon
  <2> QED
    BY <1>u, <2>1, OrderKept, OrderStutters, Zenon
<1>3. CASE ClearObserver
  <2>1. NothingPushed
    BY <1>0, <1>3, Zenon DEF ClearObserver, NothingPushed, Queue
  <2>2. sm'.pc \notin Routing
    BY <1>3, <1>i, Zenon DEF ClearObserver
  <2> QED
    BY <1>u, <2>1, <2>2, OrderKept, OrderStutters, Zenon
<1>4. CASE \/ OnSessionCreate \/ OnTopicSubscribe \/ OnTopicUnsubscribe \/ PublishDone
           \/ DestroyFreesQueue
  <2>1. UNCHANGED obj /\ sm' = Idle
    BY <1>4, RouteKept, Zenon DEF OnSessionCreate, OnTopicSubscribe, OnTopicUnsubscribe,
       PublishDone, DestroyFreesQueue, DestroyQueue
  <2> QED
    BY <1>u, <1>i, <2>1, OrderKept, OrderStutters, Zenon
<1>5. CASE OnSessionDestroy \/ SweepTopic \/ SweepDone \/ DestroyRemovesSession
  <2>1. UNCHANGED obj
    BY <1>5, RouteKept, Zenon DEF OnSessionDestroy, SweepTopic, SweepDone, DestroyRemovesSession
  <2>2. sm'.pc \in {"clear", "sweep", "remove", "free"}
    BY <1>0, <1>5 DEF OnSessionDestroy, SweepTopic, SweepDone, DestroyRemovesSession, Manager
  <2>3. sm'.pc \notin Routing
    BY <2>2 DEF Routing, Publishing
  <2> QED
    BY <1>u, <2>1, <2>3, OrderKept, OrderStutters, Zenon
<1> QED
  BY <1>1, <1>2, <1>3, <1>4, <1>5, Zenon DEF ManagerStep

\* The steps of a session that announce an event.
LEMMA NotifyOrder ==
    ASSUME TypeInv, OrderInv, NEW c \in Conns,
           \/ ConnectNotifiesResume(c) \/ ConnectNotifiesCreate(c) \/ NotifyTopic(c)
           \/ NotifyWill(c) \/ NotifyDestroy(c)
    PROVE  OrderInv'
<1>0. /\ conn[c] \in Conn /\ ConnShape(c) /\ npub \in Nat /\ conn[c].id \in Ids
      /\ conn[c].will \in Topics \cup {None} /\ conn[c].pkt \in Packet \cup {None}
      /\ conn[c].k \in Nat
  BY ConnFacts, ConnFields, OrderTypes, Zenon
<1>n. 0 \in Nat /\ 0 \in Qos /\ npub + 1 \in Nat
  BY <1>0 DEF Qos
<1>1. CASE ConnectNotifiesResume(c) \/ ConnectNotifiesCreate(c) \/ NotifyDestroy(c)
  <2>1. PICK type \in {"resume", "create", "destroy"} :
            /\ ReceiveEvent(SessionEvent(type, conn[c].id))
            /\ UNCHANGED <<queueVars, smVars>>
    BY <1>1, Zenon DEF ConnectNotifiesResume, ConnectNotifiesCreate, NotifyDestroy, Notify
  <2> DEFINE e == SessionEvent(type, conn[c].id)
  <2>2. e \in Event /\ e.type # "publish"
    BY <1>0, <1>n, Zenon DEF SessionEvent, Event
  <2> HIDE DEF e
  <2> QED
    BY <2>1, <2>2, OrderNotify, Zenon DEF e
<1>2. CASE NotifyWill(c)
  <2> DEFINE e == TopicEvent("publish", conn[c].id, conn[c].will, 0, npub + 1)
  <2>1. ReceiveEvent(e) /\ UNCHANGED <<queueVars, smVars>>
    BY <1>2, Zenon DEF NotifyWill, Notify
  <2>2. e \in Event /\ e.mid = npub + 1
    BY <1>0, <1>n, Zenon DEF TopicEvent, Event
  <2> HIDE DEF e
  <2> QED
    BY <2>1, <2>2, OrderNotify, Zenon
<1>3. CASE NotifyTopic(c)
  <2> DEFINE p == conn[c].pkt
             t == p.topics[conn[c].k + 1]
             e == TopicEvent(TopicEventType(p.kind), conn[c].id, t, p.qos, npub + 1)
  <2>1. ReceiveEvent(e) /\ UNCHANGED <<queueVars, smVars>> /\ conn[c].pc = "notify"
    BY <1>3, Zenon DEF NotifyTopic
  <2>p. p \in Packet
    BY <1>0, <2>1, Zenon DEF ConnShape, Handling
  <2>t. t \in Topics
    <3> DEFINE k == conn[c].k
               s == p.topics
    <3>1. s \in Seq(Topics)
      BY <2>p, Zenon DEF Packet
    <3>2. k \in Nat /\ k < Len(s) /\ t = s[k + 1]
      BY <1>0, <2>1, Zenon DEF ConnShape
    <3> HIDE DEF k, s, t
    <3> QED
      BY <3>1, <3>2
  <2>q. p.qos \in Qos /\ TopicEventType(p.kind) \in {"subscribe", "unsubscribe", "publish"}
    BY <2>p, Zenon DEF Packet, TopicEventType
  <2>2. e \in Event /\ e.mid = npub + 1
    BY <1>0, <1>n, <2>q, <2>t, Zenon DEF TopicEvent, Event
  <2> HIDE DEF e
  <2> QED
    BY <2>1, <2>2, OrderNotify, Zenon
<1> QED
  BY <1>1, <1>2, <1>3, Zenon

\* The steps of a session that work on a queue object store no message.
LEMMA QueueOrder ==
    ASSUME TypeInv, Safe, OrderInv, NEW c \in Conns,
           \/ ConnectAllocatesQueue(c) \/ ConnectObserves(c) \/ DrainPop(c) \/ PubAck(c)
    PROVE  OrderInv'
<1>0. obj \in [Conns -> Queue]
  BY Zenon DEF TypeInv, TypeOK, QueueTypeOK
<1>q. \/ ConnectAllocatesQueue(c)
      \/ conn[c].queue \in Conns
  BY ConnFacts, ConnFields, Zenon DEF ConnShape, ConnectObserves, DrainPop, PubAck
<1>1. NothingPushed
  <2>1. CASE ConnectAllocatesQueue(c)
    <3> DEFINE f == FreshQueue(conn[c].id, ~ conn[c].pkt.clean)
    <3>1. f.pushed = <<>> /\ obj' = [obj EXCEPT ![c] = f]
      BY <2>1, Zenon DEF ConnectAllocatesQueue, NewQueueAllocates, FreshQueue
    <3> HIDE DEF f
    <3> QED
      BY <1>0, <3>1, Zenon DEF NothingPushed
  <2>2. CASE ConnectObserves(c) /\ conn[c].queue \in Conns
    BY <1>0, <2>2, Zenon DEF ConnectObserves, RegisterObserver, NothingPushed, Queue
  <2>3. CASE DrainPop(c) /\ conn[c].queue \in Conns
    BY <1>0, <2>3, Zenon DEF DrainPop, PopAndRetain, NothingPushed, Queue
  <2>4. CASE PubAck(c) /\ conn[c].queue \in Conns
    BY <1>0, <2>4, ZenonT(30) DEF PubAck, RetainListRemove, NothingPushed, Queue
  <2> QED
    BY <1>q, <2>1, <2>2, <2>3, <2>4, Zenon
<1>2. UNCHANGED <<sm, es, npub>>
  BY RouteKept, Zenon DEF ConnectAllocatesQueue, ConnectObserves, DrainPop, PubAck
<1> QED
  BY <1>1, <1>2, OrderKept, OrderStutters, Zenon

LEMMA OtherOrder ==
    ASSUME TypeInv, OrderInv, UNCHANGED <<obj, sm, es, npub>>
    PROVE  OrderInv'
BY OrderKept, OrderStutters, Zenon

LEMMA SessionOrder ==
    ASSUME TypeInv, Safe, OrderInv, NEW c \in Conns,
           \/ MainStep(c) \/ Drop(c) \/ TimerFires(c) \/ ReaderStep(c) \/ AvailablePanics(c)
    PROVE  OrderInv'
<1>1. CASE Drop(c) \/ TimerFires(c) \/ ReaderStep(c) \/ AvailablePanics(c)
  <2>1. othersUnchanged
    BY <1>1, Zenon DEF Drop, TimerFires, ReaderStep, ReadPacket, ReadError, ReaderPanics,
       AvailablePanics
  <2> QED
    BY <2>1, RouteKept, OtherOrder, Zenon DEF routeVars
<1>2. CASE TakePacket(c) \/ TakeReadError(c) \/ TakeTimeout(c)
  BY <1>2, RouteKept, OtherOrder, Zenon DEF TakePacket, TakeReadError, TakeTimeout, routeVars
<1>3. CASE TakeAvailable(c)
  <2>1. /\ sm.pc = "blocked" /\ sm'.pc = "push" /\ sm'.cur = sm.cur
        /\ sm'.pending = sm.pending
    BY <1>3 DEF TakeAvailable, TypeInv, TypeOK, SmTypeOK, Manager
  <2>2. SamePublication
    BY <2>1, Zenon DEF SamePublication, Publishing
  <2> QED
    BY <1>3, <2>2, RouteKept, OrderKept, OrderStutters, Zenon DEF TakeAvailable
<1>4. CASE ConnectStep(c)
  <2>1. CASE ConnectInvalid(c) \/ ConnectRefused(c) \/ ConnectAccepted(c) \/ ConnectQueueFails(c)
    BY <2>1, RouteKept, OtherOrder, Zenon DEF ConnectInvalid, ConnectRefused, ConnectAccepted,
       ConnectQueueFails, routeVars
  <2>2. CASE \/ ConnectRemovesOld(c) \/ ConnectSharesQueue(c) \/ ConnectQueueRefused(c)
             \/ ConnectReplacesQueue(c) \/ ConnectFindsNoQueue(c) \/ ConnectRegisters(c)
             \/ ConnectDestroysQueue(c)
    BY <2>2, RouteKept, OtherOrder, Zenon DEF ConnectRemovesOld, ConnectSharesQueue,
       ConnectQueueRefused, ConnectReplacesQueue, ConnectFindsNoQueue, ConnectRegisters,
       ConnectDestroysQueue, DestroyQueue
  <2> QED
    BY <1>4, <2>1, <2>2, NotifyOrder, QueueOrder, Zenon DEF ConnectStep
<1>5. CASE DrainStep(c)
  <2>1. CASE Flush(c) \/ DrainSend(c) \/ DrainDone(c)
    BY <2>1, RouteKept, OtherOrder, Zenon DEF Flush, DrainSend, DrainDone, routeVars
  <2> QED
    BY <1>5, <2>1, QueueOrder, Zenon DEF DrainStep
<1>6. CASE PacketStep(c)
  <2>1. CASE \/ PublishInvalid(c) \/ PubAckInvalid(c) \/ UnrecognizedPacket(c) \/ PubAckPanics(c)
             \/ NotifiesTopics(c) \/ OnlyReplies(c) \/ Reply(c)
    <3>1. othersUnchanged
      BY <2>1, Zenon DEF PublishInvalid, PubAckInvalid, UnrecognizedPacket, PubAckPanics,
         NotifiesTopics, OnlyReplies, Reply
    <3> QED
      BY <3>1, RouteKept, OtherOrder, Zenon DEF routeVars
  <2> QED
    BY <1>6, <2>1, NotifyOrder, QueueOrder, Zenon DEF PacketStep
<1>7. CASE DisconnectStep(c)
  <2>1. CASE DisconnectInvalid(c) \/ HandleDisconnect(c) \/ Disconnect(c) \/ Teardown(c)
    <3>1. othersUnchanged
      BY <2>1, Zenon DEF DisconnectInvalid, HandleDisconnect, Disconnect, Teardown
    <3> QED
      BY <3>1, RouteKept, OtherOrder, Zenon DEF routeVars
  <2> QED
    BY <1>7, <2>1, NotifyOrder, Zenon DEF DisconnectStep
<1> QED
  BY <1>1, <1>2, <1>3, <1>4, <1>5, <1>6, <1>7, Zenon DEF MainStep

-----------------------------------------------------------------------------
(* All steps *)

LEMMA InitFacts ==
    ASSUME Init
    PROVE  /\ \A c \in Conns : conn[c].sent = <<>> /\ conn[c].pc = "select"
           /\ \A o \in Conns : /\ obj[o].syncq = <<>> /\ obj[o].retainList = <<>>
                               /\ obj[o].pushed = <<>>
           /\ \A id \in Ids : mongo[id] = <<>>
           /\ \A id \in Ids : \A t \in Topics : subs[id][t].queue = None
           /\ es.pc = "idle" /\ sm.pc = "idle"
<1>1. NewMqttSession.sent = <<>> /\ NewMqttSession.pc = "select"
  BY DEF NewMqttSession
<1>2. \A o \in Conns : obj[o] = FreshQueue(None, FALSE)
  BY Zenon DEF Init, QueueInit
<1>3. LET f == FreshQueue(None, FALSE)
      IN  f.syncq = <<>> /\ f.retainList = <<>> /\ f.pushed = <<>>
  BY DEF FreshQueue
<1>4. \A id \in Ids : mongo[id] = <<>>
  BY Zenon DEF Init, QueueInit
<1>5. \A id \in Ids : \A t \in Topics : subs[id][t].queue = None
  BY DEF Init, SmInit, NoSubscription
<1>6. es.pc = "idle" /\ sm.pc = "idle"
  BY DEF Init, SmInit, EventInit, Idle
<1> QED
  BY <1>1, <1>2, <1>3, <1>4, <1>5, <1>6, Zenon DEF Init, SessionInit

LEMMA InitRouting ==
    ASSUME Init
    PROVE  RoutingInv
<1>1. HeldAsked /\ SubsAsked
  BY InitFacts, Zenon DEF HeldAsked, SubsAsked
<1>2. QueuesAsked
  BY InitFacts, NoTopics, Zenon DEF QueuesAsked
<1>3. \A c \in Conns : SentAsked(c)
  BY InitFacts, NoTopics, Zenon DEF SentAsked
<1> QED
  BY <1>1, <1>2, <1>3, Zenon DEF RoutingInv

LEMMA InitOrder ==
    ASSUME Init
    PROVE  OrderInv
<1>1. ~ Offering /\ sm.pc \notin {"publish"} \cup Publishing
  BY InitFacts DEF Offering, Publishing
<1>2. \A o \in Conns : ~ Awaits(o)
  BY <1>1, Zenon DEF Awaits
<1>3. Rising(<<>>) /\ Below(<<>>, Taken + 1)
  BY DEF Rising, Below
<1> QED
  BY <1>1, <1>2, <1>3, InitFacts, Zenon DEF OrderInv

LEMMA NextRouting ==
    ASSUME TypeInv, Safe, RoutingInv, [Next]_vars
    PROVE  RoutingInv'
<1>1. ASSUME NEW c \in Conns, MainStep(c)
      PROVE  RoutingInv'
  BY <1>1, SelectRouting, ConnectRouting, DrainRouting, PacketRouting, DisconnectRouting, Zenon
     DEF MainStep
<1>2. ASSUME NEW c \in Conns, Drop(c) \/ TimerFires(c) \/ ReaderStep(c) \/ AvailablePanics(c)
      PROVE  RoutingInv'
  BY <1>2, ReaderRouting, Zenon
<1>3. CASE ConcurrentMapAccess \/ UNCHANGED vars
  <2>1. UNCHANGED <<conn, obj, mongo, subs, es, sm>>
    BY <1>3, RouteKept, Zenon DEF ConcurrentMapAccess, vars, sessionVars, routeVars
  <2> QED
    BY <2>1, RoutingStutters, Zenon
<1> QED
  BY <1>1, <1>2, <1>3, EventRouting, ManagerRouting, Zenon DEF Next

LEMMA NextOrder ==
    ASSUME TypeInv, Safe, OrderInv, [Next]_vars
    PROVE  OrderInv'
<1>1. CASE ConcurrentMapAccess \/ UNCHANGED vars
  <2>1. UNCHANGED <<obj, sm, es, npub>>
    BY <1>1, RouteKept, Zenon DEF ConcurrentMapAccess, vars, routeVars
  <2> QED
    BY <2>1, OtherOrder, Zenon
<1> QED
  BY <1>1, SessionOrder, EventOrder, ManagerOrder, Zenon DEF Next

-----------------------------------------------------------------------------
(* The theorems.                                                           *)

LEMMA InitSafe ==
    ASSUME Init
    PROVE  Safe
<1>0. /\ \A c \in Conns : conn[c] = NewMqttSession
      /\ \A id \in Ids : queues[id] = None
      /\ \A id \in Ids : \A t \in Topics : subs[id][t].queue = None
  BY DEF Init, SessionInit, QueueInit, SmInit, NoSubscription
<1>1. \A c \in Conns : /\ conn[c].pc = "select" /\ conn[c].state = "New"
                       /\ conn[c].queue = None /\ conn[c].will = None
                       /\ conn[c].sent = <<>> /\ conn[c].said = <<>>
  <2>1. /\ NewMqttSession.pc = "select" /\ NewMqttSession.state = "New"
        /\ NewMqttSession.queue = None /\ NewMqttSession.will = None
        /\ NewMqttSession.sent = <<>> /\ NewMqttSession.said = <<>>
    BY DEF NewMqttSession
  <2> QED
    BY <1>0, <2>1, Zenon
<1>2. LifeInv
  <2>1. ASSUME NEW c \in Conns
        PROVE  LifeCycle(c)
    BY <1>1 DEF LifeCycle, Closed
  <2>2. ASSUME NEW c \in Conns
        PROVE  Announced(c)
    BY <1>1 DEF Announced, StillAlive, Closed
  <2> QED
    BY <2>1, <2>2 DEF LifeInv
<1>3. OwnershipInv
  BY <1>0, <1>1 DEF OwnershipInv, Allocated, QueueOwnership
<1>4. DeliveryInv
  BY <1>1, BaseAssumption, Zenon DEF DeliveryInv, CleanSessionDelivery, OwnQueue
<1> QED
  BY <1>2, <1>3, <1>4 DEF Safe

LEMMA NextSafe ==
    ASSUME TypeInv, Safe, [Next]_vars
    PROVE  Safe'
<1>1. ASSUME NEW c \in Conns, MainStep(c)
      PROVE  Safe'
  BY <1>1, SelectSafe, ConnectSafe, DrainSafe, PacketSafe, DisconnectSafe DEF MainStep
<1>2. ASSUME NEW c \in Conns, Drop(c) \/ TimerFires(c) \/ ReaderStep(c) \/ AvailablePanics(c)
      PROVE  Safe'
  BY <1>2, ReaderSafe
<1>3. CASE ConcurrentMapAccess
  BY <1>3, SafeStutters, TablesKept DEF ConcurrentMapAccess
<1>4. CASE UNCHANGED vars
  BY <1>4, SafeStutters, TablesKept DEF vars, sessionVars
<1> QED
  BY <1>1, <1>2, <1>3, <1>4, EventSafe, ManagerSafe DEF Next

\* What disconnect has announced at each of its steps makes the end of the
\* session its last event, and the will the one before it.
LEMMA AnnouncedEnd ==
    ASSUME TypeInv, Safe
    PROVE  EndAnnouncedOnce
<1>1. ASSUME NEW c \in Conns
      PROVE  LET said == conn[c].said
                 n    == Len(said)
             IN  /\ \A i \in 1..n : said[i].kind = "destroy" => i = n
                 /\ \A i \in 1..n : said[i].kind = "will" =>
                         i = n \/ (i = n - 1 /\ said[n].kind = "destroy")
                 /\ Closed(c) =>
                         /\ n > 0
                         /\ said[n].kind = "destroy"
                         /\ conn[c].will # None <=> (n > 1 /\ said[n - 1].kind = "will")
  <2> DEFINE said == conn[c].said
             n == Len(said)
  <2>0. said \in Seq(Said) /\ n \in Nat /\ LifeCycle(c) /\ Announced(c)
    BY SafeFacts
  <2>1. CASE conn[c].pc = "teardown" \/ Closed(c)
    <3>1. n > 0 /\ said[n].kind = "destroy" /\ WillIsLast(c, n - 1)
      BY <2>0, <2>1 DEF Announced
    <3>2. CASE conn[c].will = None
      <4>1. \A i \in 1..(n - 1) : said[i].kind \notin {"will", "destroy"}
        BY <3>1, <3>2 DEF WillIsLast, StillAlive
      <4> QED
        BY <2>0, <3>1, <3>2, <4>1, SMTT(30)
    <3>3. CASE conn[c].will # None
      <4>1. /\ n - 1 > 0 /\ said[n - 1].kind = "will"
            /\ \A i \in 1..(n - 1 - 1) : said[i].kind \notin {"will", "destroy"}
        BY <3>1, <3>3 DEF WillIsLast, StillAlive
      <4> QED
        BY <2>0, <3>1, <3>3, <4>1, SMTT(30)
    <3> QED
      BY <3>2, <3>3
  <2>2. CASE ~ (conn[c].pc = "teardown" \/ Closed(c)) /\ conn[c].pc = "notifyDestroy"
    BY <2>0, <2>2 DEF Announced, WillIsLast, StillAlive
  <2>3. CASE ~ (conn[c].pc = "teardown" \/ Closed(c)) /\ conn[c].pc # "notifyDestroy"
    BY <2>0, <2>3 DEF Announced, StillAlive
  <2> QED
    BY <2>1, <2>2, <2>3, Zenon
<1> QED
  BY <1>1, Zenon DEF EndAnnouncedOnce

\* The life of every session (mqtt_session.go, handleConnect to disconnect),
\* the ownership of the queue objects (queue.go) and the bookkeeping of the
\* delivery loop (handleDataAvailableNotification) are kept by every step of
\* every goroutine.
THEOREM SafetyHolds == Spec => []SafetyInv
<1>1. Init => TypeInv /\ Safe
  BY InitTypes, InitSafe
<1>2. TypeInv /\ Safe /\ [Next]_vars => TypeInv' /\ Safe'
  BY NextTypes, NextSafe
<1>3. TypeInv /\ Safe => SafetyInv
  BY DEF Safe, SafetyInv
<1> QED
  BY <1>1, <1>2, <1>3, PTL DEF Spec

\* No connection, no subscription and no entry of the queue table ever refers
\* to a queue object of another client, and only persistent objects are shared
\* (newQueue, destroyQueue, onTopicSubscribe).
THEOREM QueuesKeepTheirClient == Spec => []QueueOwnership
<1>1. SafetyInv => QueueOwnership
  BY DEF SafetyInv, OwnershipInv
<1> QED
  BY <1>1, SafetyHolds, PTL

\* Nothing stored in the queue of a clean session is lost, duplicated or
\* overtaken (Pushback against availableQueue's Front, write and Pop).
THEOREM CleanSessionsLoseNothing == Spec => []CleanSessionDelivery
<1>1. SafetyInv => CleanSessionDelivery
  BY DEF SafetyInv, DeliveryInv
<1> QED
  BY <1>1, SafetyHolds, PTL

\* disconnect announces the end of a session once, after its will and after
\* everything else the session ever notified.
THEOREM SessionsEndOnce == Spec => []EndAnnouncedOnce
<1>1. SafetyInv => EndAnnouncedOnce
  BY AnnouncedEnd DEF SafetyInv, Safe
<1> QED
  BY <1>1, SafetyHolds, PTL

\* Messages are only where their topic was subscribed to: in the topic tree, in
\* queue objects, in MongoDB and on the wire; and what any queue object was
\* given is in the order of acceptance (onTopicSubscribe, addMessage,
\* onTopicPublish, Pushback, newQueue, destroyQueue).
THEOREM RoutingHolds == Spec => [](RoutingInv /\ OrderInv)
<1>1. Init => TypeInv /\ Safe /\ RoutingInv /\ OrderInv
  BY InitTypes, InitSafe, InitRouting, InitOrder
<1>2. TypeInv /\ Safe /\ RoutingInv /\ OrderInv /\ [Next]_vars
          => TypeInv' /\ Safe' /\ RoutingInv' /\ OrderInv'
  BY NextTypes, NextSafe, NextRouting, NextOrder
<1> QED
  BY <1>1, <1>2, PTL DEF Spec

\* A client receives only messages on topics that it has subscribed to, however
\* its queue objects are shared, replaced and reloaded (addMessage, newQueue,
\* handleDataAvailableNotification).
THEOREM OnlySubscribedIsSent == Spec => []OnlySubscribedTopics
<1>1. TypeInv /\ RoutingInv => OnlySubscribedTopics
  <2> SUFFICES ASSUME TypeInv, RoutingInv, NEW c \in Conns, NEW i \in 1..Len(conn[c].sent)
               PROVE  \E d \in Conns : \E j \in 1..Len(conn[d].said) :
                          conn[d].said[j] = [kind |-> "subscribe", client |-> conn[c].id,
                                             topic |-> conn[c].sent[i].topic]
    BY Zenon DEF OnlySubscribedTopics
  <2>1. conn[c].id \in Ids
    BY ConnFacts, ConnFields, Zenon
  <2>2. conn[c].sent[i].topic \in Asked[conn[c].id]
    BY Zenon DEF RoutingInv, SentAsked, TopicsOf
  <2> QED
    BY <2>1, <2>2, Zenon DEF Asked
<1>2. SafetyInv => TypeInv
  BY DEF SafetyInv
<1> QED
  BY <1>1, <1>2, RoutingHolds, SafetyHolds, PTL

\* Publications reach a clean session in the order in which the event service
\* accepted them and none twice, although another goroutine stores them than the
\* one that writes them (onTopicPublish, Pushback, handleDataAvailableNotification).
THEOREM CleanSessionsKeepOrder == Spec => []CleanSessionOrder
<1>1. SafetyInv /\ OrderInv => CleanSessionOrder
  <2> SUFFICES ASSUME SafetyInv, OrderInv, NEW c \in Conns,
                      conn[c].queue = c, ~ obj[c].persistent
               PROVE  Rising(conn[c].sent)
    BY Zenon DEF CleanSessionOrder, Rising
  <2> DEFINE rest == IF conn[c].pc = "pop" THEN Tail(obj[c].syncq) ELSE obj[c].syncq
             sent == conn[c].sent
  <2>1. obj[c].pushed = sent \o rest
    BY Zenon DEF SafetyInv, DeliveryInv, CleanSessionDelivery
  <2>2. sent \in Seq(Message) /\ obj[c].syncq \in Seq(Message) /\ DeliveryInv /\ OwnQueue(c)
    BY ConnFacts, ConnFields, Zenon DEF SafetyInv, TypeInv, TypeOK, QueueTypeOK, Queue, OwnQueue
  <2>3. rest \in Seq(Message)
    BY <2>2 DEF DeliveryInv
  <2>4. Rising(sent \o rest)
    BY <2>1, Zenon DEF OrderInv
  <2> HIDE DEF rest, sent
  <2> QED
    BY <2>2, <2>3, <2>4 DEF Rising, sent
<1> QED
  BY <1>1, RoutingHolds, SafetyHolds, PTL
=============================================================================
