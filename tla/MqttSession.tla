---------------------------- MODULE MqttSession ----------------------------
(* broker/mqtt: the goroutines of each connection.  The reader decodes      *)
(* packets and hands them to the main loop over an unbuffered channel; the  *)
(* keepalive timer reports its expiry, and the reader its read error, over  *)
(* errorChan; the session manager reports queued messages over              *)
(* availableChan.  The main loop selects among the three and runs one       *)
(* handler at a time; Notify blocks it until the event goroutine is free.   *)
(* A step of the main loop reaches from one blocking operation, or access   *)
(* to state shared with other goroutines, to the next.                      *)
EXTENDS SessionManager, EventService

CONSTANTS
    Script,     \* bound: Script[c][i] is the set of packets among which the
                \* client of connection c chooses its i-th packet
    Flaky       \* the connections whose network may break

ASSUME SessionAssumption ==
    /\ Script \in [Conns -> Seq(SUBSET Packet)]
    /\ \A c \in Conns : \A i \in 1..Len(Script[c]) : \A p \in Script[c][i] :
            p.kind = "PUBLISH" => Len(p.topics) = 1
    /\ Flaky \subseteq Conns

VARIABLES
    conn,       \* the mqttSession and the goroutines of each connection
    panicked    \* a goroutine has panicked, and the process is gone

sessionVars == <<conn, panicked>>

\* History: what the session has told the event service.
Said == [kind: {"create", "destroy", "resume", "subscribe", "unsubscribe",
                "publish", "will"},
         client: Ids,
         topic: Topics \cup {None}]

\* Where the main loop is: at its select, or in one of the handlers.
Labels == {"select", "handle", "resume", "remove", "newqueue", "freequeue",
           "allocate", "observe", "register", "create", "flush", "drain", "pop",
           "notify", "reply", "disconnect", "notifyWill", "notifyDestroy",
           "teardown", "exit"}

ReaderStates == {"reading", "offer", "fail", "done"}
TimerStates == {"off", "armed", "fired", "done"}
SessionStates == {"New", "Connected", "Disconnecting", "Disconnected"}
Returns == {"exit", "disconnect"}

Conn == [pc:    Labels,
         rd:    ReaderStates,                \* reader goroutine
         rpkt:  Packet \cup {None},          \* packet the reader offers
         nread: Nat,                         \* packets read so far
         timer: TimerStates,                 \* timer goroutine
         up:    BOOLEAN,                     \* the network connection works
         pkt:   Packet \cup {None},          \* packet being handled
         k:     Nat,                         \* its topics already notified
         state: SessionStates,
         id:    Ids,                         \* clientID
         will:  Topics \cup {None},          \* willMsg
         queue: Conns \cup {None},           \* queue object in use
         cur:   Message \cup {None},         \* message written, not yet popped
         ret:   Returns,                     \* where disconnect returns to
         sent:  Seq(Message),                \* PUBLISH packets written
         said:  Seq(Said)]                   \* history

SessionTypeOK ==
    /\ conn \in [Conns -> Conn]
    /\ panicked \in BOOLEAN

NewMqttSession ==
    [pc |-> "select", rd |-> "reading", rpkt |-> None, nread |-> 0,
     timer |-> "off", up |-> TRUE, pkt |-> None, k |-> 0, state |-> "New",
     id |-> None, will |-> None, queue |-> None, cur |-> None, ret |-> "exit",
     sent |-> <<>>, said |-> <<>>]

SessionInit ==
    /\ conn = [c \in Conns |-> NewMqttSession]
    /\ panicked = FALSE

\* disconnect closes the channels of the session together with its connection.
Closed(c) == conn[c].state = "Disconnected"

Goto(c, label) == conn' = [conn EXCEPT ![c].pc = label]

\* Everything but conn and panicked.
othersUnchanged == UNCHANGED <<queueVars, smVars, eventVars>>

Says(kind, e) == [kind |-> kind, client |-> e.client, topic |-> e.topic]

\* A blocking event.Notify that the event goroutine accepts now.
Notify(c, e, kind, label) ==
    /\ ReceiveEvent(e)
    /\ conn' = [conn EXCEPT ![c].pc = label,
                            ![c].said = Append(@, Says(kind, e))]
    /\ UNCHANGED <<queueVars, smVars, panicked>>

----------------------------------------------------------------------------
(* The network, the reader goroutine and the keepalive timer. *)

\* The network connection breaks: reads and writes fail from now on.
Drop(c) ==
    /\ c \in Flaky
    /\ conn[c].up
    /\ conn' = [conn EXCEPT ![c].up = FALSE]
    /\ othersUnchanged
    /\ UNCHANGED panicked

\* The packets that the client may send next.
Offered(c) ==
    IF conn[c].nread < Len(Script[c]) THEN Script[c][conn[c].nread + 1] ELSE {}

\* DecodeFromReader returns a packet; the reader offers it on packetChan.
ReadPacket(c, p) ==
    /\ conn[c].rd = "reading"
    /\ conn[c].up
    /\ p \in Offered(c)
    /\ p.kind # "GARBLED"
    /\ conn' = [conn EXCEPT ![c].rd = "offer", ![c].rpkt = p, ![c].nread = @ + 1]
    /\ othersUnchanged
    /\ UNCHANGED panicked

\* DecodeFromReader fails, on a garbled packet or on a connection that is
\* broken or closed; the reader offers the error on errorChan.
ReadError(c) ==
    /\ conn[c].rd = "reading"
    /\ ~ conn[c].up \/ \E p \in Offered(c) : p.kind = "GARBLED"
    /\ conn' = [conn EXCEPT ![c].rd = "fail"]
    /\ othersUnchanged
    /\ UNCHANGED panicked

\* The reader is blocked on packetChan when it is closed, or reads p.conn after
\* disconnect has set it to nil: either way the process panics.
ReaderPanics(c) ==
    /\ Closed(c)
    /\ conn[c].rd \in {"offer", "reading"}
    /\ panicked' = TRUE
    /\ othersUnchanged
    /\ UNCHANGED conn

\* The keepalive time has passed; the timer goroutine offers an error.
TimerFires(c) ==
    /\ conn[c].timer = "armed"
    /\ conn' = [conn EXCEPT ![c].timer = "fired"]
    /\ othersUnchanged
    /\ UNCHANGED panicked

----------------------------------------------------------------------------
(* The main loop. *)

\* case packet := <-p.packetChan
TakePacket(c) ==
    /\ conn[c].pc = "select"
    /\ conn[c].rd = "offer"
    /\ conn' = [conn EXCEPT ![c].pc = "handle", ![c].pkt = conn[c].rpkt, ![c].k = 0,
                            ![c].rd = "reading", ![c].rpkt = None]
    /\ othersUnchanged
    /\ UNCHANGED panicked

\* Faulty variant: a read error is logged, and the loop goes on.
IgnoreReadError(c) ==
    /\ conn[c].pc = "select"
    /\ conn[c].rd = "fail"
    /\ conn' = [conn EXCEPT ![c].rd = "done"]
    /\ othersUnchanged
    /\ UNCHANGED panicked

\* case e := <-p.errorChan, from the reader or from the timer
TakeReadError(c) ==
    /\ conn[c].pc = "select"
    /\ conn[c].rd = "fail"
    /\ conn' = [conn EXCEPT ![c].pc = "disconnect", ![c].rd = "done"]
    /\ othersUnchanged
    /\ UNCHANGED panicked

TakeTimeout(c) ==
    /\ conn[c].pc = "select"
    /\ conn[c].timer = "fired"
    /\ conn' = [conn EXCEPT ![c].pc = "disconnect", ![c].timer = "done"]
    /\ othersUnchanged
    /\ UNCHANGED panicked

\* case t := <-p.availableChan: the session manager's DataAvailable returns.
TakeAvailable(c) ==
    /\ conn[c].pc = "select"
    /\ sm.pc = "blocked"
    /\ sm.target = c
    /\ sm' = [sm EXCEPT !.pc = "push", !.target = None]
    /\ Goto(c, "drain")
    /\ UNCHANGED <<queueVars, sessions, persistent, subs, topics, eventVars, panicked>>

\* DataAvailable sends on a channel that disconnect has closed.
AvailablePanics(c) ==
    /\ Closed(c)
    /\ sm.pc = "blocked"
    /\ sm.target = c
    /\ panicked' = TRUE
    /\ othersUnchanged
    /\ UNCHANGED conn

----------------------------------------------------------------------------
(* handleConnect *)

Handles(c, kind) ==
    /\ conn[c].pc = "handle"
    /\ conn[c].pkt.kind = kind

\* A second CONNECT, or one that fails a check before authentication.
ConnectInvalid(c) ==
    /\ Handles(c, "CONNECT")
    /\ conn[c].state # "New" \/ conn[c].pkt.fault = "protocol"
    /\ Goto(c, "disconnect")
    /\ othersUnchanged
    /\ UNCHANGED panicked

\* Authenticate fails: handleConnect calls disconnect itself, then returns the
\* error to the main loop, which calls disconnect again.
ConnectRefused(c) ==
    /\ Handles(c, "CONNECT")
    /\ conn[c].state = "New"
    /\ conn[c].pkt.fault = "auth"
    /\ conn' = [conn EXCEPT ![c].pc = "notifyDestroy", ![c].ret = "disconnect"]
    /\ othersUnchanged
    /\ UNCHANGED panicked

\* The client is accepted; a session that wants to be persistent looks for the
\* client's old session.
ConnectAccepted(c) ==
    LET old == sessions[conn[c].pkt.client]
    IN  /\ Handles(c, "CONNECT")
        /\ conn[c].state = "New"
        /\ conn[c].pkt.fault = "none"
        /\ conn' = [conn EXCEPT
                      ![c].id = conn[c].pkt.client,
                      ![c].pc = IF conn[c].pkt.clean \/ old = None THEN "newqueue"
                                ELSE IF persistent[old] THEN "resume" ELSE "remove"]
        /\ othersUnchanged
        /\ UNCHANGED panicked

ConnectNotifiesResume(c) ==
    /\ conn[c].pc = "resume"
    /\ Notify(c, SessionEvent("resume", conn[c].id), "resume", "remove")

ConnectRemovesOld(c) ==
    /\ conn[c].pc = "remove"
    /\ RemoveSession(conn[c].id)
    /\ Goto(c, "newqueue")
    /\ UNCHANGED <<queueVars, persistent, subs, topics, sm, eventVars, panicked>>

\* willMsg and cleanSession are set, then newQueue looks the client up.
ConnectStoresFlags(c) ==
    persistent' = [persistent EXCEPT ![c] = ~ conn[c].pkt.clean]

ConnectSharesQueue(c) ==
    /\ conn[c].pc = "newqueue"
    /\ NewQueueShared(conn[c].id, ~ conn[c].pkt.clean)
    /\ ConnectStoresFlags(c)
    /\ conn' = [conn EXCEPT ![c].pc = "observe", ![c].will = conn[c].pkt.will,
                            ![c].queue = queues[conn[c].id]]
    /\ UNCHANGED <<queueVars, sessions, subs, topics, sm, eventVars, panicked>>

ConnectQueueRefused(c) ==
    /\ conn[c].pc = "newqueue"
    /\ NewQueueRefused(conn[c].id)
    /\ ConnectStoresFlags(c)
    /\ conn' = [conn EXCEPT ![c].pc = "disconnect", ![c].will = conn[c].pkt.will]
    /\ UNCHANGED <<queueVars, sessions, subs, topics, sm, eventVars, panicked>>

ConnectReplacesQueue(c) ==
    /\ conn[c].pc = "newqueue"
    /\ NewQueueReplaces(conn[c].id, ~ conn[c].pkt.clean)
    /\ ConnectStoresFlags(c)
    /\ conn' = [conn EXCEPT ![c].pc = "freequeue", ![c].will = conn[c].pkt.will]
    /\ UNCHANGED <<queueVars, sessions, subs, topics, sm, eventVars, panicked>>

ConnectFindsNoQueue(c) ==
    /\ conn[c].pc = "newqueue"
    /\ queues[conn[c].id] = None
    /\ ConnectStoresFlags(c)
    /\ conn' = [conn EXCEPT ![c].pc = "allocate", ![c].will = conn[c].pkt.will]
    /\ UNCHANGED <<queueVars, sessions, subs, topics, sm, eventVars, panicked>>

ConnectDestroysQueue(c) ==
    /\ conn[c].pc = "freequeue"
    /\ DestroyQueue(conn[c].id)
    /\ Goto(c, "allocate")
    /\ UNCHANGED <<smVars, eventVars, panicked>>

ConnectAllocatesQueue(c) ==
    /\ conn[c].pc = "allocate"
    /\ NewQueueAllocates(c, conn[c].id, ~ conn[c].pkt.clean)
    /\ conn' = [conn EXCEPT ![c].pc = "observe", ![c].queue = c]
    /\ UNCHANGED <<smVars, eventVars, panicked>>

\* A persistent queue needs a connection to MongoDB, which may fail.
ConnectQueueFails(c) ==
    /\ conn[c].pc = "allocate"
    /\ ~ conn[c].pkt.clean
    /\ Goto(c, "disconnect")
    /\ othersUnchanged
    /\ UNCHANGED panicked

\* Faulty variant: the session does not register as the queue's observer.
ConnectUnobserved(c) ==
    /\ conn[c].pc = "observe"
    /\ Goto(c, "register")
    /\ UNCHANGED <<queueVars, smVars, eventVars, panicked>>

ConnectObserves(c) ==
    /\ conn[c].pc = "observe"
    /\ RegisterObserver(conn[c].queue, c)
    /\ Goto(c, "register")
    /\ UNCHANGED <<smVars, eventVars, panicked>>

\* The error of RegisterSession and that of sendConnAck are dropped.
ConnectRegisters(c) ==
    /\ conn[c].pc = "register"
    /\ RegisterSession(c, conn[c].id)
    /\ conn' = [conn EXCEPT ![c].pc = "create", ![c].state = "Connected"]
    /\ UNCHANGED <<queueVars, persistent, subs, topics, sm, eventVars, panicked>>

\* Notify returns, and the keepalive timer is started.
ConnectNotifiesCreate(c) ==
    LET e == SessionEvent("create", conn[c].id)
    IN  /\ conn[c].pc = "create"
        /\ ReceiveEvent(e)
        /\ conn' = [conn EXCEPT ![c].pc = "flush",
                                ![c].timer = IF conn[c].pkt.alive THEN "armed" ELSE @,
                                ![c].said = Append(@, Says("create", e))]
        /\ UNCHANGED <<queueVars, smVars, panicked>>

----------------------------------------------------------------------------
(* handleDataAvailableNotification *)

\* availableList: every message in the retain list is sent again; the errors
\* of a broken connection are dropped.
Flush(c) ==
    /\ conn[c].pc = "flush"
    /\ conn' = [conn EXCEPT ![c].pc = "drain",
                            ![c].sent = IF conn[c].up
                                        THEN @ \o obj[conn[c].queue].retainList
                                        ELSE @]
    /\ othersUnchanged
    /\ UNCHANGED panicked

\* Faulty variant: the error of the write is not looked at.
DrainUnchecked(c) ==
    LET q == Contents(conn[c].queue)
    IN  /\ conn[c].pc = "drain"
        /\ q # <<>>
        /\ conn' = [conn EXCEPT ![c].pc = "pop", ![c].cur = Head(q),
                                ![c].sent = IF conn[c].up THEN Append(@, Head(q)) ELSE @]
        /\ othersUnchanged
        /\ UNCHANGED panicked

\* availableQueue: the head of the queue is written to the client, and popped
\* only after that.  While the write fails the loop goes round without a change.
DrainSend(c) ==
    LET q == Contents(conn[c].queue)
    IN  /\ conn[c].pc = "drain"
        /\ q # <<>>
        /\ conn[c].up
        /\ conn' = [conn EXCEPT ![c].pc = "pop", ![c].cur = Head(q),
                                ![c].sent = Append(@, Head(q))]
        /\ othersUnchanged
        /\ UNCHANGED panicked

DrainPop(c) ==
    /\ conn[c].pc = "pop"
    /\ PopAndRetain(conn[c].queue, conn[c].cur)
    /\ conn' = [conn EXCEPT ![c].pc = "drain", ![c].cur = None]
    /\ UNCHANGED <<smVars, eventVars, panicked>>

DrainDone(c) ==
    /\ conn[c].pc = "drain"
    /\ Contents(conn[c].queue) = <<>>
    /\ Goto(c, "select")
    /\ othersUnchanged
    /\ UNCHANGED panicked

----------------------------------------------------------------------------
(* The other handlers *)

\* PUBLISH with QoS 2, or one that fails a check: the session is closed.
PublishInvalid(c) ==
    /\ Handles(c, "PUBLISH")
    /\ conn[c].pkt.fault # "none" \/ conn[c].pkt.qos = 2
    /\ Goto(c, "disconnect")
    /\ othersUnchanged
    /\ UNCHANGED panicked

\* PUBLISH, SUBSCRIBE and UNSUBSCRIBE notify one event per topic.
NotifiesTopics(c) ==
    /\ conn[c].pc = "handle"
    /\ \/ conn[c].pkt.kind \in {"SUBSCRIBE", "UNSUBSCRIBE"}
       \/ conn[c].pkt.kind = "PUBLISH" /\ conn[c].pkt.fault = "none" /\ conn[c].pkt.qos # 2
    /\ Goto(c, IF conn[c].pkt.topics = <<>> THEN "reply" ELSE "notify")
    /\ othersUnchanged
    /\ UNCHANGED panicked

TopicEventType(kind) ==
    CASE kind = "SUBSCRIBE"   -> "subscribe"
      [] kind = "UNSUBSCRIBE" -> "unsubscribe"
      [] OTHER                -> "publish"

NotifyTopic(c) ==
    LET p == conn[c].pkt
        e == TopicEvent(TopicEventType(p.kind), conn[c].id, p.topics[conn[c].k + 1],
                        p.qos, npub + 1)
    IN  /\ conn[c].pc = "notify"
        /\ ReceiveEvent(e)
        /\ conn' = [conn EXCEPT
                      ![c].pc = IF conn[c].k + 1 = Len(p.topics) THEN "reply" ELSE @,
                      ![c].k = @ + 1,
                      ![c].said = Append(@, Says(e.type, e))]
        /\ UNCHANGED <<queueVars, smVars, panicked>>

\* PINGREQ and PUBREL are only answered.
OnlyReplies(c) ==
    /\ conn[c].pc = "handle"
    /\ conn[c].pkt.kind \in {"PINGREQ", "PUBREL"}
    /\ Goto(c, "reply")
    /\ othersUnchanged
    /\ UNCHANGED panicked

\* The answer is written, unless a later field of the packet is malformed or
\* the packet is a PUBLISH with QoS 0; an error closes the session.
Reply(c) ==
    LET p == conn[c].pkt
        silent == p.kind = "PUBLISH" /\ p.qos = 0
    IN  /\ conn[c].pc = "reply"
        /\ Goto(c, IF p.fault = "none" /\ (silent \/ conn[c].up)
                   THEN "select" ELSE "disconnect")
        /\ othersUnchanged
        /\ UNCHANGED panicked

PubAckInvalid(c) ==
    /\ Handles(c, "PUBACK")
    /\ conn[c].pkt.fault # "none"
    /\ Goto(c, "disconnect")
    /\ othersUnchanged
    /\ UNCHANGED panicked

PubAck(c) ==
    /\ Handles(c, "PUBACK")
    /\ conn[c].pkt.fault = "none"
    /\ conn[c].queue # None
    /\ RetainListRemove(conn[c].queue, conn[c].pkt.pid)
    /\ Goto(c, "select")
    /\ UNCHANGED <<smVars, eventVars, panicked>>

\* p.queue is nil before CONNECT.
PubAckPanics(c) ==
    /\ Handles(c, "PUBACK")
    /\ conn[c].pkt.fault = "none"
    /\ conn[c].queue = None
    /\ panicked' = TRUE
    /\ othersUnchanged
    /\ UNCHANGED conn

UnrecognizedPacket(c) ==
    /\ Handles(c, "OTHER")
    /\ Goto(c, "disconnect")
    /\ othersUnchanged
    /\ UNCHANGED panicked

DisconnectInvalid(c) ==
    /\ Handles(c, "DISCONNECT")
    /\ conn[c].pkt.fault # "none"
    /\ Goto(c, "disconnect")
    /\ othersUnchanged
    /\ UNCHANGED panicked

\* handleDisconnect drops the will and calls disconnect without a reason.
HandleDisconnect(c) ==
    /\ Handles(c, "DISCONNECT")
    /\ conn[c].pkt.fault = "none"
    /\ conn' = [conn EXCEPT ![c].pc = "notifyDestroy", ![c].ret = "exit",
                            ![c].will = None, ![c].state = "Disconnecting"]
    /\ othersUnchanged
    /\ UNCHANGED panicked

----------------------------------------------------------------------------
(* disconnect *)

\* Faulty variant: the session state is not checked.
DisconnectUnchecked(c) ==
    /\ conn[c].pc = "disconnect"
    /\ conn' = [conn EXCEPT ![c].ret = "exit",
                            ![c].pc = IF conn[c].will # None THEN "notifyWill"
                                      ELSE "notifyDestroy"]
    /\ othersUnchanged
    /\ UNCHANGED panicked

\* The main loop calls disconnect with the error of a handler as the reason.
Disconnect(c) ==
    /\ conn[c].pc = "disconnect"
    /\ conn' = [conn EXCEPT ![c].ret = "exit",
                            ![c].pc = IF Closed(c) THEN "exit"
                                      ELSE IF conn[c].will # None THEN "notifyWill"
                                      ELSE "notifyDestroy"]
    /\ othersUnchanged
    /\ UNCHANGED panicked

NotifyWill(c) ==
    /\ conn[c].pc = "notifyWill"
    /\ Notify(c, TopicEvent("publish", conn[c].id, conn[c].will, 0, npub + 1),
              "will", "notifyDestroy")

NotifyDestroy(c) ==
    /\ conn[c].pc = "notifyDestroy"
    /\ Notify(c, SessionEvent("destroy", conn[c].id), "destroy", "teardown")

\* The connection and the channels are closed, the timer is stopped.
Teardown(c) ==
    /\ conn[c].pc = "teardown"
    /\ conn' = [conn EXCEPT ![c].pc = conn[c].ret, ![c].state = "Disconnected",
                            ![c].up = FALSE,
                            ![c].timer = IF @ = "armed" THEN "off" ELSE @]
    /\ othersUnchanged
    /\ UNCHANGED panicked
============================================================================
