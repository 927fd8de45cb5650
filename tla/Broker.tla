------------------------------- MODULE Broker -------------------------------
(* One MQTT broker process: the goroutines of its connections, the event    *)
(* service and the session manager, which meet on unbuffered channels and   *)
(* share the session table, the queue table and the queues.                 *)
EXTENDS MqttSession

vars == <<queueVars, smVars, eventVars, sessionVars>>

TypeOK == QueueTypeOK /\ SmTypeOK /\ EventTypeOK /\ SessionTypeOK

Init == QueueInit /\ SmInit /\ EventInit /\ SessionInit

----------------------------------------------------------------------------
(* The goroutines *)

ReaderStep(c) ==
    \/ \E p \in Offered(c) : ReadPacket(c, p)
    \/ ReadError(c)
    \/ ReaderPanics(c)

ConnectStep(c) ==
    \/ ConnectInvalid(c) \/ ConnectRefused(c) \/ ConnectAccepted(c)
    \/ ConnectNotifiesResume(c) \/ ConnectRemovesOld(c)
    \/ ConnectSharesQueue(c) \/ ConnectQueueRefused(c)
    \/ ConnectReplacesQueue(c) \/ ConnectFindsNoQueue(c) \/ ConnectDestroysQueue(c)
    \/ ConnectAllocatesQueue(c) \/ ConnectQueueFails(c)
    \/ ConnectObserves(c) \/ ConnectRegisters(c) \/ ConnectNotifiesCreate(c)

DrainStep(c) == Flush(c) \/ DrainSend(c) \/ DrainPop(c) \/ DrainDone(c)

PacketStep(c) ==
    \/ PublishInvalid(c) \/ NotifiesTopics(c) \/ NotifyTopic(c)
    \/ OnlyReplies(c) \/ Reply(c)
    \/ PubAckInvalid(c) \/ PubAck(c) \/ PubAckPanics(c)
    \/ UnrecognizedPacket(c)

DisconnectStep(c) ==
    \/ DisconnectInvalid(c) \/ HandleDisconnect(c)
    \/ Disconnect(c) \/ NotifyWill(c) \/ NotifyDestroy(c) \/ Teardown(c)

MainStep(c) ==
    \/ TakePacket(c) \/ TakeReadError(c) \/ TakeTimeout(c) \/ TakeAvailable(c)
    \/ ConnectStep(c) \/ DrainStep(c) \/ PacketStep(c) \/ DisconnectStep(c)

\* subscriber.handler(e): the event goroutine hands the event to the session
\* manager goroutine.
HandOver ==
    /\ HandedOver
    /\ TakeEvent(es.cur)
    /\ UNCHANGED <<queueVars, sessionVars>>

EventStep ==
    \/ HandOver
    \/ PublishToKafka /\ UNCHANGED <<queueVars, smVars, sessionVars>>

ManagerStep ==
    /\ \/ OnSessionCreate \/ OnTopicSubscribe \/ OnTopicUnsubscribe
       \/ OnTopicPublish \/ (\E id \in Ids : PushTo(id)) \/ Wake \/ PublishDone
       \/ OnSessionDestroy \/ ClearObserver \/ SweepTopic \/ SweepDone
       \/ DestroyRemovesSession \/ DestroyFreesQueue
    /\ UNCHANGED <<eventVars, sessionVars>>

\* The queue table is used without a lock, and so is the session table by
\* findSession.
ReadsQueues(c)   == conn[c].pc \in {"newqueue", "freequeue", "allocate"}
WritesQueues(c)  == conn[c].pc \in {"freequeue", "allocate"}
ReadsSessions(c) == /\ Handles(c, "CONNECT")
                    /\ conn[c].state = "New"
                    /\ conn[c].pkt.fault = "none"
                    /\ ~ conn[c].pkt.clean
WritesSessions(c) == conn[c].pc \in {"remove", "register"}

MapRace ==
    \E c \in Conns :
        \/ WritesQueues(c) /\ sm.pc \in {"subscribe", "clear"}
        \/ ReadsQueues(c) /\ sm.pc = "free"
        \/ WritesSessions(c) /\ sm.pc = "destroy"
        \/ ReadsSessions(c) /\ sm.pc = "remove"
        \/ \E d \in Conns \ {c} : WritesQueues(c) /\ ReadsQueues(d)
        \/ \E d \in Conns \ {c} : WritesSessions(c) /\ ReadsSessions(d)

\* Go ends the process when it notices that a map is written concurrently with
\* another access to it.
ConcurrentMapAccess ==
    /\ MapRace
    /\ panicked' = TRUE
    /\ UNCHANGED <<queueVars, smVars, eventVars, conn>>

\* A panic ends the process: no goroutine takes another step.
Next ==
    /\ ~ panicked
    /\ \/ \E c \in Conns : \/ Drop(c) \/ TimerFires(c) \/ ReaderStep(c)
                           \/ MainStep(c) \/ AvailablePanics(c)
       \/ EventStep
       \/ ManagerStep
       \/ ConcurrentMapAccess

Spec == Init /\ [][Next]_vars

\* The Go scheduler runs every goroutine that can run.  Nothing is assumed of
\* the clients, of the network and of the timers.
Fairness ==
    /\ \A c \in Conns : WF_vars(~ panicked /\ MainStep(c))
    /\ \A c \in Conns : WF_vars(~ panicked /\ ReadError(c))
    /\ WF_vars(~ panicked /\ EventStep)
    /\ WF_vars(~ panicked /\ ManagerStep)

FairSpec == Spec /\ Fairness

----------------------------------------------------------------------------
(* Safety *)

\* disconnect (mqtt_session.go:501) announces the end of a session exactly
\* once, as the last event of the session, and announces the will directly
\* before it if and only if the session still had one: never after a clean
\* DISCONNECT, and not a second time when handleConnect has already called
\* disconnect and the main loop calls it again.
EndAnnouncedOnce ==
    \A c \in Conns :
        LET said == conn[c].said
            n    == Len(said)
        IN  /\ \A i \in 1..n : said[i].kind = "destroy" => i = n
            /\ \A i \in 1..n : said[i].kind = "will" =>
                    i = n \/ (i = n - 1 /\ said[n].kind = "destroy")
            /\ Closed(c) =>
                    /\ n > 0
                    /\ said[n].kind = "destroy"
                    /\ conn[c].will # None <=> (n > 1 /\ said[n - 1].kind = "will")

\* A message stored in the queue of a clean session is neither lost,
\* duplicated nor overtaken on its way to the client: what was ever stored is
\* what was written to the client followed by what is still queued
\* (handleDataAvailableNotification pops a message only after writing it,
\* while the session manager appends at the other end).
CleanSessionDelivery ==
    \A c \in Conns :
        conn[c].queue = c /\ ~ obj[c].persistent =>
            obj[c].pushed = conn[c].sent \o (IF conn[c].pc = "pop" THEN Tail(obj[c].syncq)
                                                                   ELSE obj[c].syncq)

\* A client receives only messages on topics it has itself subscribed to,
\* although subscriptions hold queue objects, queue objects are replaced and
\* shared when clients reconnect, and persistent messages outlive sessions
\* (onTopicSubscribe, addMessage, newQueue, handleDataAvailableNotification).
OnlySubscribedTopics ==
    \A c \in Conns : \A i \in 1..Len(conn[c].sent) :
        \E d \in Conns : \E j \in 1..Len(conn[d].said) :
            conn[d].said[j] = [kind |-> "subscribe", client |-> conn[c].id,
                               topic |-> conn[c].sent[i].topic]

\* Publications reach a clean session in the order in which the event service
\* accepted them, none of them twice.
CleanSessionOrder ==
    \A c \in Conns :
        conn[c].queue = c /\ ~ obj[c].persistent =>
            \A i, j \in 1..Len(conn[c].sent) :
                i < j => conn[c].sent[i].mid < conn[c].sent[j].mid

\* Queue objects never change hands: a connection, a subscription and the
\* queue table refer only to queue objects made for their own client, and two
\* connections use one object only if it is a persistent one.
QueueOwnership ==
    /\ \A c \in Conns : conn[c].queue # None =>
            /\ obj[conn[c].queue].id = conn[c].id
            /\ conn[c].queue = c \/ obj[conn[c].queue].persistent
    /\ \A id \in Ids : queues[id] # None => obj[queues[id]].id = id
    /\ \A id \in Ids : \A t \in Topics :
            subs[id][t].queue # None => obj[subs[id][t].queue].id = id

----------------------------------------------------------------------------
(* What comments of the source say, and the code does not keep *)

\* mqtt_session.go:500: disconnect ends the current connection.  It never
\* takes the whole process down with it.
OnlyConnectionsEnd == ~ panicked

\* session_manager.go:168: a transient session is removed from the session
\* manager, with every subscription it has.
TransientSessionRemoved ==
    sm.pc = "free" => \A t \in Topics : subs[sm.cur.client][t].queue = None

\* mqtt_session.go:206: a queued message is read from the queue and sent to the
\* client.  A message that has left the store of a persistent session has been
\* written to a connection of the client.
PersistentMessageSent ==
    \A o \in Conns : obj[o].persistent =>
        \A i \in 1..Len(obj[o].pushed) :
            LET m == obj[o].pushed[i]
            IN  \/ \E j \in 1..Len(mongo[obj[o].id]) : mongo[obj[o].id][j] = m
                \/ \E c \in Conns : /\ conn[c].id = obj[o].id
                                    /\ \E j \in 1..Len(conn[c].sent) : conn[c].sent[j] = m

Waiting(c) == conn[c].queue # None /\ Contents(conn[c].queue) # <<>>

\* topic_tree.go:45: writing a message to a subscriber's queue causes the
\* observer to read it from the queue.
QueuedMessageRead ==
    \A c \in Conns : Waiting(c) ~> (~ Waiting(c) \/ ~ conn[c].up \/ panicked)

\* The session is in event.Notify, waiting for the event goroutine.
Notifying(c) ==
    conn[c].pc \in {"resume", "create", "notify", "notifyWill", "notifyDestroy"}

\* The event goroutine waits for the session manager, which waits in
\* DataAvailable for a session, which waits in event.Notify for the event
\* goroutine (the run `echo` reaches it).
CircularWait == es.pc = "deliver" /\ sm.pc = "blocked" /\ Notifying(sm.target)

\* The circular wait is the only thing that keeps a queued message from its
\* client: whatever the subscriber sends while messages arrive (subscriptions,
\* publications of its own, acknowledgements, DISCONNECT), DataAvailable
\* (mqtt_session.go:267) gets through to its main loop and the queue is drained,
\* unless the connection ends, the process panics or the three goroutines wait
\* for each other.
ReadUnlessCircular ==
    \A c \in Conns :
        Waiting(c) ~> (~ Waiting(c) \/ ~ conn[c].up \/ panicked \/ CircularWait)

\* mqtt_session.go:162: the connection is disconnected when any error occurs.
BrokenConnectionEnds ==
    \A c \in Conns : ~ conn[c].up ~> (Closed(c) \/ panicked)

-----------------------------------------------------------------------------
(* What the code does not keep: TLC has a counterexample to each, see the   *)
(* known disagreements in the README.                                       *)

\* mqtt_session.go:265: DataAvailable is called when the queue has data.  Once
\* every event is handled and a connected session is the only one left of its
\* client, that session is the observer of its queue.
LastSessionObserves ==
    \A c \in Conns :
        /\ es.pc = "idle" /\ sm.pc = "idle"
        /\ conn[c].pc = "select" /\ conn[c].state = "Connected"
        /\ \A d \in Conns \ {c} : conn[d].id = conn[c].id => conn[d].pc = "exit"
        => obj[conn[c].queue].observer = c
=============================================================================
