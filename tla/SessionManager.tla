-------------------------- MODULE SessionManager --------------------------
(* broker/sessionmgr: the session table, the topic tree and the goroutine   *)
(* that handles the events of the sessions.  Topics have one level and no   *)
(* wildcard, so the tree is a table of subscriptions by client and topic.   *)
(* Events of other brokers are left out: the broker's own events only.      *)
EXTENDS QueueService

VARIABLES
    sessions,   \* sessionManager.sessions: the session registered per client
    persistent, \* what IsPersistent() of each session answers
    subs,       \* the subscription of each client at each topic's node
    topics,     \* simpleTopicTree.topics: each client's list of topics
    sm          \* control state of the session manager goroutine

smVars == <<sessions, persistent, subs, topics, sm>>

\* queue is None when the node has no subscription of the client.
Subscription == [queue: Conns \cup {None}, qos: Qos]
NoSubscription == [queue |-> None, qos |-> 0]

Idle == [pc |-> "idle", cur |-> None, pending |-> {}, queue |-> None,
         target |-> None, i |-> 0]

Manager == [pc:      {"idle", "create", "subscribe", "unsubscribe", "publish",
                      "push", "wake", "blocked", "destroy", "clear", "sweep",
                      "remove", "free"},
            cur:     Event \cup {None},
            pending: SUBSET Ids,          \* subscribers still to be served
            queue:   Conns \cup {None},   \* queue that Pushback works on
            target:  Conns \cup {None},   \* observer being notified
            i:       Nat]                 \* index of the loop over topics

SmTypeOK ==
    /\ sessions \in [Ids -> Conns \cup {None}]
    /\ persistent \in [Conns -> BOOLEAN]
    /\ subs \in [Ids -> [Topics -> Subscription]]
    /\ topics \in [Ids -> Seq(Topics)]
    /\ sm \in Manager

SmInit ==
    /\ sessions = [id \in Ids |-> None]
    /\ persistent = [c \in Conns |-> FALSE]
    /\ subs = [id \in Ids |-> [t \in Topics |-> NoSubscription]]
    /\ topics = [id \in Ids |-> <<>>]
    /\ sm = Idle

\* case e := <-p.eventChan, and the dispatch on the event's type.
TakeEvent(e) ==
    /\ sm.pc = "idle"
    /\ sm' = [Idle EXCEPT !.pc = e.type, !.cur = e]
    /\ UNCHANGED <<sessions, persistent, subs, topics>>

---------------------------------------------------------------------------
(* Sessions call these from their own goroutines. *)

RemoveSession(id) ==
    sessions' = [sessions EXCEPT ![id] = None]

\* A session that is already registered for the client stays registered.
RegisterSession(c, id) ==
    sessions' = [sessions EXCEPT ![id] = IF @ = None THEN c ELSE @]

---------------------------------------------------------------------------
(* The handlers of the session manager goroutine. *)

\* The session is created on this broker: nothing to do.
OnSessionCreate ==
    /\ sm.pc = "create"
    /\ sm' = Idle
    /\ UNCHANGED <<sessions, persistent, subs, topics, queueVars>>

\* The subscription holds the queue object registered now, not the client's
\* identifier; without a queue the subscription is dropped.
OnTopicSubscribe ==
    LET id == sm.cur.client
        t  == sm.cur.topic
        q  == queues[id]
    IN  /\ sm.pc = "subscribe"
        /\ subs' = [subs EXCEPT ![id][t] =
                      IF q = None THEN @ ELSE [queue |-> q, qos |-> sm.cur.qos]]
        /\ topics' = [topics EXCEPT ![id] = IF q = None THEN @ ELSE Append(@, t)]
        /\ sm' = Idle
        /\ UNCHANGED <<sessions, persistent, queueVars>>

\* list = append(list[:i], list[i+1:]...) with i the first index of t: the
\* elements behind it move down in the shared array, but the slice stored in
\* p.topics keeps its length and so shows the last element twice.
CloseUp(list, t) ==
    [j \in 1..Len(list) |->
        IF j < Len(list) /\ (\E i \in 1..j : list[i] = t) THEN list[j + 1] ELSE list[j]]

RemoveSubscription(id, t) ==
    /\ subs' = [subs EXCEPT ![id][t] = NoSubscription]
    /\ topics' = [topics EXCEPT ![id] =
                    IF subs[id][t].queue = None THEN @ ELSE CloseUp(@, t)]

OnTopicUnsubscribe ==
    /\ sm.pc = "unsubscribe"
    /\ RemoveSubscription(sm.cur.client, sm.cur.topic)
    /\ sm' = Idle
    /\ UNCHANGED <<sessions, persistent, queueVars>>

\* addMessage locks the tree and collects the subscribers at the topic's node.
OnTopicPublish ==
    /\ sm.pc = "publish"
    /\ sm' = [sm EXCEPT !.pc = "push",
                        !.pending = {id \in Ids : subs[id][sm.cur.topic].queue # None}]
    /\ UNCHANGED <<sessions, persistent, subs, topics, queueVars>>

\* sub.queue.Pushback(newMsg), first half, for the next subscriber in the
\* order of a map iteration.
PushTo(id) ==
    LET sub == subs[id][sm.cur.topic]
    IN  /\ sm.pc = "push"
        /\ id \in sm.pending
        /\ Store(sub.queue, [mid |-> sm.cur.mid, topic |-> sm.cur.topic,
                             qos |-> sub.qos, dup |-> FALSE])
        /\ sm' = [sm EXCEPT !.pc = "wake", !.pending = @ \ {id}, !.queue = sub.queue]
        /\ UNCHANGED <<sessions, persistent, subs, topics>>

\* Pushback, second half: a queue without an observer is left alone, otherwise
\* DataAvailable blocks on the unbuffered availableChan of the observer.
Wake ==
    LET o == obj[sm.queue].observer
    IN  /\ sm.pc = "wake"
        /\ sm' = [sm EXCEPT !.pc = IF o = None THEN "push" ELSE "blocked",
                            !.target = o]
        /\ UNCHANGED <<sessions, persistent, subs, topics, queueVars>>

PublishDone ==
    /\ sm.pc = "push"
    /\ sm.pending = {}
    /\ sm' = Idle
    /\ UNCHANGED <<sessions, persistent, subs, topics, queueVars>>

\* onSessionDestroy looks the client up and takes one of two ways.
OnSessionDestroy ==
    LET s == sessions[sm.cur.client]
    IN  /\ sm.pc = "destroy"
        /\ sm' = [sm EXCEPT !.pc = IF s # None /\ persistent[s] THEN "clear" ELSE "sweep",
                            !.i = 1]
        /\ UNCHANGED <<sessions, persistent, subs, topics, queueVars>>

\* Persistent session: the queue registered for the client loses its observer.
ClearObserver ==
    LET q == queues[sm.cur.client]
    IN  /\ sm.pc = "clear"
        /\ obj' = [o \in Conns |-> IF o = q THEN [obj[o] EXCEPT !.observer = None]
                                            ELSE obj[o]]
        /\ sm' = Idle
        /\ UNCHANGED <<sessions, persistent, subs, topics, queues, mongo>>

\* Transient session: for _, topic := range topics { removeSubscription }.
\* The loop reads the array that removeSubscription closes up under it.
SweepTopic ==
    LET id == sm.cur.client
    IN  /\ sm.pc = "sweep"
        /\ sm.i <= Len(topics[id])
        /\ RemoveSubscription(id, topics[id][sm.i])
        /\ sm' = [sm EXCEPT !.i = @ + 1]
        /\ UNCHANGED <<sessions, persistent, queueVars>>

SweepDone ==
    /\ sm.pc = "sweep"
    /\ sm.i > Len(topics[sm.cur.client])
    /\ sm' = [sm EXCEPT !.pc = "remove"]
    /\ UNCHANGED <<sessions, persistent, subs, topics, queueVars>>

DestroyRemovesSession ==
    /\ sm.pc = "remove"
    /\ RemoveSession(sm.cur.client)
    /\ sm' = [sm EXCEPT !.pc = "free"]
    /\ UNCHANGED <<persistent, subs, topics, queueVars>>

DestroyFreesQueue ==
    /\ sm.pc = "free"
    /\ DestroyQueue(sm.cur.client)
    /\ sm' = Idle
    /\ UNCHANGED <<sessions, persistent, subs, topics>>
===========================================================================
