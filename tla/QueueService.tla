--------------------------- MODULE QueueService ---------------------------
(* broker/queue: the table of queues by client identifier and the queue     *)
(* objects themselves.  A session asks for a queue at most once, so a queue *)
(* object is named after the connection whose NewQueue call allocated it.   *)
(* A transient queue keeps its messages in the object; the messages of a    *)
(* persistent queue live in the MongoDB collection of its client, which     *)
(* outlives the object.  newQueue holds no lock (it unlocks right after it  *)
(* locks), so each of its accesses to the table is a step of its own.       *)
EXTENDS BrokerBase

VARIABLES
    queues,     \* queueService.queues: the queue registered for each client
    obj,        \* the queue objects
    mongo       \* the collections "persistent-session".<clientId>

queueVars == <<queues, obj, mongo>>

Queue == [id:         Ids,                   \* clientId
          persistent: BOOLEAN,               \* persistentQueue or transientQueue
          observer:   Conns \cup {None},
          syncq:      Seq(Message),          \* transientQueue.syncq
          retainList: Seq(Message),          \* sent with QoS 1, awaiting PUBACK
          pushed:     Seq(Message)]          \* history: all that was stored

QueueTypeOK ==
    /\ queues \in [Ids -> Conns \cup {None}]
    /\ obj \in [Conns -> Queue]
    /\ mongo \in [Ids -> Seq(Message)]

\* Faulty variant: the constructor drops the client identifier.
FreshQueueAnonymous(id, durable) ==
    [id |-> None, persistent |-> durable, observer |-> None,
     syncq |-> <<>>, retainList |-> <<>>, pushed |-> <<>>]

FreshQueue(id, durable) ==
    [id |-> id, persistent |-> durable, observer |-> None,
     syncq |-> <<>>, retainList |-> <<>>, pushed |-> <<>>]

QueueInit ==
    /\ queues = [id \in Ids |-> None]
    /\ obj = [c \in Conns |-> FreshQueue(None, FALSE)]
    /\ mongo = [id \in Ids |-> <<>>]

\* What Length, Front and Pop of queue object o work on.
Contents(o) == IF obj[o].persistent THEN mongo[obj[o].id] ELSE obj[o].syncq

\* Faulty variant: whatever queue is registered for the client is shared.
NewQueueSharedAlways(id, durable) == queues[id] # None

\* newQueue finds a persistent queue and a persistent one is wanted.
NewQueueShared(id, durable) ==
    /\ queues[id] # None
    /\ durable
    /\ obj[queues[id]].persistent

\* newQueue finds a persistent queue, but a transient one is wanted: destroyQueue
\* comes before the new queue.
NewQueueReplaces(id, durable) ==
    /\ queues[id] # None
    /\ ~ durable
    /\ obj[queues[id]].persistent

\* newQueue refuses: a transient queue is registered, whatever is wanted.
NewQueueRefused(id) ==
    /\ queues[id] # None
    /\ ~ obj[queues[id]].persistent

\* newQueue allocates object c and registers it, in the place of whatever has
\* been registered since it looked.
NewQueueAllocates(c, id, durable) ==
    /\ queues' = [queues EXCEPT ![id] = c]
    /\ obj' = [obj EXCEPT ![c] = FreshQueue(id, durable)]
    /\ UNCHANGED mongo

DestroyQueue(id) ==
    /\ queues' = [queues EXCEPT ![id] = None]
    /\ UNCHANGED <<obj, mongo>>

RegisterObserver(o, observer) ==
    /\ obj' = [obj EXCEPT ![o].observer = observer]
    /\ UNCHANGED <<queues, mongo>>

\* The first half of Pushback: the message is stored.  The second half, the
\* call of the observer's DataAvailable, blocks and is the caller's next step.
Store(o, m) ==
    /\ obj' = [obj EXCEPT ![o].syncq = IF obj[o].persistent THEN @ ELSE Append(@, m),
                           ![o].pushed = Append(@, m)]
    /\ mongo' = [mongo EXCEPT ![obj[o].id] =
                    IF obj[o].persistent THEN Append(@, m) ELSE @]
    /\ UNCHANGED queues

DropHead(s) == IF s = <<>> THEN s ELSE Tail(s)

\* Faulty variant: a message kept for its PUBACK stays in the queue as well.
RetainWithoutPop(o, m) ==
    /\ obj' = [obj EXCEPT
                 ![o].syncq = IF m.qos = 1 THEN @ ELSE DropHead(@),
                 ![o].retainList = IF m.qos = 1
                                   THEN Append(@, [m EXCEPT !.dup = TRUE])
                                   ELSE @]
    /\ UNCHANGED <<queues, mongo>>

\* Pop, followed by retainList.Pushback when the message sent had QoS 1.
PopAndRetain(o, m) ==
    /\ obj' = [obj EXCEPT
                 ![o].syncq = IF obj[o].persistent THEN @ ELSE DropHead(@),
                 ![o].retainList = IF m.qos = 1
                                   THEN Append(@, [m EXCEPT !.dup = TRUE])
                                   ELSE @]
    /\ mongo' = [mongo EXCEPT ![obj[o].id] =
                    IF obj[o].persistent THEN DropHead(@) ELSE @]
    /\ UNCHANGED queues

\* transientList.Remove(pid): every message in the list has PacketId 0, because
\* nothing ever assigns base.Message.PacketId; so pid 0 removes the oldest
\* entry and any other pid removes nothing.
RetainListRemove(o, pid) ==
    /\ obj' = [obj EXCEPT ![o].retainList = IF pid = 0 THEN DropHead(@) ELSE @]
    /\ UNCHANGED <<queues, mongo>>
===========================================================================
