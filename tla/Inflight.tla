------------------------------ MODULE Inflight ------------------------------
(* Messages of QoS 1 between PUBLISH and PUBACK: the packet ids of a session  *)
(* (makePacketID), the retain list of its queue (queue/list_transient.go) and *)
(* PUBACK.  The client is persistent: its queue and retain list live on while *)
(* its sessions, each with ids of its own, come and go.                       *)
EXTENDS Naturals, Sequences, Functions

CONSTANTS
    MinQueueLen,    \* minQueueLen, 16 in the code
    MaxPacketID,    \* math.MaxUint16
    Nibble,         \* 0xF + 1: writeUint16 keeps so many values of each byte
    MaxMessages,    \* bound: messages delivered
    MaxRetained,    \* bound: entries in the retain list
    Nil             \* Go's nil

ASSUME InflightAssumption ==
    /\ MinQueueLen \in Nat /\ MaxMessages \in Nat
    /\ MaxPacketID \in Nat \ {0} /\ Nibble \in Nat \ {0}

VARIABLES
    buf,            \* transientList.buf
    count,          \* transientList.count
    nextPacketID,   \* of the current session
    unanswered,     \* client: each PUBLISH it has not answered, with the id it read
    delivered,      \* number of messages delivered for the first time
    acked,          \* history: messages for which the client sent a PUBACK
    zeroAcks,       \* history: number of PUBACKs for the packet id 0
    reused,         \* history: a session has sent a second message as id 0
    panicked        \* an index was out of range

inflightVars == <<buf, count, nextPacketID, unanswered, delivered, acked, zeroAcks, reused,
                  panicked>>

Mids == 1..MaxMessages

\* The messages in the list.  A retained message has PacketId 0: sendPublish
\* keeps the id it makes to itself.
Retained == SubSeq(buf, 1, count)
PacketId(m) == 0

InflightTypeOK ==
    /\ buf \in Seq(Mids \cup {Nil}) /\ count \in 0..Len(buf)
    /\ Range(Retained) \subseteq 1..delivered
    /\ nextPacketID \in 0..MaxPacketID
    /\ unanswered \subseteq [id : Nat, mid : Mids]
    /\ delivered \in 0..MaxMessages /\ acked \subseteq Mids /\ zeroAcks \in Nat
    /\ reused \in BOOLEAN /\ panicked \in BOOLEAN

InflightInit ==
    /\ buf = [i \in 1..MinQueueLen |-> Nil]
    /\ count = 0
    /\ nextPacketID = 0
    /\ unanswered = {}
    /\ delivered = 0
    /\ acked = {}
    /\ zeroAcks = 0
    /\ reused = FALSE
    /\ panicked = FALSE

\* makePacketID: the id returned and the next one, from the current one.
MakePacketID(next) ==
    IF next < MaxPacketID THEN [id |-> next, next |-> next + 1] ELSE [id |-> 0, next |-> 0]

\* The id of the k-th PUBLISH of a session, counted from 0.
SentId(k) == MakePacketID(k % (MaxPacketID + 1)).id

\* writeUint16 keeps the low four bits of each of the two bytes, and readUint16 of
\* the client puts together what is left.
WireId(id) == 256 * ((id \div 256) % Nibble) + (id % Nibble)

\* resize: twice as many places as there are messages.
Resized(b, n) == [i \in 1..(2 * n) |-> IF i <= n THEN b[i] ELSE Nil]

\* transientList.Pushback: writes behind the last message, after a resize when
\* the buffer is full; 2 * 0 places are still none.
ListPushback(m) ==
    LET b == IF count = Len(buf) THEN Resized(buf, count) ELSE buf
    IN  IF count + 1 \in DOMAIN b
        THEN /\ buf' = [b EXCEPT ![count + 1] = m]
             /\ count' = count + 1
             /\ UNCHANGED panicked
        ELSE /\ buf' = b
             /\ panicked' = TRUE
             /\ UNCHANGED count

\* append(buf[:i], buf[i+1:]...): the buffer without its place i.
ClosedUp(b, i) == SubSeq(b, 1, i - 1) \o SubSeq(b, i + 1, Len(b))

\* Faulty variant: takes the first message whatever the id is.
RemoveFirstOne(pid) ==
    /\ buf' = IF count = 0 THEN buf ELSE Tail(buf)
    /\ count' = IF count = 0 THEN 0 ELSE count - 1

\* transientList.Remove: closes up the buffer over the first message with the
\* id, and halves a buffer that is mostly empty.
RemoveFromList(pid) ==
    LET hits == {i \in 1..count : PacketId(buf[i]) = pid}
        b    == IF hits = {} THEN buf ELSE ClosedUp(buf, CHOOSE i \in hits : \A j \in hits : i <= j)
        n    == IF hits = {} THEN count ELSE count - 1
    IN  /\ buf' = IF Len(b) > MinQueueLen /\ 4 * n = Len(b) THEN Resized(b, n) ELSE b
        /\ count' = n

\* The next message of the queue is sent and retained.
DeliverQos1 ==
    LET m == delivered + 1
        p == MakePacketID(nextPacketID)
    IN  /\ ~panicked /\ delivered < MaxMessages /\ count < MaxRetained
        /\ ListPushback(m)
        /\ delivered' = m
        /\ nextPacketID' = p.next
        /\ unanswered' = unanswered \cup {[id |-> WireId(p.id), mid |-> m]}
        /\ reused' = (reused \/ (WireId(p.id) = 0 /\ nextPacketID > 0))
        /\ UNCHANGED <<acked, zeroAcks>>

\* The client answers a PUBLISH it has got, and handlePubAck takes the answer.
PubAck(p) ==
    /\ ~panicked
    /\ RemoveFromList(p.id)
    /\ acked' = acked \cup {p.mid}
    /\ unanswered' = unanswered \ {p}
    /\ zeroAcks' = IF p.id = 0 THEN zeroAcks + 1 ELSE zeroAcks
    /\ UNCHANGED <<nextPacketID, delivered, reused, panicked>>

\* A new session of the client: ids start over, and the messages of the retain
\* list are sent again in their order.
Reconnect ==
    /\ ~panicked
    /\ nextPacketID' = count % (MaxPacketID + 1)
    /\ unanswered' = {[id |-> WireId(SentId(i - 1)), mid |-> buf[i]] : i \in 1..count}
    /\ reused' = (reused \/ \E i \in 2..count : WireId(SentId(i - 1)) = 0)
    /\ UNCHANGED <<buf, count, delivered, acked, zeroAcks, panicked>>

InflightNext ==
    \/ DeliverQos1
    \/ Reconnect
    \/ \E p \in unanswered : PubAck(p)

InflightSpec == InflightInit /\ [][InflightNext]_inflightVars

---------------------------------------------------------------------------
(* Properties *)

\* Every acknowledgement is for id 0 or removes nothing, whatever the client
\* answers: what has left the list is no more than the PUBACKs for id 0.
RemovedByAnswer == ~panicked => delivered - count <= zeroAcks

\* resize and Remove move the messages about, but the list is always the last
\* messages that were delivered, without a gap and in their order: a PUBACK takes
\* the oldest, and the next session sends the others again in this order.
LastDelivered == ~panicked => Retained = [i \in 1..count |-> delivered - count + i]

\* As long as no session has sent a second message that the client reads as id 0
\* (with the masks of writeUint16 its 17th), a message that the client has not
\* acknowledged stays in the list, although ids start over with every session.
UnackedRetained ==
    ~panicked /\ ~reused => \A m \in 1..delivered : m \in acked \/ m \in Range(Retained)

\* All three: what the next session sends again after deliveries, acknowledgements
\* in any order, growth and shrinkage of the list.
RetainListHolds == LastDelivered /\ RemovedByAnswer /\ UnackedRetained

-----------------------------------------------------------------------------
(* What the code does not keep: TLC has a counterexample to each, see the   *)
(* known disagreements in the README.                                       *)

\* The retain list holds "the message list waiting for PUBACK" (queue.go).
WaitingForPuback == \A m \in acked : m \notin Range(Retained)

\* A PUBACK is for the message that was sent under its id: a message is kept until
\* the client has answered it.
KeptUntilAnswered == ~panicked => \A m \in 1..delivered : m \in acked \/ m \in Range(Retained)

\* Pushback pushes the message at the tail of the list; it does not fail.
PushbackWorks == ~panicked
============================================================================
