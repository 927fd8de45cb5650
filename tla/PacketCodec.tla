---------------------------- MODULE PacketCodec ----------------------------
(* broker/mqtt/mqtt_packet.go, with the functions of mqtt_session.go that     *)
(* build packets: a PUBLISH or an acknowledgement is written field by field,  *)
(* crosses a network that cuts the stream into fragments, and is decoded and  *)
(* read field by field.  Bytes of the remaining length and of 16-bit words    *)
(* are kept; of topics and payloads only the lengths.                         *)
EXTENDS Integers, Sequences, FiniteSetsExt

CONSTANTS
    TopicLens, PayloadLens, Pids,   \* packets to send
    CopyBuffer,                     \* size of the buffer of io.Copy
    NoMsg                           \* no packet on its way, nothing read

VARIABLES
    st,         \* progress of the packet
    msg,        \* packet being sent
    header,     \* bytes of the remaining length still in the stream
    packet,     \* mqttPacket: remainingCount, remainingMult, remainingLength
    kept,       \* bytes in p.buf after the body has been read
    result      \* fields that the reader has got

codecVars == <<st, msg, header, packet, kept, result>>

PublishPacket == [kind: {"publish"}, topic: TopicLens, payload: PayloadLens, qos: {0, 1}, pid: Pids]
           \cup [kind: {"ack"}, topic: {0}, payload: {0}, qos: {1}, pid: Pids]

Uint16 == 0..65535

\* Lengths are natural numbers, packet ids have 16 bits, NoMsg is no packet.
ASSUME CodecAssumption ==
    /\ TopicLens \subseteq Nat /\ PayloadLens \subseteq Nat /\ Pids \subseteq Uint16
    /\ NoMsg \notin PublishPacket

NewPacket == [remainingCount |-> 0, remainingMult |-> 1, remainingLength |-> 0]

CodecInit ==
    /\ st = "idle"
    /\ msg = NoMsg
    /\ header = <<>>
    /\ packet = NewPacket
    /\ kept = 0
    /\ result = NoMsg

---------------------------------------------------------------------------
(* Writing *)

\* Number of bytes initializePacket takes for a remaining length; 5 is refused.
RemainingCount(n) == Min({k \in 0..4 : n < 128 ^ k} \cup {5})

\* Faulty variant: no continuation bits.
NoContinuation(n) ==
    [i \in 1..RemainingCount(n) |-> (n \div 128 ^ (i - 1)) % 128]

\* Seven bits per byte, the lowest first, with bit 7 set when more follow.
RemainingBytes(n) ==
    [i \in 1..RemainingCount(n) |->
        ((n \div 128 ^ (i - 1)) % 128) + (IF i < RemainingCount(n) THEN 128 ELSE 0)]

\* sendPublish adds up the fields, sendCommandWithPacketID has the id only.
RemainingLength(m) ==
    IF m.kind = "ack" THEN 2 ELSE 2 + m.topic + m.payload + 2 * m.qos

\* writeUint16: msb := (data >> 8) & 0xF, lsb := data & 0xF.
WriteUint16(v) == <<(v \div 256) % 16, v % 16>>

\* The two bytes that sendCommandWithPacketID puts into the payload.
PutPacketID(v) == <<v \div 256, v % 256>>

\* Callers do not look at the error of initializePacket: a packet that is too
\* long has length 0 and writePacket writes nothing.
SendPacket(m) ==
    LET n == RemainingLength(m)
    IN  /\ st = "idle"
        /\ msg' = m
        /\ st' = IF RemainingCount(n) = 5 THEN "refused" ELSE "length"
        /\ header' = IF RemainingCount(n) = 5 THEN <<>> ELSE RemainingBytes(n)
        /\ UNCHANGED <<packet, kept, result>>

---------------------------------------------------------------------------
(* DecodeFromReader *)

\* One round of the loop that computes the remaining length.
DecodeLengthByte ==
    LET b == Head(header)
    IN  /\ st = "length" /\ header # <<>>
        /\ header' = Tail(header)
        /\ packet' = [remainingCount |-> packet.remainingCount - 1,
                      remainingMult |-> packet.remainingMult * 128,
                      remainingLength |-> packet.remainingLength
                                              + (b % 128) * packet.remainingMult]
        /\ st' = IF packet.remainingCount - 1 < -4 THEN "error"
                 ELSE IF b >= 128 THEN "length" ELSE "body"
        /\ UNCHANGED <<msg, kept, result>>

\* io.CopyN(p, r, toprocess) calls p.Write for every fragment it reads, and
\* Write keeps the fragment in place of the one before.  A fragment is no longer
\* than the buffer; the last one is anything from one byte to all of the body.
LastFragments(n) ==
    LET most == Min({n, CopyBuffer})
    IN  {k \in {1, most - 1, most} : k \in 1..most}

DecodeBody ==
    /\ st = "body"
    /\ \E k \in LastFragments(packet.remainingLength) : kept' = k
    /\ st' = "decoded"
    /\ packet' = [packet EXCEPT !.remainingCount = 0 - @]
    /\ UNCHANGED <<msg, header, result>>

\* The connection ends inside of the packet.
DecodeFails ==
    /\ st \in {"length", "body"}
    /\ st' = "error"
    /\ UNCHANGED <<msg, header, packet, kept, result>>

---------------------------------------------------------------------------
(* Reading the fields *)

ReadUint16(bytes) == bytes[1] * 256 + bytes[2]

\* The id of a PUBACK, or topic, id and payload of a PUBLISH as handlePublish
\* reads them: readString, readUint16, readBytes.  pos is the reader's position.
\* When fragments were lost, or a field is taken for another, what is read is
\* not what was sent.
ReadFields ==
    LET n == packet.remainingLength
        w == ReadUint16(WriteUint16(msg.topic))
        fields == IF msg.kind = "ack"
                  THEN [topic |-> 0, payload |-> 0, pid |-> ReadUint16(PutPacketID(msg.pid))]
                  ELSE [topic |-> w, payload |-> n - 2 - w - 2 * msg.qos,
                        pid |-> IF msg.qos = 0 THEN 0 ELSE ReadUint16(WriteUint16(msg.pid))]
    IN  /\ st = "decoded"
        /\ \/ /\ kept < n \/ (msg.kind = "publish" /\ w # msg.topic)
              /\ st' = "misread" /\ UNCHANGED result
           \/ /\ kept = n /\ (msg.kind = "ack" \/ w = msg.topic)
              /\ st' = "read" /\ result' = fields
        /\ UNCHANGED <<msg, header, packet, kept>>

\* The next packet starts with a new mqttPacket.
NextPacket ==
    /\ st \in {"read", "misread", "refused", "error"}
    /\ st' = "idle" /\ msg' = NoMsg /\ header' = <<>>
    /\ packet' = NewPacket /\ kept' = 0 /\ result' = NoMsg

CodecNext ==
    \/ \E m \in PublishPacket : SendPacket(m)
    \/ DecodeLengthByte \/ DecodeBody \/ DecodeFails \/ ReadFields \/ NextPacket

CodecSpec == CodecInit /\ [][CodecNext]_codecVars

---------------------------------------------------------------------------
(* Properties *)

\* MQTT_MAX_PAYLOAD, what four bytes of seven bits can say.
MaxPayload == 268435455

\* The decoder computes the remaining length that initializePacket wrote and
\* stops exactly at the end of the length, at every boundary of one to four
\* bytes; only a packet of more than MQTT_MAX_PAYLOAD bytes is not sent.
LengthRoundTrip ==
    /\ st \in {"body", "decoded"} =>
          header = <<>> /\ packet.remainingLength = RemainingLength(msg)
    /\ st = "refused" <=> (msg # NoMsg /\ st # "idle" /\ RemainingLength(msg) > MaxPayload)

\* What handlePubAck reads from an acknowledgement is the id that
\* sendCommandWithPacketID wrote, for every 16-bit id.
AckRoundTrip ==
    st = "read" /\ msg.kind = "ack" => result.pid = msg.pid

\* The parts of the codec whose reader undoes the writer.
RoundTrip == LengthRoundTrip /\ AckRoundTrip

-----------------------------------------------------------------------------
(* What the code does not keep: TLC has a counterexample to each, see the   *)
(* known disagreements in the README.                                       *)

\* A PUBLISH is read as it was written: readUint16 undoes writeUint16, which
\* "write[s] word into packet" (mqtt_packet.go).
PublishRoundTrip ==
    (st \in {"read", "misread"} /\ msg.kind = "publish" /\ kept = packet.remainingLength)
        => /\ st = "read"
           /\ result.topic = msg.topic /\ result.payload = msg.payload
           /\ msg.qos = 1 => result.pid = msg.pid

\* DecodeFromReader decodes the packet, all of it, however the reader's data
\* is cut into fragments.
WholePacketKept == st = "decoded" => kept = packet.remainingLength
============================================================================
