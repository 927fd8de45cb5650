--------------------------- MODULE ServiceProofs ----------------------------
(* Theorems about what a process learns from others: what services of the broker *)
(* and the hub keep of a store that others change, the cache of the secrets of *)
(* devices and the list of services from ZooKeeper; the lengths in the MQTT    *)
(* packets of a client; and the messages of the bus, which a consumer         *)
(* gives to its handler in their order, and of which a broker delivers those of *)
(* other brokers once.                                                        *)
EXTENDS AuthService, ServiceWatcher, PacketCodec, KafkaBus,
        BrokerCluster, Integers, TLAPS

-----------------------------------------------------------------------------
(* The consumer of the message bus.                                           *)

\* Positions h were handled, in their order, of those from f on and before n, in a log
\* of length l; all of them as long as nobody else takes messages.
Follows(h, f, n, l, alone) ==
    /\ f <= n /\ n <= l + 1
    /\ \A i, j \in 1 .. Len(h) : i < j => h[i] < h[j]
    /\ \A i \in 1 .. Len(h) : f <= h[i] /\ h[i] < n
    /\ alone => Len(h) = n - f /\ \A i \in 1 .. Len(h) : h[i] = f + i - 1

Labels == {"absent", "select", "handle", "blocked", "ended"}

KafkaTypeOK ==
    /\ log \in [Partitions -> Seq(Messages)]
    /\ handled \in [Partitions -> Seq(Nat)]
    /\ next \in [Partitions -> Nat] /\ from \in [Partitions -> Nat]
    /\ goroutine \in [Partitions -> Labels]
    /\ last \in [Partitions -> Int]

KafkaInv ==
    /\ KafkaTypeOK
    /\ \A p \in Partitions :
          Follows(handled[p], from[p], next[p], Len(log[p]), p \notin dying)
    /\ \A p \in Partitions : goroutine[p] = "absent" => handled[p] = <<>>
    /\ \A p \in Partitions : p \in pcClosed => last[p] <= Len(log[p])

\* A sequence is a function of its positions.
LEMMA SequenceIsFunction ==
    ASSUME NEW h \in Seq(Nat)
    PROVE  h = [i \in 1 .. Len(h) |-> h[i]]
OBVIOUS

\* A message that is stored leaves what was handled as it is.
LEMMA FollowsStored ==
    ASSUME NEW h \in Seq(Nat), NEW f \in Nat, NEW n \in Nat, NEW l \in Nat, NEW a \in BOOLEAN,
           Follows(h, f, n, l, a)
    PROVE  Follows(h, f, n, l + 1, a)
BY DEF Follows

\* Of two places in a sequence that is longer by one, the earlier is not the new one.
LEMMA EarlierPlaces ==
    ASSUME NEW k \in Nat, NEW i \in 1 .. k + 1, NEW j \in 1 .. k + 1, i < j
    PROVE  i \in 1 .. k /\ (j \in 1 .. k \/ j = k + 1)
OBVIOUS

\* A position before the next one is in the log.
LEMMA PositionInLog ==
    ASSUME NEW f \in Nat, NEW i \in Nat, NEW n \in Nat, NEW k \in Nat,
           f <= i, i < n, n <= k + 1
    PROVE  i \in f .. k
OBVIOUS

\* The message at the position follows those handled.
LEMMA FollowsTaken ==
    ASSUME NEW h \in Seq(Nat), NEW f \in Nat, NEW n \in Nat, NEW l \in Nat, NEW a \in BOOLEAN,
           Follows(h, f, n, l, a), n <= l
    PROVE  Append(h, n) \in Seq(Nat) /\ Follows(Append(h, n), f, n + 1, l, a)
<1> DEFINE g == Append(h, n)
<1>1. /\ g \in Seq(Nat) /\ Len(g) = Len(h) + 1 /\ g[Len(h) + 1] = n /\ Len(h) \in Nat
      /\ \A i \in 1 .. Len(h) : g[i] = h[i] /\ h[i] \in Nat
    OBVIOUS
<1> HIDE DEF g
<1>6. /\ f <= n /\ \A i, j \in 1 .. Len(h) : i < j => h[i] < h[j]
      /\ \A i \in 1 .. Len(h) : f <= h[i] /\ h[i] < n
      /\ a => Len(h) = n - f /\ \A i \in 1 .. Len(h) : h[i] = f + i - 1
    BY Zenon DEF Follows
<1>2. \A i, j \in 1 .. Len(g) : i < j => g[i] < g[j]
    <2> SUFFICES ASSUME NEW i \in 1 .. Len(g), NEW j \in 1 .. Len(g), i < j
                 PROVE  g[i] < g[j]
        OBVIOUS
    <2>1. i \in 1 .. Len(h) /\ (j \in 1 .. Len(h) \/ j = Len(h) + 1)
        <3>1. PICK k \in Nat : k = Len(h) /\ Len(g) = k + 1
            BY <1>1, Zenon
        <3>2. i \in 1 .. k + 1 /\ j \in 1 .. k + 1
            BY <3>1, Zenon
        <3>3. i \in 1 .. k /\ (j \in 1 .. k \/ j = k + 1)
            BY <3>2, EarlierPlaces
        <3> QED BY <3>1, <3>3, Zenon
    <2>2. CASE j \in 1 .. Len(h)
        BY <1>1, <1>6, <2>1, <2>2, Zenon
    <2>3. CASE j = Len(h) + 1
        BY <1>1, <1>6, <2>1, <2>3, Zenon
    <2> QED BY <2>1, <2>2, <2>3
<1>3. \A i \in 1 .. Len(g) : f <= g[i] /\ g[i] < n + 1
    <2>1. \A i \in 1 .. Len(g) : i \in 1 .. Len(h) \/ i = Len(h) + 1
        BY <1>1
    <2>2. n < n + 1 /\ \A k \in Nat : k < n => k < n + 1
        OBVIOUS
    <2> QED BY <1>1, <1>6, <2>1, <2>2, Zenon
<1>4. a => Len(g) = (n + 1) - f /\ \A i \in 1 .. Len(g) : g[i] = f + i - 1
    <2> SUFFICES ASSUME a PROVE Len(g) = (n + 1) - f /\ \A i \in 1 .. Len(g) : g[i] = f + i - 1
        OBVIOUS
    <2>1. \A i \in 1 .. Len(g) : i \in 1 .. Len(h) \/ i = Len(h) + 1
        BY <1>1
    <2>2. Len(h) = n - f
        BY <1>6, Zenon
    <2>3. Len(g) = (n + 1) - f /\ f + (Len(h) + 1) - 1 = n
        BY <1>1, <2>2
    <2> QED BY <1>1, <1>6, <2>1, <2>3, Zenon
<1>5. f <= n + 1 /\ n + 1 <= l + 1
    BY DEF Follows
<1> QED
    BY <1>1, <1>2, <1>3, <1>4, <1>5, Zenon DEF Follows, g

\* A message that is dropped leaves a gap.
LEMMA FollowsDrained ==
    ASSUME NEW h \in Seq(Nat), NEW f \in Nat, NEW n \in Nat, NEW l \in Nat, NEW a \in BOOLEAN,
           Follows(h, f, n, l, a), n <= l
    PROVE  Follows(h, f, n + 1, l, FALSE)
BY DEF Follows

\* Once Close takes messages as well, nothing is said about gaps.
LEMMA FollowsClosed ==
    ASSUME NEW h, NEW f, NEW n, NEW l, NEW a, NEW b, Follows(h, f, n, l, a), b => a
    PROVE  Follows(h, f, n, l, b)
BY Zenon DEF Follows

\* A consumer that begins has handled nothing and is behind the newest message.
LEMMA FollowsStart ==
    ASSUME NEW l \in Nat, NEW a
    PROVE  Follows(<<>>, l + 1, l + 1, l, a)
BY DEF Follows

\* The consumer before its start satisfies the invariant.
LEMMA KafkaStart == KafkaInit => KafkaInv
<1> SUFFICES ASSUME KafkaInit PROVE KafkaInv
    OBVIOUS
<1>1. Follows(<<>>, 1, 1, 0, TRUE)
    BY DEF Follows
<1>2. \A p \in Partitions : /\ handled[p] = <<>> /\ from[p] = 1 /\ next[p] = 1
                            /\ Len(log[p]) = 0 /\ (p \notin dying) = TRUE
    BY DEF KafkaInit
<1>3. KafkaTypeOK
    BY DEF KafkaInit, KafkaTypeOK, Labels
<1>4. \A p \in Partitions : p \notin pcClosed
    BY DEF KafkaInit
<1> QED
    BY <1>1, <1>2, <1>3, <1>4, Zenon DEF KafkaInv

\* Steps that change no log and no position and give nothing to the handler.
LEMMA KafkaStill ==
    ASSUME KafkaInv, UNCHANGED <<log, next, from, handled, pcClosed, last>>,
           goroutine' \in [Partitions -> Labels], dying \subseteq dying',
           \A p \in Partitions : goroutine'[p] = "absent" => goroutine[p] = "absent"
    PROVE  KafkaInv'
<1>1. ASSUME NEW p \in Partitions
      PROVE  Follows(handled[p], from[p], next[p], Len(log[p]), p \notin dying')
    <2>1. Follows(handled[p], from[p], next[p], Len(log[p]), p \notin dying)
        BY Zenon DEF KafkaInv
    <2>2. p \notin dying' => p \notin dying
        BY Zenon
    <2> QED BY <2>1, <2>2, FollowsClosed, Zenon
<1> QED BY <1>1, Zenon DEF KafkaInv, KafkaTypeOK, Follows

\* A message that is stored in a partition.
LEMMA KafkaStores ==
    ASSUME KafkaInv, NEW m \in Messages, NEW p \in Partitions,
           log' = [log EXCEPT ![p] = Append(@, m)], UNCHANGED consumerVars
    PROVE  KafkaInv'
<1>1. log'[p] = Append(log[p], m) /\ \A q \in Partitions \ {p} : log'[q] = log[q]
    BY DEF KafkaInv, KafkaTypeOK
<1>2. /\ log[p] \in Seq(Messages) /\ handled[p] \in Seq(Nat) /\ next[p] \in Nat /\ from[p] \in Nat
      /\ last[p] \in Int
      /\ Follows(handled[p], from[p], next[p], Len(log[p]), p \notin dying)
    BY Zenon DEF KafkaInv, KafkaTypeOK
<1>3. Len(log[p]) \in Nat /\ Len(log'[p]) = Len(log[p]) + 1 /\ log'[p] \in Seq(Messages)
    BY <1>1, <1>2
<1>4. Follows(handled[p], from[p], next[p], Len(log'[p]), p \notin dying)
    BY <1>2, <1>3, FollowsStored, Zenon
<1>5. p \in pcClosed => last[p] <= Len(log'[p])
    BY <1>2, <1>3 DEF KafkaInv
<1>6. UNCHANGED <<next, from, goroutine, dying, pcClosed, last, handled>>
    BY Zenon DEF consumerVars, closeVars
<1>7. KafkaTypeOK'
    BY <1>3, <1>6 DEF KafkaInv, KafkaTypeOK
<1>8. \A q \in Partitions :
          /\ Follows(handled[q], from[q], next[q], Len(log'[q]), q \notin dying)
          /\ q \in pcClosed => last[q] <= Len(log'[q])
    BY <1>1, <1>4, <1>5, Zenon DEF KafkaInv
<1> QED
    BY <1>6, <1>7, <1>8, Zenon DEF KafkaInv, Follows

\* A goroutine, or that of Close, moves on to the next message of its partition.
LEMMA KafkaMoves ==
    ASSUME KafkaInv, NEW p \in Partitions, NEW h \in Seq(Nat),
           handled' = [handled EXCEPT ![p] = h], next' = [next EXCEPT ![p] = @ + 1],
           Follows(h, from[p], next[p] + 1, Len(log[p]), p \notin dying),
           goroutine' \in [Partitions -> Labels], goroutine'[p] # "absent",
           \A q \in Partitions : goroutine'[q] = "absent" => goroutine[q] = "absent",
           UNCHANGED <<log, from, dying, pcClosed, last>>
    PROVE  KafkaInv'
<1>1. /\ handled \in [Partitions -> Seq(Nat)] /\ next \in [Partitions -> Nat]
    BY Zenon DEF KafkaInv, KafkaTypeOK
<1>2. /\ handled' \in [Partitions -> Seq(Nat)] /\ next' \in [Partitions -> Nat]
      /\ handled'[p] = h /\ next'[p] = next[p] + 1
      /\ \A q \in Partitions \ {p} : handled'[q] = handled[q] /\ next'[q] = next[q]
    BY <1>1
<1>3. KafkaTypeOK'
    BY <1>2, Zenon DEF KafkaInv, KafkaTypeOK
<1>4. \A q \in Partitions : Follows(handled'[q], from[q], next'[q], Len(log[q]), q \notin dying)
    BY <1>2, Zenon DEF KafkaInv
<1>5. \A q \in Partitions : goroutine'[q] = "absent" => handled'[q] = <<>>
    BY <1>2, Zenon DEF KafkaInv
<1>6. (\A q \in Partitions : Follows(handled[q], from[q], next[q], Len(log[q]), q \notin dying))'
    BY <1>4, Zenon DEF Follows
<1>7. (\A q \in Partitions : q \in pcClosed => last[q] <= Len(log[q]))'
    BY Zenon DEF KafkaInv
<1> QED
    BY <1>3, <1>5, <1>6, <1>7, Zenon DEF KafkaInv

\* The message that a goroutine takes, or that Close drops, lies in the log.
LEMMA InTheLog ==
    ASSUME KafkaInv, NEW p \in Partitions, next[p] <= Fetched(p)
    PROVE  next[p] <= Len(log[p])
<1>1. log[p] \in Seq(Messages) /\ next[p] \in Nat /\ last[p] \in Int
    BY Zenon DEF KafkaInv, KafkaTypeOK
<1>2. p \in pcClosed => last[p] <= Len(log[p])
    BY Zenon DEF KafkaInv
<1>3. Len(log[p]) \in Nat
    BY <1>1
<1> QED BY <1>1, <1>2, <1>3 DEF Fetched

\* Every step of producers, brokers of Kafka and goroutines keeps the invariant.
LEMMA KafkaStep == KafkaInv /\ [KafkaNext]_kafkaVars => KafkaInv'
<1> SUFFICES ASSUME KafkaInv, [KafkaNext]_kafkaVars PROVE KafkaInv'
    OBVIOUS
<1>t. goroutine \in [Partitions -> Labels]
    BY Zenon DEF KafkaInv, KafkaTypeOK
<1>g. ASSUME NEW p \in Partitions, NEW l \in Labels, l # "absent",
             goroutine' = [goroutine EXCEPT ![p] = l]
      PROVE  /\ goroutine' \in [Partitions -> Labels] /\ goroutine'[p] # "absent"
             /\ \A q \in Partitions : goroutine'[q] = "absent" => goroutine[q] = "absent"
    BY <1>t, <1>g
<1>2. ASSUME UNCHANGED log, UNCHANGED consumerVars PROVE KafkaInv'
    BY <1>2, <1>t, KafkaStill, Zenon DEF consumerVars, closeVars
<1>3. ASSUME NEW m \in Messages, SendMessage(m) \/ PostMessage(m) PROVE KafkaInv'
    BY <1>2, <1>3, KafkaStores, Zenon DEF SendMessage, PostMessage, Stored, Unreached
<1>4. CASE Outage
    BY <1>2, <1>4, Zenon DEF Outage
<1>5. CASE StartPartition
    <2>1. PICK p \in Pending :
             /\ goroutine' = [goroutine EXCEPT ![p] = "select"]
             /\ next' = [next EXCEPT ![p] = Len(log[p]) + 1]
             /\ from' = [from EXCEPT ![p] = Len(log[p]) + 1]
        BY <1>5, PartitionsAssumption, Zenon DEF StartPartition, Pending
    <2>2. p \in Partitions /\ handled[p] = <<>> /\ log[p] \in Seq(Messages)
        BY Zenon DEF Pending, KafkaInv, KafkaTypeOK
    <2>3. Len(log[p]) \in Nat /\ Len(log[p]) + 1 \in Nat
        BY <2>2
    <2>4. UNCHANGED <<log, handled, dying, pcClosed, last>>
        BY <1>5, Zenon DEF StartPartition, producerVars, closeVars
    <2>5. next \in [Partitions -> Nat] /\ from \in [Partitions -> Nat]
        BY Zenon DEF KafkaInv, KafkaTypeOK
    <2>6. /\ next' \in [Partitions -> Nat] /\ from' \in [Partitions -> Nat]
          /\ next'[p] = Len(log[p]) + 1 /\ from'[p] = Len(log[p]) + 1
          /\ \A q \in Partitions \ {p} : next'[q] = next[q] /\ from'[q] = from[q]
        BY <2>1, <2>2, <2>3, <2>5
    <2>7. /\ goroutine' \in [Partitions -> Labels]
          /\ \A q \in Partitions : goroutine'[q] = "absent" => goroutine[q] = "absent"
        BY <1>t, <2>1, <2>2 DEF Labels
    <2>8. Follows(<<>>, Len(log[p]) + 1, Len(log[p]) + 1, Len(log[p]), p \notin dying)
        BY <2>3, FollowsStart, Zenon
    <2>9. \A q \in Partitions :
              Follows(handled[q], from'[q], next'[q], Len(log[q]), q \notin dying)
        BY <2>2, <2>6, <2>8, Zenon DEF KafkaInv
    <2>10. KafkaTypeOK'
        BY <2>4, <2>6, <2>7, Zenon DEF KafkaInv, KafkaTypeOK
    <2> QED
        BY <2>4, <2>7, <2>9, <2>10, Zenon DEF KafkaInv, Follows
<1>6. CASE StartReturns \/ ClosePartition \/ CloseReturns \/ CloseBegins
    <2>1. UNCHANGED <<log, next, from, handled, pcClosed, last, goroutine>> /\ dying \subseteq dying'
        BY <1>6, Zenon DEF StartReturns, ClosePartition, CloseReturns, CloseBegins,
                           producerVars, closeVars
    <2> QED BY <1>t, <2>1, KafkaStill, Zenon
<1>7. ASSUME NEW p \in Partitions, PartitionError(p) PROVE KafkaInv'
    BY <1>7, <1>t, KafkaStill, Zenon DEF PartitionError, producerVars, closeVars
<1>8. ASSUME NEW p \in Partitions,
             TakeQuit(p) \/ TakeError(p) \/ HandlerReturns(p) \/ HandlerBlocks(p)
      PROVE  KafkaInv'
    <2>1. PICK l \in {"ended", "select", "blocked"} : goroutine' = [goroutine EXCEPT ![p] = l]
        BY <1>8, Zenon DEF TakeQuit, TakeError, HandlerReturns, HandlerBlocks
    <2>2. l \in Labels /\ l # "absent"
        BY DEF Labels
    <2>3. UNCHANGED <<log, next, from, handled, dying, pcClosed, last>>
        BY <1>8, Zenon DEF TakeQuit, TakeError, HandlerReturns, HandlerBlocks, producerVars, closeVars
    <2> QED BY <1>g, <2>1, <2>2, <2>3, KafkaStill, Zenon
<1>9. ASSUME NEW p \in Partitions, TakeMessage(p) PROVE KafkaInv'
    <2>0. UNCHANGED <<log, from, dying, pcClosed, last>>
        BY <1>9, Zenon DEF TakeMessage, producerVars, closeVars
    <2>1. CASE UNCHANGED <<handled, next, goroutine>>
        BY <1>t, <2>0, <2>1, KafkaStill, Zenon
    <2>2. CASE /\ next[p] <= Fetched(p)
               /\ handled' = [handled EXCEPT ![p] = Append(@, next[p])]
               /\ next' = [next EXCEPT ![p] = @ + 1]
               /\ goroutine' = [goroutine EXCEPT ![p] = "handle"]
        <3> DEFINE h == Append(handled[p], next[p])
        <3>1. /\ log[p] \in Seq(Messages) /\ handled[p] \in Seq(Nat) /\ next[p] \in Nat
              /\ from[p] \in Nat /\ (p \notin dying) \in BOOLEAN
              /\ Follows(handled[p], from[p], next[p], Len(log[p]), p \notin dying)
            BY Zenon DEF KafkaInv, KafkaTypeOK
        <3>2. Len(log[p]) \in Nat /\ next[p] <= Len(log[p])
            BY <2>2, <3>1, InTheLog
        <3>3. h \in Seq(Nat) /\ Follows(h, from[p], next[p] + 1, Len(log[p]), p \notin dying)
            BY <3>1, <3>2, FollowsTaken, Zenon
        <3>4. handled' = [handled EXCEPT ![p] = h]
            BY <2>2, Zenon
        <3>5. "handle" \in Labels /\ "handle" # "absent"
            BY DEF Labels
        <3> HIDE DEF h
        <3> QED BY <1>g, <2>0, <2>2, <3>3, <3>4, <3>5, KafkaMoves, Zenon
    <2> QED
        BY <1>9, <2>1, <2>2, Zenon DEF TakeMessage
<1>10. ASSUME NEW p \in Partitions, Drain(p) PROVE KafkaInv'
    <2>1. /\ next[p] <= Fetched(p) /\ next' = [next EXCEPT ![p] = @ + 1] /\ p \in dying
          /\ UNCHANGED <<log, from, goroutine, dying, pcClosed, last, handled>>
        BY <1>10, Zenon DEF Drain, producerVars, closeVars
    <2>2. /\ log[p] \in Seq(Messages) /\ handled[p] \in Seq(Nat) /\ next[p] \in Nat
          /\ from[p] \in Nat /\ (p \notin dying) \in BOOLEAN
          /\ Follows(handled[p], from[p], next[p], Len(log[p]), p \notin dying)
        BY Zenon DEF KafkaInv, KafkaTypeOK
    <2>3. Len(log[p]) \in Nat /\ next[p] <= Len(log[p])
        BY <2>1, <2>2, InTheLog
    <2>4. Follows(handled[p], from[p], next[p] + 1, Len(log[p]), FALSE)
        BY <2>2, <2>3, FollowsDrained, Zenon
    <2>5. next \in [Partitions -> Nat]
        BY Zenon DEF KafkaInv, KafkaTypeOK
    <2>6. /\ next' \in [Partitions -> Nat] /\ next'[p] = next[p] + 1
          /\ \A q \in Partitions \ {p} : next'[q] = next[q]
        BY <2>1, <2>5
    <2>7. Follows(handled[p], from[p], next'[p], Len(log[p]), p \notin dying)
        BY <2>1, <2>4, <2>6, FollowsClosed, Zenon
    <2>8. \A q \in Partitions :
              Follows(handled[q], from[q], next'[q], Len(log[q]), q \notin dying)
        BY <2>6, <2>7, Zenon DEF KafkaInv
    <2> QED
        BY <2>1, <2>6, <2>8, Zenon DEF KafkaInv, KafkaTypeOK, Follows
<1>11. ASSUME NEW p \in Partitions, FeederEnds(p) PROVE KafkaInv'
    <2>1. /\ UNCHANGED <<log, next, from, goroutine, dying, handled>>
          /\ pcClosed' = pcClosed \cup {p}
        BY <1>11, Zenon DEF FeederEnds, producerVars
    <2>2. PICK n \in next[p] - 1 .. Len(log[p]) : last' = [last EXCEPT ![p] = n]
        BY <1>11, Zenon DEF FeederEnds
    <2>3. log[p] \in Seq(Messages) /\ next[p] \in Nat /\ last \in [Partitions -> Int]
        BY Zenon DEF KafkaInv, KafkaTypeOK
    <2>4. n \in Int /\ n <= Len(log[p])
        BY <2>2, <2>3
    <2>5. /\ last' \in [Partitions -> Int] /\ last'[p] = n
          /\ \A q \in Partitions \ {p} : last'[q] = last[q]
        BY <2>2, <2>3, <2>4
    <2>6. \A q \in Partitions : q \in pcClosed' => last'[q] <= Len(log[q])
        BY <2>1, <2>4, <2>5, Zenon DEF KafkaInv
    <2> QED
        BY <2>1, <2>5, <2>6, Zenon DEF KafkaInv, KafkaTypeOK, Follows
<1>12. CASE UNCHANGED kafkaVars
    BY <1>2, <1>12, Zenon DEF kafkaVars, consumerVars, closeVars
<1> QED
    BY <1>3, <1>4, <1>5, <1>6, <1>7, <1>8, <1>9, <1>10, <1>11, <1>12, Zenon
       DEF KafkaNext, Control, Consumer

\* For any number of partitions and messages, and whatever errors and outages there
\* are, the handler of a consumer gets the messages of a partition in the order in
\* which they are stored, each at most once, and without a gap until Close, whose
\* goroutine takes messages too, is called for the partition (consumer_kafka.go).
THEOREM ConsumersKeepOrder == KafkaSpec => []InPartitionOrder
<1>1. KafkaInv => InPartitionOrder
    <2> SUFFICES ASSUME KafkaInv, NEW p \in Partitions
                 PROVE  /\ \A i, j \in DOMAIN handled[p] : i < j => handled[p][i] < handled[p][j]
                        /\ \A i \in DOMAIN handled[p] : handled[p][i] \in from[p] .. Len(log[p])
                        /\ p \notin dying =>
                              handled[p] = [i \in 1 .. next[p] - from[p] |-> from[p] + i - 1]
        BY DEF InPartitionOrder
    <2>1. /\ log[p] \in Seq(Messages) /\ handled[p] \in Seq(Nat) /\ next[p] \in Nat
          /\ from[p] \in Nat
          /\ Follows(handled[p], from[p], next[p], Len(log[p]), p \notin dying)
        BY Zenon DEF KafkaInv, KafkaTypeOK
    <2>2. DOMAIN handled[p] = 1 .. Len(handled[p])
        BY <2>1
    <2>3. \A i \in DOMAIN handled[p] : handled[p][i] \in from[p] .. Len(log[p])
        <3> SUFFICES ASSUME NEW i \in 1 .. Len(handled[p])
                     PROVE  handled[p][i] \in from[p] .. Len(log[p])
            BY <2>2, Zenon
        <3>1. from[p] <= handled[p][i] /\ handled[p][i] < next[p] /\ next[p] <= Len(log[p]) + 1
            BY <2>1, Zenon DEF Follows
        <3>2. handled[p][i] \in Nat /\ Len(log[p]) \in Nat
            BY <2>1
        <3> QED BY <2>1, <3>1, <3>2, PositionInLog, Zenon
    <2>4. ASSUME p \notin dying
          PROVE  handled[p] = [i \in 1 .. next[p] - from[p] |-> from[p] + i - 1]
        <3>1. handled[p] = [i \in 1 .. Len(handled[p]) |-> handled[p][i]]
            BY <2>1, SequenceIsFunction, Zenon
        <3>2. /\ Len(handled[p]) = next[p] - from[p]
              /\ \A i \in 1 .. Len(handled[p]) : handled[p][i] = from[p] + i - 1
            BY <2>1, <2>4, Zenon DEF Follows
        <3> QED BY <3>1, <3>2, Zenon
    <2> QED
        BY <2>1, <2>2, <2>3, <2>4, Zenon DEF Follows
<1> QED
    BY <1>1, KafkaStart, KafkaStep, PTL DEF KafkaSpec

-----------------------------------------------------------------------------
(* The brokers that share the event bus.                                      *)

Events ==
    [type : {"create", "destroy", "subscribe", "unsubscribe", "publish"},
     broker : Brokers \cup {Service}, client : Clients, topic : {"events", "device"},
     persistent : BOOLEAN, typed : BOOLEAN, id : Nat]

ClusterType ==
    /\ bus \in Seq(Events)
    /\ \A k \in 1 .. Len(bus) : bus[k].id = k
    /\ offset \in [Brokers -> Nat]
    /\ \A b \in Brokers : offset[b] <= Len(bus)
    /\ phase \in [Brokers -> {"down", "consuming", "subscribing", "up"}]
    /\ delivered \in [Brokers -> Seq(Nat)]

\* The message that a consumer goroutine has in its hands.
InHand(b) == b \in reading =>
    phase[b] # "down" /\ offset[b] < Len(bus) /\ bus[offset[b] + 1].broker # b

\* A publish that the broker has given to its topic tree is on the bus; it is one of its
\* own, or one that its consumer goroutine is past.
Past(log1, o, b, k) == k \in 1 .. Len(log1) /\ (log1[k].broker = b \/ k <= o)

\* Publishes that were given to the tree, none of them twice.
Given(log1, o, b, s) ==
    /\ \A i \in 1 .. Len(s) : Past(log1, o, b, s[i])
    /\ \A i, j \in 1 .. Len(s) : s[i] = s[j] => i = j

ClusterInv ==
    /\ ClusterType
    /\ \A b \in Brokers : InHand(b)
    /\ \A b \in Brokers : Given(bus, offset[b], b, delivered[b])

\* One more publish is given to the tree.
LEMMA GivenAppend ==
    ASSUME NEW s \in Seq(Nat), NEW x \in Nat, NEW l, NEW o, NEW b,
           Given(l, o, b, s), Past(l, o, b, x), \A i \in 1 .. Len(s) : s[i] # x
    PROVE  Given(l, o, b, Append(s, x))
<1> DEFINE t == Append(s, x)
<1>1. Len(t) = Len(s) + 1 /\ Len(s) \in Nat /\ t[Len(s) + 1] = x
    OBVIOUS
<1>2. \A i \in 1 .. Len(s) : t[i] = s[i]
    OBVIOUS
<1>3. \A i \in 1 .. Len(t) : i \in 1 .. Len(s) \/ i = Len(s) + 1
    BY <1>1
<1> HIDE DEF t
<1>4. \A i \in 1 .. Len(t) : Past(l, o, b, t[i])
    BY <1>1, <1>2, <1>3, Zenon DEF Given
<1>5. ASSUME NEW i \in 1 .. Len(t), NEW j \in 1 .. Len(t), t[i] = t[j] PROVE i = j
    <2>1. CASE i \in 1 .. Len(s) /\ j \in 1 .. Len(s)
        BY <1>2, <1>5, <2>1, Zenon DEF Given
    <2>2. CASE i = Len(s) + 1 /\ j = Len(s) + 1
        BY <2>2, Zenon
    <2>3. CASE i \in 1 .. Len(s) /\ j = Len(s) + 1
        BY <1>1, <1>2, <1>5, <2>3, Zenon
    <2>4. CASE j \in 1 .. Len(s) /\ i = Len(s) + 1
        BY <1>1, <1>2, <1>5, <2>4, Zenon
    <2> QED
        BY <1>3, <2>1, <2>2, <2>3, <2>4, Zenon
<1>6. Given(l, o, b, t)
    BY <1>4, <1>5, Zenon DEF Given
<1> QED
    BY <1>6 DEF t

\* Brokers that are down satisfy the invariant.
LEMMA ClusterStart == ClusterInit => ClusterInv
<1> SUFFICES ASSUME ClusterInit PROVE ClusterInv
    OBVIOUS
<1>1. ClusterType
    BY DEF ClusterInit, ClusterType
<1>2. \A b \in Brokers : delivered[b] = <<>>
    BY DEF ClusterInit
<1>3. \A b \in Brokers : Given(bus, offset[b], b, delivered[b])
    BY <1>2 DEF Given
<1> QED
    BY <1>1, <1>3 DEF ClusterInit, ClusterInv, InHand

\* A message is posted: it gets the next number, and one that the broker gives to its
\* own topic tree is its own.
LEMMA ClusterPosts ==
    ASSUME ClusterInv, NEW m \in Events, m.id = Len(bus) + 1, Posted(m),
           \/ UNCHANGED delivered
           \/ \E b \in Brokers : /\ delivered' = [delivered EXCEPT ![b] = Append(@, Len(bus) + 1)]
                                 /\ m.broker = b
    PROVE  ClusterInv'
<1>1. bus' = Append(bus, m) /\ UNCHANGED <<offset, phase, reading>>
    BY DEF Posted
<1>2. Len(bus) \in Nat /\ Len(bus') = Len(bus) + 1 /\ bus'[Len(bus) + 1] = m /\ bus' \in Seq(Events)
    BY <1>1 DEF ClusterInv, ClusterType
<1>3. \A k \in 1 .. Len(bus) : bus'[k] = bus[k]
    BY <1>1 DEF ClusterInv, ClusterType
<1>4. \A k \in 1 .. Len(bus') : k \in 1 .. Len(bus) \/ k = Len(bus) + 1
    BY <1>2
<1>5. \A k \in 1 .. Len(bus') : bus'[k].id = k
    BY <1>2, <1>3, <1>4, Zenon DEF ClusterInv, ClusterType
<1>6. \A b \in Brokers : offset'[b] <= Len(bus')
    BY <1>1, <1>2 DEF ClusterInv, ClusterType
<1>7. \A s \in Seq(Nat) : Append(s, Len(bus) + 1) \in Seq(Nat)
    BY <1>2
<1>8. delivered' \in [Brokers -> Seq(Nat)]
    <2>1. delivered \in [Brokers -> Seq(Nat)]
        BY Zenon DEF ClusterInv, ClusterType
    <2>2. CASE UNCHANGED delivered
        BY <2>1, <2>2, Zenon
    <2>3. CASE \E b \in Brokers : delivered' = [delivered EXCEPT ![b] = Append(@, Len(bus) + 1)]
        <3> PICK b \in Brokers : delivered' = [delivered EXCEPT ![b] = Append(@, Len(bus) + 1)]
            BY <2>3, Zenon
        <3> DEFINE s == Append(delivered[b], Len(bus) + 1)
        <3>1. delivered[b] \in Seq(Nat)
            BY <2>1, Zenon
        <3>2. s \in Seq(Nat) /\ delivered' = [delivered EXCEPT ![b] = s]
            BY <1>7, <3>1, Zenon
        <3> HIDE DEF s
        <3> QED
            BY <2>1, <3>2
    <2> QED
        BY <2>2, <2>3, Zenon
<1>9. ClusterType'
    BY <1>1, <1>2, <1>5, <1>6, <1>8 DEF ClusterInv, ClusterType
<1>10. ASSUME NEW b \in Brokers PROVE InHand(b)'
    <2>1. offset[b] \in Nat /\ (b \in reading => offset[b] + 1 \in 1 .. Len(bus))
        BY <1>2 DEF ClusterInv, ClusterType, InHand
    <2> QED
        BY <1>1, <1>2, <1>3, <2>1 DEF ClusterInv, InHand
<1>11. \A b, o, k : Past(bus, o, b, k) => Past(bus', o, b, k) /\ k # Len(bus) + 1
    BY <1>2, <1>3 DEF Past
<1>12. ASSUME NEW b \in Brokers PROVE Given(bus', offset'[b], b, delivered'[b])
    <2>1. delivered[b] \in Seq(Nat) /\ Given(bus, offset[b], b, delivered[b])
        BY DEF ClusterInv, ClusterType
    <2>2. Given(bus', offset[b], b, delivered[b])
        BY <2>1, <1>11, Zenon DEF Given
    <2>3. offset'[b] = offset[b]
        BY <1>1
    <2>4. CASE delivered'[b] = delivered[b]
        BY <2>2, <2>3, <2>4, Zenon
    <2>5. CASE delivered'[b] = Append(delivered[b], Len(bus) + 1) /\ m.broker = b
        <3>1. \A i \in 1 .. Len(delivered[b]) : delivered[b][i] # Len(bus) + 1
            BY <2>1, <1>11, Zenon DEF Given
        <3>2. Past(bus', offset[b], b, Len(bus) + 1) /\ Len(bus) + 1 \in Nat
            BY <2>5, <1>2 DEF Past
        <3>3. Given(bus', offset[b], b, Append(delivered[b], Len(bus) + 1))
            BY <2>1, <2>2, <3>1, <3>2, GivenAppend
        <3> QED
            BY <2>3, <2>5, <3>3, Zenon
    <2> QED
        BY <2>4, <2>5 DEF ClusterInv, ClusterType
<1> QED
    BY <1>9, <1>10, <1>12 DEF ClusterInv

\* A consumer goroutine goes past the message in its hands, and gives it to the topic
\* tree at most.
LEMMA ClusterTakes ==
    ASSUME ClusterInv, NEW b \in Brokers, offset[b] < Len(bus), Advance(b),
           UNCHANGED <<bus, phase>>, reading' = reading \ {b},
           \/ UNCHANGED delivered
           \/ /\ bus[offset[b] + 1].broker # b
              /\ delivered' = [delivered EXCEPT ![b] = Append(@, bus[offset[b] + 1].id)]
    PROVE  ClusterInv'
<1>1. /\ offset' = [offset EXCEPT ![b] = @ + 1] /\ offset[b] \in Nat
      /\ offset[b] + 1 \in 1 .. Len(bus) /\ Len(bus) \in Nat
    BY DEF Advance, ClusterInv, ClusterType
<1>2. bus[offset[b] + 1].id = offset[b] + 1
    BY <1>1 DEF ClusterInv, ClusterType
<1>3. offset' \in [Brokers -> Nat] /\ \A c \in Brokers : offset'[c] <= Len(bus) /\ offset[c] <= offset'[c]
    BY <1>1 DEF ClusterInv, ClusterType
<1>4. \A s \in Seq(Nat) : Append(s, offset[b] + 1) \in Seq(Nat)
    BY <1>1
<1>5. delivered' \in [Brokers -> Seq(Nat)]
    <2>1. delivered' = delivered \/ delivered' = [delivered EXCEPT ![b] = Append(@, offset[b] + 1)]
        BY <1>2
    <2>2. delivered \in [Brokers -> Seq(Nat)] /\ delivered[b] \in Seq(Nat)
        BY DEF ClusterInv, ClusterType
    <2>3. Append(delivered[b], offset[b] + 1) \in Seq(Nat)
        BY <1>4, <2>2
    <2> QED
        BY <2>1, <2>2, <2>3, Zenon
<1>6. ClusterType'
    BY <1>3, <1>5, Zenon DEF ClusterInv, ClusterType
<1>7. \A c \in Brokers : InHand(c)'
    BY <1>1 DEF ClusterInv, ClusterType, InHand
<1>8. ASSUME NEW c \in Brokers PROVE Given(bus', offset'[c], c, delivered'[c])
    <2>1. delivered[c] \in Seq(Nat) /\ Given(bus, offset[c], c, delivered[c])
        BY DEF ClusterInv, ClusterType
    <2>2. \A k : Past(bus, offset[c], c, k) => Past(bus, offset'[c], c, k)
        <3>1. offset[c] \in Nat /\ offset'[c] \in Nat /\ offset[c] <= offset'[c]
            BY <1>3 DEF ClusterInv, ClusterType
        <3> QED
            BY <1>1, <3>1 DEF Past
    <2>3. Given(bus, offset'[c], c, delivered[c])
        BY <2>1, <2>2, Zenon DEF Given
    <2>4. CASE delivered'[c] = delivered[c]
        BY <2>3, <2>4, Zenon
    <2>5. CASE /\ c = b /\ delivered'[c] = Append(delivered[c], offset[b] + 1)
               /\ bus[offset[b] + 1].broker # b
        <3>1. \A k : Past(bus, offset[b], b, k) => k # offset[b] + 1
            BY <2>5, <1>1 DEF Past
        <3>2. \A i \in 1 .. Len(delivered[c]) : delivered[c][i] # offset[b] + 1
            BY <2>1, <2>5, <3>1, Zenon DEF Given
        <3>3. Past(bus, offset'[c], c, offset[b] + 1) /\ offset[b] + 1 \in Nat
            BY <2>5, <1>1 DEF Past, ClusterInv, ClusterType
        <3>4. Given(bus, offset'[c], c, Append(delivered[c], offset[b] + 1))
            BY <2>1, <2>3, <3>2, <3>3, GivenAppend
        <3> QED
            BY <2>5, <3>4, Zenon
    <2> QED
        BY <2>4, <2>5, <1>2 DEF ClusterInv, ClusterType
<1> QED
    BY <1>6, <1>7, <1>8 DEF ClusterInv

\* A message of the fields of eventBase is an event.
LEMMA IsEvent ==
    ASSUME NEW type \in {"create", "destroy", "subscribe", "unsubscribe", "publish"},
           NEW b \in Brokers \cup {Service}, NEW c \in Clients, NEW n \in Nat,
           NEW keep \in BOOLEAN, NEW typed \in BOOLEAN
    PROVE  [type |-> type, broker |-> b, client |-> c, topic |-> "events",
            persistent |-> keep, typed |-> typed, id |-> n] \in Events
    BY DEF Events

\* Every step of a broker, a client or a service keeps the invariant.
LEMMA ClusterStep == ClusterInv /\ [ClusterNext]_clusterVars => ClusterInv'
<1> SUFFICES ASSUME ClusterInv, [ClusterNext]_clusterVars PROVE ClusterInv'
    OBVIOUS
<1>1. ASSUME NEW b \in Brokers, StartConsumer(b) PROVE ClusterInv'
    <2>1. /\ phase[b] = "down" /\ phase' = [phase EXCEPT ![b] = "consuming"]
          /\ offset' = [offset EXCEPT ![b] = Len(bus)]
          /\ UNCHANGED <<bus, reading, delivered>>
        BY <1>1 DEF StartConsumer
    <2>2. Len(bus) \in Nat /\ offset[b] <= Len(bus) /\ offset[b] \in Nat
        <3>1. bus \in Seq(Events) /\ offset[b] <= Len(bus) /\ offset[b] \in Nat
            BY Zenon DEF ClusterInv, ClusterType
        <3>. QED BY <3>1
    <2>3. ClusterType'
        <3>1. /\ offset \in [Brokers -> Nat] /\ \A c \in Brokers : offset[c] <= Len(bus)
              /\ phase \in [Brokers -> {"down", "consuming", "subscribing", "up"}]
            BY Zenon DEF ClusterInv, ClusterType
        <3>2. offset' \in [Brokers -> Nat] /\ \A c \in Brokers : offset'[c] <= Len(bus)
            BY <2>1, <2>2, <3>1
        <3>3. phase' \in [Brokers -> {"down", "consuming", "subscribing", "up"}]
            BY <2>1, <3>1
        <3>. QED BY <2>1, <3>2, <3>3, Zenon DEF ClusterInv, ClusterType
    <2>4. \A c \in Brokers : InHand(c)'
        BY <2>1 DEF ClusterInv, ClusterType, InHand
    <2>5. ASSUME NEW c \in Brokers PROVE Given(bus', offset'[c], c, delivered'[c])
        <3>1. offset[c] \in Nat /\ offset'[c] \in Nat /\ offset[c] <= offset'[c]
            <4>1. offset \in [Brokers -> Nat]
                BY Zenon DEF ClusterInv, ClusterType
            <4>. QED BY <2>1, <2>2, <4>1
        <3>2. \A k : Past(bus, offset[c], c, k) => Past(bus, offset'[c], c, k)
            BY <2>2, <3>1 DEF Past
        <3> QED
            BY <2>1, <3>2, Zenon DEF Given, ClusterInv
    <2> QED
        BY <2>3, <2>4, <2>5, Zenon DEF ClusterInv
<1>2. ASSUME NEW b \in Brokers, SubscribeBegins(b) \/ SubscribeEnds(b) PROVE ClusterInv'
    <2>1. /\ \E v \in {"subscribing", "up"} : phase' = [phase EXCEPT ![b] = v]
          /\ UNCHANGED <<bus, offset, reading, delivered>>
        BY <1>2 DEF SubscribeBegins, SubscribeEnds
    <2>2. phase \in [Brokers -> {"down", "consuming", "subscribing", "up"}]
        BY Zenon DEF ClusterInv, ClusterType
    <2>3. /\ phase' \in [Brokers -> {"down", "consuming", "subscribing", "up"}]
          /\ \A c \in Brokers : phase'[c] = "down" => phase[c] = "down"
        BY <2>1, <2>2
    <2>4. ClusterType'
        BY <2>1, <2>3, Zenon DEF ClusterInv, ClusterType
    <2>5. \A c \in Brokers : InHand(c)'
        BY <2>1, <2>3, Zenon DEF ClusterInv, InHand
    <2> QED
        BY <2>1, <2>4, <2>5, Zenon DEF ClusterInv
<1>3. ASSUME NEW b \in Brokers, Skip(b) PROVE ClusterInv'
    <2>1. reading' = reading \ {b}
        BY <1>3, Zenon DEF Skip, Available
    <2> QED
        BY <1>3, <2>1, ClusterTakes, Zenon DEF Skip, Available
<1>4. ASSUME NEW b \in Brokers, ConsumeBegins(b) PROVE ClusterInv'
    BY <1>4, Zenon DEF ConsumeBegins, Available, PassesOn, NextMessage, ClusterInv, ClusterType, InHand
<1>5. ASSUME NEW b \in Brokers, Consume(b) PROVE ClusterInv'
    <2>1. offset[b] < Len(bus) /\ bus[offset[b] + 1].broker # b
        BY <1>5, Zenon DEF Consume, ClusterInv, InHand
    <2>2. \/ UNCHANGED delivered
          \/ delivered' = [delivered EXCEPT ![b] = Append(@, bus[offset[b] + 1].id)]
        BY <1>5 DEF Consume, HandleForeign, NextMessage
    <2> QED
        BY <1>5, <2>1, <2>2, ClusterTakes, Zenon DEF Consume
<1>6. ASSUME NEW c \in Clients, NEW b \in Brokers \cup {Service},
             NEW type \in {"create", "destroy", "subscribe", "unsubscribe", "publish"}
      PROVE  /\ Message(type, b, c) \in Events
             /\ Message(type, b, c).id = Len(bus) + 1 /\ Message(type, b, c).broker = b
    <2>1. bus \in Seq(Events)
        BY Zenon DEF ClusterInv, ClusterType
    <2>2. Len(bus) + 1 \in Nat
        BY <2>1
    <2>3. (c \in persistent') \in BOOLEAN /\ (b = Service) \in BOOLEAN
        OBVIOUS
    <2>4. Message(type, b, c) \in Events
        <3>1. PICK n \in Nat, keep \in BOOLEAN, typed \in BOOLEAN :
                  n = Len(bus) + 1 /\ keep = (c \in persistent') /\ typed = (b = Service)
            BY <2>2, <2>3, Zenon
        <3>2. [type |-> type, broker |-> b, client |-> c, topic |-> "events",
               persistent |-> keep, typed |-> typed, id |-> n] \in Events
            BY IsEvent
        <3> QED BY <3>1, <3>2, Zenon DEF Message
    <2> QED
        BY <2>4, Zenon DEF Message
<1>7. ASSUME NEW b \in Brokers, NEW c \in Clients, NEW keep \in BOOLEAN,
             SessionCreate(b, c, keep) PROVE ClusterInv'
    BY <1>6, <1>7, ClusterPosts DEF SessionCreate
<1>8. ASSUME NEW b \in Brokers, NEW c \in Clients, SessionDestroy(b, c) PROVE ClusterInv'
    BY <1>6, <1>8, ClusterPosts DEF SessionDestroy
<1>9. ASSUME NEW b \in Brokers, NEW c \in Clients, TopicSubscribe(b, c) PROVE ClusterInv'
    BY <1>6, <1>9, ClusterPosts DEF TopicSubscribe
<1>10. ASSUME NEW b \in Brokers, NEW c \in Clients, TopicUnsubscribe(b, c) PROVE ClusterInv'
    BY <1>6, <1>10, ClusterPosts DEF TopicUnsubscribe
<1>11. ASSUME NEW b \in Brokers, NEW c \in Clients, TopicPublish(b, c) PROVE ClusterInv'
    <2> DEFINE m == Message("publish", b, c)
    <2>1. m \in Events /\ m.id = Len(bus) + 1 /\ m.broker = b
        BY <1>6
    <2>2. Posted(m) /\ delivered' = [delivered EXCEPT ![b] = Append(@, Len(bus) + 1)]
        BY <1>11 DEF TopicPublish
    <2> HIDE DEF m
    <2> QED
        BY <2>1, <2>2, ClusterPosts, Zenon
<1>12. ASSUME NEW c \in Clients, ServicePublish(c) PROVE ClusterInv'
    <2> DEFINE m == Message("publish", Service, c)
    <2>1. m \in Events /\ m.id = Len(bus) + 1
        BY <1>6
    <2>2. Posted(m) /\ UNCHANGED delivered
        BY <1>12 DEF ServicePublish
    <2> HIDE DEF m
    <2> QED
        BY <2>1, <2>2, ClusterPosts
<1>13. ASSUME NEW c \in Clients, SendMessageToDevice(c) PROVE ClusterInv'
    <2> DEFINE m == [Message("publish", Service, c) EXCEPT !.topic = "device", !.typed = FALSE]
    <2>1. m \in Events /\ m.id = Len(bus) + 1
        <3> DEFINE n == Message("publish", Service, c)
        <3>1. n \in Events /\ n.id = Len(bus) + 1
            BY <1>6
        <3>2. m = [n EXCEPT !.topic = "device", !.typed = FALSE]
            OBVIOUS
        <3> HIDE DEF n, m
        <3> QED
            BY <3>1, <3>2, Zenon DEF Events
    <2>2. Posted(m) /\ UNCHANGED delivered
        BY <1>13 DEF SendMessageToDevice
    <2> HIDE DEF m
    <2> QED
        BY <2>1, <2>2, ClusterPosts
<1>14. CASE UNCHANGED clusterVars \/ \E b \in Brokers : GetsStuck(b)
    BY <1>14, Zenon DEF GetsStuck, clusterVars, ClusterInv, ClusterType, InHand
<1> QED
    BY <1>1, <1>2, <1>3, <1>4, <1>5, <1>7, <1>8, <1>9, <1>10, <1>11, <1>12, <1>13, <1>14, Zenon
       DEF ClusterNext, Starts, Consumes

\* For any number of brokers, clients and events: a broker hands a publish to its topic
\* tree at most once, although it gets its own events back from Kafka
\* (messageHandlerFunc of the event service).
THEOREM BrokersDeliverOnce == ClusterSpec => []PublishDeliveredOnce
<1>1. ClusterInv => PublishDeliveredOnce
    <2> SUFFICES ASSUME ClusterInv PROVE PublishDeliveredOnce
        OBVIOUS
    <2>1. \A b \in Brokers : DOMAIN delivered[b] = 1 .. Len(delivered[b])
        <3>1. delivered \in [Brokers -> Seq(Nat)]
            BY Zenon DEF ClusterInv, ClusterType
        <3>. QED BY <3>1
    <2> QED
        BY <2>1, Zenon DEF ClusterInv, Given, PublishDeliveredOnce
<1> QED
    BY <1>1, ClusterStart, ClusterStep, PTL DEF ClusterSpec

-----------------------------------------------------------------------------
(* What the codec writes it reads again: lengths up to the limit of MQTT and the *)
(* identifiers of acknowledgements, for any topics and payloads.           *)

\* Seven bits each: the weight of the digit after j bytes.
Weight(j) == 128 ^ j

\* A byte of the remaining length, the first is number 1.
LengthByte(n, i) ==
    ((n \div Weight(i - 1)) % 128) + (IF i < RemainingCount(n) THEN 128 ELSE 0)

\* The decoder has read j bytes of the remaining length n.
LengthRead(n, j) ==
    /\ packet.remainingCount = 0 - j
    /\ packet.remainingMult = Weight(j)
    /\ packet.remainingLength = n % Weight(j)
    /\ Len(header) = RemainingCount(n) - j
    /\ \A i \in 1..Len(header) : header[i] = LengthByte(n, i + j)

\* Types of the state of the codec.
CodecTypeOK ==
    /\ st \in {"idle", "refused", "length", "body", "decoded", "read", "misread", "error"}
    /\ msg \in PublishPacket \cup {NoMsg}
    /\ header \in Seq(Nat)
    /\ packet \in [remainingCount : Int, remainingMult : Nat, remainingLength : Nat]

\* What is known at each stage.
Stages ==
    /\ st = "idle" => msg = NoMsg /\ header = <<>> /\ packet = NewPacket
    /\ st # "idle" => msg \in PublishPacket
    /\ st = "refused" => RemainingLength(msg) > MaxPayload
    /\ st \notin {"idle", "refused"} => RemainingLength(msg) <= MaxPayload
    /\ st = "length" =>
          \E j \in 0..3 : j < RemainingCount(RemainingLength(msg))
                          /\ LengthRead(RemainingLength(msg), j)
    /\ st \in {"body", "decoded"} =>
          header = <<>> /\ packet.remainingLength = RemainingLength(msg)

\* Inductive: with the type, where the decoder is on the way through the bytes
\* of a length.
CodecInv == CodecTypeOK /\ Stages /\ AckRoundTrip

\* The weights that DecodeLengthByte gets by multiplication.
LEMMA Powers == Weight(0) = 1 /\ Weight(1) = 128 /\ Weight(2) = 16384 /\ Weight(3) = 2097152
                /\ Weight(4) = 268435456
BY SMTT(30) DEF Weight

\* A least element of a set is its minimum.
LEMMA MinIs ==
    ASSUME NEW S \in SUBSET Int, NEW x \in S, \A y \in S : x <= y
    PROVE  Min(S) = x
<1>1. Min(S) \in S /\ \A y \in S : Min(S) <= y
    BY Zenon DEF Min
<1>2. Min(S) \in Int /\ x \in Int
    BY <1>1, Zenon
<1>3. Min(S) <= x /\ x <= Min(S)
    BY <1>1, Zenon
<1>. QED BY <1>2, <1>3, SMT

\* The number of bytes of a remaining length.
LEMMA CountIs ==
    ASSUME NEW n \in Nat, n >= 1
    PROVE  /\ n < 128 => RemainingCount(n) = 1
           /\ n >= 128 /\ n < 16384 => RemainingCount(n) = 2
           /\ n >= 16384 /\ n < 2097152 => RemainingCount(n) = 3
           /\ n >= 2097152 /\ n < 268435456 => RemainingCount(n) = 4
           /\ n >= 268435456 => RemainingCount(n) = 5
<1>. DEFINE S == {k \in 0..4 : n < Weight(k)} \cup {5}
<1>0. S \in SUBSET Int /\ 5 \in S
    BY SMT
<1>1. /\ 0 \notin S
      /\ 1 \in S <=> n < 128
      /\ 2 \in S <=> n < 16384
      /\ 3 \in S <=> n < 2097152
      /\ 4 \in S <=> n < 268435456
    BY Powers, SMTT(30)
<1>a. \A y \in S : y = 0 \/ y \in {1, 2, 3, 4, 5}
    BY SMT
<1>. HIDE DEF S
<1>2. \A y \in S : y \in {1, 2, 3, 4, 5}
    BY <1>1, <1>a, SMT
<1>3. ASSUME NEW c \in {1, 2, 3, 4, 5}, c \in S, \A y \in S : c <= y PROVE Min(S) = c
    BY <1>0, <1>3, MinIs, SMT
<1>4. n < 128 => Min(S) = 1
    BY <1>1, <1>2, <1>3, SMTT(30)
<1>5. n >= 128 /\ n < 16384 => Min(S) = 2
    BY <1>1, <1>2, <1>3, SMTT(30)
<1>6. n >= 16384 /\ n < 2097152 => Min(S) = 3
    BY <1>1, <1>2, <1>3, SMTT(30)
<1>7. n >= 2097152 /\ n < 268435456 => Min(S) = 4
    BY <1>1, <1>2, <1>3, SMTT(30)
<1>8. n >= 268435456 => Min(S) = 5
    BY <1>0, <1>1, <1>2, <1>3, SMTT(30)
<1>9. RemainingCount(n) = Min(S)
    BY SMT DEF RemainingCount, S, Weight
<1>. QED BY <1>4, <1>5, <1>6, <1>7, <1>8, <1>9, SMT

\* One more byte gives one more digit.
LEMMA NextDigit ==
    ASSUME NEW n \in Nat, NEW j \in 0..3
    PROVE  (n % Weight(j)) + ((n \div Weight(j)) % 128) * Weight(j) = n % Weight(j + 1)
<1>1. CASE j = 0
    <2>1. n % 1 = 0 /\ n \div 1 = n BY SMTT(30)
    <2>. QED BY <1>1, <2>1, Powers, SMTT(30)
<1>2. CASE j = 1
    <2>1. (n % 128) + ((n \div 128) % 128) * 128 = n % 16384 BY SMTT(30)
    <2>. QED BY <1>2, <2>1, Powers, SMTT(30)
<1>3. CASE j = 2
    <2>1. (n % 16384) + ((n \div 16384) % 128) * 16384 = n % 2097152 BY SMTT(30)
    <2>. QED BY <1>3, <2>1, Powers, SMTT(30)
<1>4. CASE j = 3
    <2>1. (n % 2097152) + ((n \div 2097152) % 128) * 2097152 = n % 268435456 BY SMTT(30)
    <2>. QED BY <1>4, <2>1, Powers, SMTT(30)
<1>. QED BY <1>1, <1>2, <1>3, <1>4, SMT

\* Lengths and ids are numbers.
LEMMA NumbersAreNat == TopicLens \subseteq Nat /\ PayloadLens \subseteq Nat /\ Pids \subseteq Nat
<1>1. Uint16 \subseteq Nat
    BY SMTT(30) DEF Uint16
<1>. QED BY <1>1, CodecAssumption, Zenon

\* What the fields of a message are.
LEMMA MessageFields ==
    ASSUME NEW m \in PublishPacket
    PROVE  /\ m.qos \in {0, 1} /\ m.topic \in Nat /\ m.payload \in Nat /\ m.pid \in Nat
           /\ m # NoMsg
<1>1. m # NoMsg
    BY CodecAssumption, Zenon
<1>2. CASE m \in [kind: {"publish"}, topic: TopicLens, payload: PayloadLens, qos: {0, 1},
                  pid: Pids]
    <2>1. m.qos \in {0, 1} /\ m.topic \in TopicLens /\ m.payload \in PayloadLens /\ m.pid \in Pids
        BY <1>2, SMT
    <2>. QED BY <1>1, <2>1, NumbersAreNat, Zenon
<1>3. CASE m \in [kind: {"ack"}, topic: {0}, payload: {0}, qos: {1}, pid: Pids]
    <2>1. m.qos = 1 /\ m.topic = 0 /\ m.payload = 0 /\ m.pid \in Pids
        BY <1>3, SMT
    <2>1a. 0 \in Nat /\ 1 \in {0, 1} OBVIOUS
    <2>. QED BY <1>1, <2>1, <2>1a, NumbersAreNat, Zenon
<1>. QED BY <1>2, <1>3, SMT DEF PublishPacket

\* Every packet that is sent has a remaining length of at least two.
LEMMA LengthType ==
    ASSUME NEW m \in PublishPacket
    PROVE  RemainingLength(m) \in Nat /\ RemainingLength(m) >= 2
<1>1. m.qos \in {0, 1} /\ m.topic \in Nat /\ m.payload \in Nat
    BY MessageFields, SMT
<1>. QED BY <1>1, SMT DEF RemainingLength

\* A length has one to four bytes, or is too long for the writer.
LEMMA CountRange ==
    ASSUME NEW n \in Nat, n >= 1
    PROVE  /\ RemainingCount(n) \in 1..5
           /\ RemainingCount(n) = 5 <=> n > MaxPayload
           /\ n > MaxPayload <=> ~(n <= MaxPayload)
BY CountIs, SMTT(30) DEF MaxPayload

\* n has no more digits than RemainingCount(n).
LEMMA AllDigits ==
    ASSUME NEW n \in Nat, n >= 1, n <= MaxPayload
    PROVE  n % Weight(RemainingCount(n)) = n
<1>1. CASE n < 128
    <2>1. RemainingCount(n) = 1 /\ Weight(1) = 128
        BY <1>1, CountIs, Powers, SMT
    <2>2. n % 128 = n
        BY <1>1, SMT
    <2>. QED BY <2>1, <2>2, SMT
<1>2. CASE n >= 128 /\ n < 16384
    <2>1. RemainingCount(n) = 2 /\ Weight(2) = 16384
        BY <1>2, CountIs, Powers, SMT
    <2>2. n % 16384 = n
        BY <1>2, SMT
    <2>. QED BY <2>1, <2>2, SMT
<1>3. CASE n >= 16384 /\ n < 2097152
    <2>1. RemainingCount(n) = 3 /\ Weight(3) = 2097152
        BY <1>3, CountIs, Powers, SMT
    <2>2. n % 2097152 = n
        BY <1>3, SMT
    <2>. QED BY <2>1, <2>2, SMT
<1>4. CASE n >= 2097152 /\ n < 268435456
    <2>1. RemainingCount(n) = 4 /\ Weight(4) = 268435456
        BY <1>4, CountIs, Powers, SMT
    <2>2. n % 268435456 = n
        BY <1>4, SMT
    <2>. QED BY <2>1, <2>2, SMT
<1>. QED BY <1>1, <1>2, <1>3, <1>4, SMTT(30) DEF MaxPayload

\* Weights are positive numbers.
LEMMA PowerType == \A j \in 0..4 : Weight(j) \in Nat /\ Weight(j) > 0
<1>1. \A j \in 0..4 : j = 0 \/ j = 1 \/ j = 2 \/ j = 3 \/ j = 4
    BY SMT
<1>. QED BY <1>1, Powers, SMT

\* A weight is 128 times the one before.
LEMMA NextWeight == \A j \in 0..3 : Weight(j) * 128 = Weight(j + 1)
<1>1. \A j \in 0..3 : \/ (j = 0 /\ j + 1 = 1)
                       \/ (j = 1 /\ j + 1 = 2)
                       \/ (j = 2 /\ j + 1 = 3)
                       \/ (j = 3 /\ j + 1 = 4)
    BY SMT
<1>. QED BY <1>1, Powers, SMT

\* A byte of the remaining length: its digit and its continuation bit.
LEMMA ByteParts ==
    ASSUME NEW n \in Nat, n >= 1, NEW j \in 0..3
    PROVE  /\ LengthByte(n, j + 1) \in Nat
           /\ LengthByte(n, j + 1) % 128 = (n \div Weight(j)) % 128
           /\ LengthByte(n, j + 1) >= 128 <=> j + 1 < RemainingCount(n)
<1>. DEFINE d == (n \div Weight(j)) % 128
<1>1. Weight(j) \in Nat /\ Weight(j) > 0
    BY PowerType, SMT
<1>2. n \div Weight(j) \in Nat
    BY <1>1, SMT
<1>3. d \in 0..127
    BY <1>2, SMT
<1>4. RemainingCount(n) \in Nat
    BY CountRange, SMT
<1>5. LengthByte(n, j + 1) = d + (IF j + 1 < RemainingCount(n) THEN 128 ELSE 0)
    BY SMT DEF LengthByte
<1>. HIDE DEF d
<1>6. /\ LengthByte(n, j + 1) \in Nat
      /\ LengthByte(n, j + 1) % 128 = d
      /\ LengthByte(n, j + 1) >= 128 <=> j + 1 < RemainingCount(n)
    BY <1>3, <1>4, <1>5, SMT
<1>. QED BY <1>6, SMT DEF d

\* Initially there is no packet (newMqttPacket).
LEMMA CodecInitInv == CodecInit => CodecInv
BY SMT DEF CodecInit, CodecInv, CodecTypeOK, Stages, AckRoundTrip, NewPacket

\* initializePacket writes all bytes of the remaining length, or nothing.
LEMMA SendKeepsInv ==
    ASSUME CodecInv, NEW m \in PublishPacket, SendPacket(m)
    PROVE  CodecInv'
<1>. DEFINE n == RemainingLength(m)
            c == RemainingCount(n)
<1>1. n \in Nat /\ n >= 2
    BY LengthType, SMT
<1>2. c \in 1..5 /\ (c = 5 <=> n > MaxPayload) /\ (n > MaxPayload <=> ~(n <= MaxPayload))
    BY <1>1, CountRange, SMT
<1>3. st = "idle" /\ msg' = m /\ packet' = NewPacket /\ st' \in {"refused", "length"}
    BY Zenon DEF SendPacket, CodecInv, Stages
<1>. HIDE DEF n, c
<1>4. CASE c = 5
    <2>1. st' = "refused" /\ header' = <<>>
        BY <1>4, Zenon DEF SendPacket, n, c
    <2>2. n > MaxPayload
        BY <1>2, <1>4, SMT
    <2>3. CodecTypeOK'
        BY <1>3, <2>1, SMT DEF CodecTypeOK, NewPacket
    <2>4. Stages'
        BY <1>3, <2>1, <2>2, SMT DEF Stages, n
    <2>. QED BY <1>3, <2>1, <2>3, <2>4, SMT DEF CodecInv, AckRoundTrip
<1>5. CASE c # 5
    <2>1. st' = "length" /\ header' = RemainingBytes(n)
        BY <1>5, Zenon DEF SendPacket, n, c
    <2>2. n <= MaxPayload /\ c \in 1..4
        BY <1>1, <1>2, <1>5, SMT
    <2>3. header' = [i \in 1..c |-> LengthByte(n, i)]
        BY <2>1, SMT DEF RemainingBytes, LengthByte, c, Weight
    <2>4. \A i \in 1..c : LengthByte(n, i) \in Nat
        <3>1. ASSUME NEW i \in 1..c PROVE LengthByte(n, i) \in Nat
            <4>1. i - 1 \in 0..3 /\ (i - 1) + 1 = i
                BY <2>2, SMT
            <4>. QED BY <1>1, <4>1, ByteParts, SMT
        <3>. QED BY <3>1
    <2>5. header' \in Seq(Nat) /\ Len(header') = c
          /\ \A i \in 1..c : header'[i] = LengthByte(n, i + 0)
        BY <2>2, <2>3, <2>4, SMT
    <2>6. n % 1 = 0
        BY <1>1, SMT
    <2>7. LengthRead(n, 0)'
        BY <1>3, <2>2, <2>5, <2>6, Powers, SMT DEF LengthRead, NewPacket, c
    <2>8. CodecTypeOK'
        BY <1>3, <2>1, <2>5, SMT DEF CodecTypeOK, NewPacket
    <2>9. Stages'
        <3>1. \E j \in 0..3 : j < RemainingCount(n) /\ LengthRead(n, j)'
            BY <2>2, <2>7, SMT DEF c
        <3>. QED BY <1>3, <2>1, <2>2, <3>1, Zenon DEF Stages, n
    <2>. QED BY <1>3, <2>1, <2>8, <2>9, SMTT(30) DEF CodecInv, AckRoundTrip
<1>. QED BY <1>4, <1>5

\* A byte of the length gives one more digit; the last one completes it.
LEMMA LengthByteKeepsInv ==
    ASSUME CodecInv, DecodeLengthByte
    PROVE  CodecInv'
<1>. DEFINE n == RemainingLength(msg)
            c == RemainingCount(n)
            b == Head(header)
<1>1. st = "length" /\ header # <<>> /\ header' = Tail(header) /\ msg' = msg /\ msg \in PublishPacket
    BY Zenon DEF DecodeLengthByte, CodecInv, Stages
<1>2. n \in Nat /\ n >= 2 /\ n <= MaxPayload
    BY <1>1, LengthType, SMT DEF CodecInv, Stages
<1>3. c \in 1..4
    BY <1>2, CountRange, SMT DEF MaxPayload
<1>n. n' = n /\ c' = c
    BY <1>1
<1>4. PICK j \in 0..3 : j < c /\ LengthRead(n, j)
    BY <1>1, Zenon DEF CodecInv, Stages
<1>t. header \in Seq(Nat) /\ packet \in [remainingCount : Int, remainingMult : Nat, remainingLength : Nat]
    BY Zenon DEF CodecInv, CodecTypeOK
<1>. HIDE DEF n, c
<1>5. b = LengthByte(n, j + 1)
    <2>1. 1 \in 1..Len(header) /\ b = header[1] /\ 1 + j = j + 1
        BY <1>1, <1>t, SMT
    <2>2. b = LengthByte(n, 1 + j)
        BY <1>4, <2>1, Zenon DEF LengthRead
    <2>. QED BY <2>1, <2>2, SMT
<1>6. b \in Nat /\ b % 128 = (n \div Weight(j)) % 128 /\ (b >= 128 <=> j + 1 < c)
    BY <1>2, <1>5, ByteParts, SMT DEF c
<1>7. /\ packet.remainingCount = 0 - j /\ packet.remainingMult = Weight(j)
      /\ packet.remainingLength = n % Weight(j)
      /\ Len(header) = c - j
      /\ \A i \in 1..Len(header) : header[i] = LengthByte(n, i + j)
    BY <1>4, Zenon DEF LengthRead, c
<1>8. /\ packet' = [remainingCount |-> packet.remainingCount - 1,
                    remainingMult |-> packet.remainingMult * 128,
                    remainingLength |-> packet.remainingLength + (b % 128) * packet.remainingMult]
      /\ st' = IF packet.remainingCount - 1 < -4 THEN "error"
               ELSE IF b >= 128 THEN "length" ELSE "body"
    BY Zenon DEF DecodeLengthByte
<1>. HIDE DEF b
<1>9. /\ packet'.remainingCount = 0 - (j + 1)
      /\ packet'.remainingMult = Weight(j + 1)
      /\ packet'.remainingLength = n % Weight(j + 1)
    <2>1. (n % Weight(j)) + ((n \div Weight(j)) % 128) * Weight(j) = n % Weight(j + 1)
        BY <1>2, NextDigit, SMT
    <2>2. Weight(j) * 128 = Weight(j + 1)
        BY NextWeight, SMT
    <2>3. packet'.remainingCount = packet.remainingCount - 1
          /\ packet'.remainingMult = packet.remainingMult * 128
          /\ packet'.remainingLength = packet.remainingLength + (b % 128) * packet.remainingMult
        BY <1>8, Zenon
    <2>4. packet'.remainingLength = (n % Weight(j)) + ((n \div Weight(j)) % 128) * Weight(j)
        BY <1>6, <1>7, <2>3, Zenon
    <2>5. packet'.remainingMult = Weight(j) * 128
        BY <1>7, <2>3, Zenon
    <2>6. packet'.remainingCount = 0 - (j + 1)
        BY <1>7, <2>3, SMT
    <2>. QED BY <2>1, <2>2, <2>4, <2>5, <2>6, Zenon
<1>10. ~(packet.remainingCount - 1 < -4)
    BY <1>7, SMT
<1>11. header' \in Seq(Nat) /\ Len(header') = c - (j + 1)
       /\ \A i \in 1..Len(header') : header'[i] = LengthByte(n, i + (j + 1))
    <2>1. header' \in Seq(Nat) /\ Len(header') = Len(header) - 1
          /\ \A i \in 1..Len(header') : i + 1 \in 1..Len(header) /\ header'[i] = header[i + 1]
        BY <1>1, <1>t, SMT
    <2>2. \A i \in 1..Len(header') : (i + 1) + j = i + (j + 1)
        BY <2>1, SMT
    <2>3. \A i \in 1..Len(header') : header'[i] = LengthByte(n, (i + 1) + j)
        BY <1>7, <2>1, Zenon
    <2>4. \A i \in 1..Len(header') : header'[i] = LengthByte(n, i + (j + 1))
        BY <2>2, <2>3, Zenon
    <2>5. Len(header') = c - (j + 1)
        BY <1>3, <1>7, <2>1, SMT
    <2>. QED BY <2>1, <2>4, <2>5
<1>12. CodecTypeOK'
    <2>1. Weight(j + 1) \in Nat /\ Weight(j + 1) > 0
        BY PowerType, SMT
    <2>2. n % Weight(j + 1) \in Nat /\ 0 - (j + 1) \in Int
        BY <1>2, <2>1, SMT
    <2>3. packet' \in [remainingCount : Int, remainingMult : Nat, remainingLength : Nat]
        BY <1>8, <1>9, <2>1, <2>2, SMT
    <2>4. st' \in {"length", "body"}
        BY <1>8, <1>10, SMT
    <2>. QED BY <1>1, <1>11, <2>3, <2>4, SMT DEF CodecTypeOK
<1>13. CASE j + 1 < c
    <2>1. st' = "length"
        BY <1>6, <1>8, <1>10, <1>13, SMT
    <2>2. j + 1 \in 0..3 /\ j + 1 < RemainingCount(n)
        BY <1>3, <1>13, SMT DEF c
    <2>3. LengthRead(n, j + 1)'
        BY <1>n, <1>9, <1>11, Zenon DEF LengthRead, c
    <2>4. Stages'
        <3>1. \E i \in 0..3 : i < RemainingCount(n) /\ LengthRead(n, i)'
            BY <2>2, <2>3
        <3>. QED BY <1>1, <1>2, <2>1, <3>1, Zenon DEF Stages, n
    <2>. QED BY <1>12, <2>1, <2>4, SMT DEF CodecInv, AckRoundTrip
<1>14. CASE ~(j + 1 < c)
    <2>1. st' = "body"
        BY <1>6, <1>8, <1>10, <1>14, SMT
    <2>2. j + 1 = c
        BY <1>3, <1>4, <1>14, SMT
    <2>3. Len(header') = 0
        BY <1>11, <2>2, <1>3, SMT
    <2>4. header' = <<>>
        BY <1>11, <2>3, SMT
    <2>5. packet'.remainingLength = n
        <3>1. n % Weight(c) = n
            BY <1>2, AllDigits, SMT DEF c
        <3>. QED BY <1>9, <2>2, <3>1, Zenon
    <2>6. Stages'
        BY <1>1, <1>2, <2>1, <2>4, <2>5, SMT DEF Stages, n
    <2>. QED BY <1>12, <2>1, <2>6, SMT DEF CodecInv, AckRoundTrip
<1>. QED BY <1>13, <1>14

\* readUint16 of an acknowledgement undoes the writing of its id.
LEMMA BytesOfId ==
    ASSUME NEW v \in Nat
    PROVE  ReadUint16(PutPacketID(v)) = v
<1>1. (v \div 256) * 256 + (v % 256) = v
    BY SMT
<1>2. PutPacketID(v)[1] = v \div 256 /\ PutPacketID(v)[2] = v % 256
    BY SMT DEF PutPacketID
<1>. QED BY <1>1, <1>2, SMT DEF ReadUint16

\* The other steps leave the length alone; the id of an acknowledgement is the
\* one of its two bytes.
LEMMA OthersKeepInv ==
    ASSUME CodecInv, DecodeBody \/ DecodeFails \/ ReadFields \/ NextPacket
    PROVE  CodecInv'
<1>1. CASE DecodeBody
    <2>1. st = "body" /\ st' = "decoded" /\ UNCHANGED <<msg, header, result>>
          /\ packet' = [packet EXCEPT !.remainingCount = 0 - @]
        BY <1>1, Zenon DEF DecodeBody
    <2>2. packet \in [remainingCount : Int, remainingMult : Nat, remainingLength : Nat]
        BY Zenon DEF CodecInv, CodecTypeOK
    <2>3. packet' \in [remainingCount : Int, remainingMult : Nat, remainingLength : Nat]
          /\ packet'.remainingLength = packet.remainingLength
        BY <2>1, <2>2, SMT
    <2>4. CodecTypeOK'
        BY <2>1, <2>3, SMT DEF CodecInv, CodecTypeOK
    <2>5. Stages'
        BY <2>1, <2>3, SMT DEF CodecInv, Stages
    <2>. QED BY <2>1, <2>4, <2>5, SMT DEF CodecInv, AckRoundTrip
<1>2. CASE DecodeFails
    <2>1. st \in {"length", "body"} /\ st' = "error" /\ UNCHANGED <<msg, header, packet, result>>
        BY <1>2, Zenon DEF DecodeFails
    <2>2. CodecTypeOK'
        BY <2>1, Zenon DEF CodecInv, CodecTypeOK
    <2>3. /\ msg \in PublishPacket
          /\ RemainingLength(msg) <= MaxPayload /\ RemainingLength(msg)' = RemainingLength(msg)
        BY <2>1, Zenon DEF CodecInv, Stages, RemainingLength
    <2>4. Stages'
        BY <2>1, <2>3, Zenon DEF Stages
    <2>. QED BY <2>1, <2>2, <2>4, Zenon DEF CodecInv, AckRoundTrip
<1>3. CASE ReadFields
    <2>1. st = "decoded" /\ st' \in {"misread", "read"} /\ UNCHANGED <<msg, header, packet>>
        BY <1>3, Zenon DEF ReadFields
    <2>2. CodecTypeOK' /\ Stages'
        BY <2>1, SMT DEF CodecInv, CodecTypeOK, Stages
    <2>3. ASSUME st' = "read", msg'.kind = "ack" PROVE result'.pid = msg'.pid
        <3>1. result' = [topic |-> 0, payload |-> 0, pid |-> ReadUint16(PutPacketID(msg.pid))]
            BY <1>3, <2>1, <2>3, Zenon DEF ReadFields
        <3>2. msg \in PublishPacket
            BY <2>1, Zenon DEF CodecInv, Stages
        <3>3. msg.pid \in Nat
            BY <3>2, MessageFields, SMT
        <3>. QED BY <2>1, <3>1, <3>3, BytesOfId, SMT
    <2>. QED BY <2>2, <2>3, Zenon DEF CodecInv, AckRoundTrip
<1>4. CASE NextPacket
    <2>1. st' = "idle" /\ msg' = NoMsg /\ header' = <<>> /\ packet' = NewPacket
        BY <1>4, Zenon DEF NextPacket
    <2>2. CodecTypeOK'
        BY <2>1, SMT DEF CodecTypeOK, NewPacket
    <2>3. Stages' /\ AckRoundTrip'
        BY <2>1, SMT DEF Stages, AckRoundTrip
    <2>. QED BY <2>2, <2>3, Zenon DEF CodecInv
<1>. QED BY <1>1, <1>2, <1>3, <1>4

\* Writer and reader keep the invariant.
LEMMA CodecStep == CodecInv /\ [CodecNext]_codecVars => CodecInv'
<1>. SUFFICES ASSUME CodecInv, [CodecNext]_codecVars PROVE CodecInv'
    OBVIOUS
<1>1. ASSUME NEW m \in PublishPacket, SendPacket(m) PROVE CodecInv'
    BY <1>1, SendKeepsInv
<1>2. CASE UNCHANGED codecVars
    BY <1>2, Zenon DEF codecVars, CodecInv, CodecTypeOK, Stages, LengthRead, AckRoundTrip
<1>. QED BY <1>1, <1>2, LengthByteKeepsInv, OthersKeepInv, Zenon DEF CodecNext

\* The invariant is strong enough.
LEMMA CodecInvMeans == CodecInv => RoundTrip
<1>. SUFFICES ASSUME CodecInv PROVE RoundTrip
    OBVIOUS
<1>1. msg \in PublishPacket => msg # NoMsg /\ RemainingLength(msg) \in Nat
    BY MessageFields, LengthType, SMT
<1>2. LengthRoundTrip
    BY <1>1, SMT DEF CodecInv, CodecTypeOK, Stages, LengthRoundTrip, MaxPayload
<1>. QED BY <1>2, Zenon DEF RoundTrip, CodecInv

\* For all lengths of topics and payloads and all packet ids: the remaining
\* length that DecodeFromReader puts together byte by byte is the one that
\* initializePacket wrote, only a packet of more than MQTT_MAX_PAYLOAD bytes is
\* not sent, and an acknowledgement is read with the id it was written with.
THEOREM CodecRoundTrip == CodecSpec => []RoundTrip
<1>. QED BY CodecInitInv, CodecStep, CodecInvMeans, PTL DEF CodecSpec

-----------------------------------------------------------------------------
(* A session signs with a secret that was issued for its own device or for one *)
(* whose full name reads alike, for any devices, sessions and outages.         *)

AuthLabels == {"idle", "cache", "registry", "write", "sign"}

AuthRecord ==
    [pc : AuthLabels, device : Devices, key : Nat, during : SUBSET Nat, signed : Nat,
     answer : {"none", "failed", "ok", "unauthorized"}]

AuthTypeOK ==
    /\ secret \in [Devices -> Nat] /\ issued \in [Devices -> SUBSET Nat] /\ secrets \in Nat
    /\ keys \in [RedisKeys -> Nat]
    /\ auth \in [Sessions -> AuthRecord]

\* A secret was issued for a device with this key.
IssuedUnder(k, x) == \E d \in Devices : CacheKey(d) = k /\ x \in issued[d]

\* What a session carries comes from the registry or from the entry of its key.
Carried(s) ==
    /\ auth[s].pc = "write" => auth[s].key \in issued[Device(s)]
    /\ auth[s].pc = "sign" => IssuedUnder(CacheKey(Device(s)), auth[s].key)

\* The registry has only secrets of the device, redis under each key only secrets of
\* devices with this key.
AuthInv ==
    /\ AuthTypeOK
    /\ \A d \in Devices : secret[d] # 0 => secret[d] \in issued[d]
    /\ \A k \in RedisKeys : keys[k] # 0 => IssuedUnder(k, keys[k])
    /\ \A s \in Sessions : Carried(s)

\* An empty registry and an empty redis satisfy the invariant.
LEMMA AuthInitInv ==
    ASSUME AuthInit
    PROVE  AuthInv
<1>1. (CHOOSE d \in Devices : TRUE) \in Devices
  BY DevicesAssumption, Zenon
<1>2. NoAuth \in AuthRecord /\ NoAuth.pc = "idle"
  BY <1>1, Zenon DEF NoAuth, AuthLabels, AuthRecord
<1>3. AuthTypeOK
  BY <1>2 DEF AuthInit, AuthTypeOK
<1>4. \A s \in Sessions : auth[s].pc = "idle"
  BY <1>2, Zenon DEF AuthInit
<1>5. \A s \in Sessions : Carried(s)
  BY <1>4 DEF Carried
<1> QED
  BY <1>3, <1>5, Zenon DEF AuthInit, AuthInv

\* A change of the registry that a session lives through takes no secret from it.
LEMMA SeesKeepsInv ==
    ASSUME AuthInv, NEW d \in Devices, NEW k \in Nat, Sees(d, k), UNCHANGED keys,
           \A x \in Devices : issued[x] \subseteq issued'[x]
    PROVE  /\ auth' \in [Sessions -> AuthRecord]
           /\ \A s \in Sessions : Carried(s)'
           /\ \A r \in RedisKeys : keys'[r] # 0 => IssuedUnder(r, keys[r])'
<1>1. ASSUME NEW s \in Sessions
      PROVE  /\ auth'[s].pc = auth[s].pc /\ auth'[s].device = auth[s].device
             /\ auth'[s].key = auth[s].key /\ auth[s].device \in Devices
  BY DEF AuthInv, AuthTypeOK, AuthRecord, Sees
<1>2. auth' \in [Sessions -> AuthRecord]
  BY DEF AuthInv, AuthTypeOK, AuthRecord, Sees
<1>3. ASSUME NEW s \in Sessions
      PROVE  Carried(s)'
  <2>1. Carried(s) /\ Device(s)' = Device(s)
    BY <1>1, Zenon DEF AuthInv, Device
  <2>2. CacheKey(Device(s)') = CacheKey(Device(s))
    BY <2>1, Zenon
  <2>3. auth'[s].pc = "write" => auth'[s].key \in issued'[Device(s)']
    BY <1>1, <2>1, Zenon DEF Carried, Device
  <2>4. ASSUME auth'[s].pc = "sign"
        PROVE  IssuedUnder(CacheKey(Device(s)), auth[s].key)'
    <3>1. PICK e \in Devices : CacheKey(e) = CacheKey(Device(s)) /\ auth[s].key \in issued[e]
      BY <1>1, <2>1, <2>4, Zenon DEF Carried, IssuedUnder
    <3>2. auth'[s].key \in issued'[e]
      BY <1>1, <3>1, Zenon
    <3> QED BY <2>2, <3>1, <3>2, Zenon DEF IssuedUnder, CacheKey
  <2> QED BY <2>3, <2>4, Zenon DEF Carried
<1>4. ASSUME NEW r \in RedisKeys, keys'[r] # 0
      PROVE  IssuedUnder(r, keys[r])'
  <2>1. PICK e \in Devices : CacheKey(e) = r /\ keys[r] \in issued[e]
    BY <1>4, Zenon DEF AuthInv, IssuedUnder
  <2> QED BY <2>1, Zenon DEF IssuedUnder, CacheKey
<1> QED
  BY <1>2, <1>3, <1>4, Zenon

\* The registration and removal of a device keep the invariant.
LEMMA RegistryKeepsInv ==
    ASSUME AuthInv, NEW d \in Devices, Register(d) \/ Unregister(d)
    PROVE  AuthInv'
<1>r. RedisKeys' = RedisKeys
  BY Zenon DEF RedisKeys, CacheKey
<1>1. CASE Register(d)
  <2>1. /\ secrets + 1 \in Nat /\ Sees(d, secrets + 1) /\ issued' \in [Devices -> SUBSET Nat]
        /\ \A x \in Devices : issued[x] \subseteq issued'[x]
        /\ secret' \in [Devices -> Nat] /\ secrets' \in Nat /\ UNCHANGED keys
        /\ \A x \in Devices : secret'[x] # 0 => secret'[x] \in issued'[x]
    <3>1. /\ secret \in [Devices -> Nat] /\ issued \in [Devices -> SUBSET Nat] /\ secrets \in Nat
          /\ \A x \in Devices : secret[x] # 0 => secret[x] \in issued[x]
      BY Zenon DEF AuthInv, AuthTypeOK
    <3>2. /\ secrets' = secrets + 1 /\ secret' = [secret EXCEPT ![d] = secrets + 1]
          /\ issued' = [issued EXCEPT ![d] = @ \cup {secrets + 1}]
          /\ Sees(d, secrets + 1) /\ UNCHANGED keys
      BY <1>1, Zenon DEF Register
    <3>3. secrets + 1 \in Nat
      BY <3>1
    <3> QED BY <3>1, <3>2, <3>3
  <2> QED
    BY <1>r, <2>1, SeesKeepsInv, Zenon DEF AuthInv, AuthTypeOK
<1>2. CASE Unregister(d)
  <2>1. /\ Sees(d, 0) /\ UNCHANGED <<issued, secrets, keys>> /\ secret' \in [Devices -> Nat]
        /\ \A x \in Devices : secret'[x] # 0 => secret'[x] \in issued[x]
        /\ \A x \in Devices : issued[x] \subseteq issued'[x]
    BY <1>2, Zenon DEF Unregister, AuthInv, AuthTypeOK
  <2> QED
    BY <1>r, <2>1, SeesKeepsInv, Zenon DEF AuthInv, AuthTypeOK
<1> QED
  BY <1>1, <1>2

\* A session takes a step of its own, and carries a key only with a reason.
LEMMA SessionMoves ==
    ASSUME AuthInv, NEW s \in Sessions, NEW r \in AuthRecord, auth' = [auth EXCEPT ![s] = r],
           r.pc = "write" => r.key \in issued[r.device],
           r.pc = "sign" => IssuedUnder(CacheKey(r.device), r.key), UNCHANGED issued
    PROVE  auth' \in [Sessions -> AuthRecord] /\ \A x \in Sessions : Carried(x)'
<1>1. auth' \in [Sessions -> AuthRecord]
  BY DEF AuthInv, AuthTypeOK
<1>2. auth'[s] = r /\ \A x \in Sessions \ {s} : auth'[x] = auth[x]
  BY DEF AuthInv, AuthTypeOK
<1>3. Carried(s)'
  BY <1>2, Zenon DEF Carried, Device, IssuedUnder, CacheKey
<1>4. ASSUME NEW x \in Sessions \ {s}
      PROVE  Carried(x)'
  BY <1>2, Zenon DEF AuthInv, Carried, Device, IssuedUnder, CacheKey
<1> QED
  BY <1>1, <1>3, <1>4, Zenon

\* A session goes to its next step with a key that is issued for its device.
LEMMA GoesMoves ==
    ASSUME AuthInv, NEW s \in Sessions, NEW l \in AuthLabels, NEW k \in Nat, Goes(s, l, k),
           l = "write" => k \in issued[Device(s)],
           l = "sign" => IssuedUnder(CacheKey(Device(s)), k), UNCHANGED issued
    PROVE  auth' \in [Sessions -> AuthRecord] /\ \A x \in Sessions : Carried(x)'
<1> DEFINE r == [auth[s] EXCEPT !.pc = l, !.key = k]
<1>1. auth[s] \in AuthRecord /\ auth' = [auth EXCEPT ![s] = r]
  BY Zenon DEF AuthInv, AuthTypeOK, Goes
<1>2. r \in AuthRecord /\ r.pc = l /\ r.key = k /\ r.device = auth[s].device
  BY <1>1, Zenon DEF AuthRecord
<1> HIDE DEF r
<1> QED
  BY <1>1, <1>2, SessionMoves, Zenon DEF Device

\* A session that has its answer is at no step that uses a key.
LEMMA AnswerMoves ==
    ASSUME AuthInv, NEW s \in Sessions, NEW a \in {"failed", "ok", "unauthorized"},
           auth' = [auth EXCEPT ![s].pc = "idle", ![s].answer = a], UNCHANGED issued
    PROVE  auth' \in [Sessions -> AuthRecord] /\ \A x \in Sessions : Carried(x)'
<1> DEFINE r == [auth[s] EXCEPT !.pc = "idle", !.answer = a]
<1>1. auth[s] \in AuthRecord /\ auth' = [auth EXCEPT ![s] = r]
  BY Zenon DEF AuthInv, AuthTypeOK
<1>2. r \in AuthRecord /\ r.pc = "idle"
  BY <1>1, Zenon DEF AuthRecord, AuthLabels
<1>3. r.pc # "write" /\ r.pc # "sign"
  BY <1>2
<1> HIDE DEF r
<1> QED
  BY <1>1, <1>2, <1>3, SessionMoves, Zenon

\* Every step of an authentication keeps the invariant.
LEMMA AuthenticatesKeepsInv ==
    ASSUME AuthInv, NEW s \in Sessions,
           Authenticates(s) \/ \E d \in Devices : ClientConnects(s, d)
    PROVE  AuthInv'
<1> DEFINE k == CacheKey(Device(s))
<1>0. UNCHANGED <<secret, issued, secrets>> /\ RedisKeys' = RedisKeys
  BY Zenon DEF Authenticates, ReadCache, ReadRegistry, WriteCache, Sign, ClientConnects,
               registryVars, RedisKeys, CacheKey
<1>d. auth[s] \in AuthRecord /\ Device(s) \in Devices /\ auth[s].key \in Nat
  BY DEF AuthInv, AuthTypeOK, AuthRecord, Device
<1>k. k \in RedisKeys
  BY <1>d, Zenon DEF RedisKeys
<1>t. /\ keys[k] \in Nat /\ secret[Device(s)] \in Nat /\ 0 \in Nat
      /\ {"registry", "write", "sign"} \subseteq AuthLabels
      /\ secret[Device(s)] # 0 => secret[Device(s)] \in issued[Device(s)]
      /\ keys[k] # 0 => IssuedUnder(k, keys[k])
  BY <1>d, <1>k DEF AuthInv, AuthTypeOK, AuthLabels
<1>u. \A x, y : IssuedUnder(x, y)' = IssuedUnder(x, y)
  BY <1>0, Zenon DEF IssuedUnder, CacheKey
<1> DEFINE Moved == auth' \in [Sessions -> AuthRecord] /\ \A x \in Sessions : Carried(x)'
<1>q. UNCHANGED keys /\ Moved => AuthInv'
  <2>1. UNCHANGED keys => \A r \in RedisKeys : keys'[r] # 0 => IssuedUnder(r, keys[r])'
    BY <1>0, Zenon DEF AuthInv, IssuedUnder, CacheKey
  <2> QED BY <1>0, <2>1, Zenon DEF AuthInv, AuthTypeOK
<1>n. "registry" # "write" /\ "registry" # "sign" /\ "sign" # "write"
  OBVIOUS
<1> HIDE DEF Moved, k
<1>1. CASE ReadCache(s)
  <2>1. \/ keys[k] # 0 /\ Goes(s, "sign", keys[k])
        \/ Goes(s, "registry", 0)
    BY <1>1, Zenon DEF ReadCache, k
  <2>2. Moved
    BY <1>0, <1>n, <1>t, <2>1, GoesMoves, Zenon DEF Moved, k
  <2> QED
    BY <1>1, <1>q, <2>2, Zenon DEF ReadCache
<1>2. CASE ReadRegistry(s)
  <2>1. \/ secret[Device(s)] # 0 /\ Goes(s, "write", secret[Device(s)])
        \/ auth' = [auth EXCEPT ![s].pc = "idle", ![s].answer = "failed"]
    BY <1>2, Zenon DEF ReadRegistry
  <2>2. Moved
    BY <1>0, <1>n, <1>t, <2>1, GoesMoves, AnswerMoves, Zenon DEF Moved
  <2> QED
    BY <1>2, <1>q, <2>2, Zenon DEF ReadRegistry
<1>3. CASE WriteCache(s)
  <2>1. auth[s].key \in issued[Device(s)] /\ Goes(s, "sign", auth[s].key)
    BY <1>3, Zenon DEF WriteCache, AuthInv, Carried
  <2>i. IssuedUnder(k, auth[s].key)
    BY <1>d, <2>1, Zenon DEF IssuedUnder, k
  <2>2. Moved
    BY <1>0, <1>d, <1>n, <1>t, <2>1, <2>i, GoesMoves, Zenon DEF Moved, k
  <2>3. UNCHANGED keys \/ keys' = [keys EXCEPT ![k] = auth[s].key]
    BY <1>3, Zenon DEF WriteCache, k
  <2>4. keys \in [RedisKeys -> Nat] /\ \A r \in RedisKeys : keys[r] # 0 => IssuedUnder(r, keys[r])
    BY Zenon DEF AuthInv, AuthTypeOK
  <2>5. keys' \in [RedisKeys -> Nat] /\ \A r \in RedisKeys : keys'[r] # 0 => IssuedUnder(r, keys'[r])
    BY <1>d, <1>k, <2>3, <2>4, <2>i
  <2>6. \A r \in RedisKeys : keys'[r] # 0 => IssuedUnder(r, keys[r])'
    BY <1>0, <2>5, Zenon DEF IssuedUnder, CacheKey
  <2> QED
    BY <1>0, <2>2, <2>5, <2>6, Zenon DEF Moved, AuthInv, AuthTypeOK
<1>4. CASE Sign(s)
  <2>1. \E a \in {"ok", "unauthorized"} : auth' = [auth EXCEPT ![s].pc = "idle", ![s].answer = a]
    BY <1>4, Zenon DEF Sign
  <2>2. Moved
    BY <1>0, <2>1, AnswerMoves, Zenon DEF Moved
  <2> QED
    BY <1>4, <1>q, <2>2, Zenon DEF Sign
<1>5. ASSUME NEW d \in Devices, ClientConnects(s, d)
      PROVE  AuthInv'
  <2> DEFINE r == [pc |-> "cache", device |-> d, key |-> 0, during |-> {secret[d]},
                   signed |-> secret[d], answer |-> "none"]
  <2>1. r \in AuthRecord
    <3>1. secret[d] \in Nat
      BY Zenon DEF AuthInv, AuthTypeOK
    <3> QED BY <3>1, Zenon DEF AuthLabels, AuthRecord
  <2>2. auth' = [auth EXCEPT ![s] = r] /\ UNCHANGED keys /\ r.pc # "write" /\ r.pc # "sign"
    BY <1>5, Zenon DEF ClientConnects
  <2> HIDE DEF r
  <2>3. Moved
    BY <1>0, <2>1, <2>2, SessionMoves, Zenon DEF Moved
  <2> QED
    BY <1>q, <2>2, <2>3, Zenon
<1> QED
  BY <1>1, <1>2, <1>3, <1>4, <1>5 DEF Authenticates

\* getDeviceSecretKey: whatever sessions do between reading redis, reading the
\* registry and writing redis, and whichever of the two fails, no session signs
\* with a secret of a device whose full name reads otherwise, for any product and
\* device names, also those that hold a "/".
THEOREM KeysStayWithNames == AuthSpec => []KeyFitsName
<1>1. AuthInit => AuthInv
  BY AuthInitInv
<1>2. AuthInv /\ [AuthNext]_authVars => AuthInv'
  <2> SUFFICES ASSUME AuthInv, [AuthNext]_authVars
               PROVE  AuthInv'
    OBVIOUS
  <2>1. CASE UNCHANGED <<secret, issued, secrets, keys, auth>>
    <3>1. /\ \A s \in Sessions : Carried(s)' = Carried(s)
          /\ \A k \in RedisKeys : IssuedUnder(k, keys[k])' = IssuedUnder(k, keys[k])
          /\ RedisKeys' = RedisKeys
      BY <2>1, Zenon DEF Carried, Device, IssuedUnder, CacheKey, RedisKeys
    <3> QED BY <2>1, <3>1, Zenon DEF AuthInv, AuthTypeOK
  <2>2. ASSUME NEW x \in {"redis", "registry"}, StoreOutage(x)
        PROVE  AuthInv'
    BY <2>1, <2>2 DEF StoreOutage, registryVars
  <2>3. ASSUME NEW p \in Products, NEW f \in Posts, PostFlavor(p, f)
        PROVE  AuthInv'
    BY <2>1, <2>3 DEF PostFlavor, registryVars
  <2> QED
    BY <2>1, <2>2, <2>3, RegistryKeepsInv, AuthenticatesKeepsInv DEF AuthNext, authVars
<1>3. AuthInv => KeyFitsName
  BY Zenon DEF AuthInv, Carried, IssuedUnder, CacheKey, SameName, KeyFitsName
<1> QED
  BY <1>1, <1>2, <1>3, PTL DEF AuthSpec

-----------------------------------------------------------------------------
(* The services that the hub writes to the configuration of nginx.            *)

\* A goroutine is between the first and the last step of GetServices, or about to write
\* what it has read.
Reads(g) == at[g] \in {"read", "write"}

WatchLabels ==
    {"none", "start", "children", "select", "get", "read", "write", "execute", "running",
     "close", "closed", "done"}

WatchType ==
    /\ nodes \in SUBSET Services /\ up \in BOOLEAN /\ outages \in Nat
    /\ at \in [Goroutines -> WatchLabels]
    /\ children \in [Goroutines -> SUBSET Services]
    /\ services \in [Goroutines -> Seq(Services)]
    /\ removed \in [Goroutines -> SUBSET Services]
    /\ atStart \in [Goroutines -> SUBSET Services]

\* What is read or still to be read was there at the start.
FromStart(g) == Range(services[g]) \cup children[g] \subseteq atStart[g]

\* What was there at the start and has stayed is still there, and is read or to be read.
KeepsStayed(g) ==
    atStart[g] \ removed[g] \subseteq nodes \cap (Range(services[g]) \cup children[g])

WatchInv ==
    /\ WatchType
    /\ outages = 0 => up
    /\ \A g \in Goroutines : Reads(g) => FromStart(g) /\ (outages = 0 => KeepsStayed(g))
    /\ \A g \in Goroutines : at[g] = "write" => children[g] = {}

\* A sequence stays one of the same elements.
LEMMA AppendIn ==
    ASSUME NEW S, NEW s \in Seq(S), NEW x \in S
    PROVE  Append(s, x) \in Seq(S)
    OBVIOUS

\* Nothing has been read at the start of GetServices.
LEMMA RangeEmpty == Range(<<>>) = {}
BY DEF Range

\* A service that is read is added to those that were read.
LEMMA RangeAppend ==
    ASSUME NEW S, NEW s \in Seq(S), NEW x \in S
    PROVE  Range(Append(s, x)) = Range(s) \cup {x}
<1>1. DOMAIN Append(s, x) = 1 .. Len(s) + 1 /\ DOMAIN s = 1 .. Len(s) /\ Len(s) \in Nat
    OBVIOUS
<1>2. \A i \in 1 .. Len(s) : Append(s, x)[i] = s[i]
    OBVIOUS
<1>3. Append(s, x)[Len(s) + 1] = x
    OBVIOUS
<1>4. 1 .. Len(s) + 1 = (1 .. Len(s)) \cup {Len(s) + 1}
    BY <1>1
<1> DEFINE t == Append(s, x)
<1> HIDE DEF t
<1>5. \A y \in Range(t) : y \in Range(s) \cup {x}
    BY <1>1, <1>2, <1>3, <1>4, Zenon DEF Range, t
<1>6. \A y \in Range(s) : y \in Range(t)
    BY <1>1, <1>2, <1>4, Zenon DEF Range, t
<1>7. x \in Range(t)
    BY <1>1, <1>3, <1>4, Zenon DEF Range, t
<1> QED
    BY <1>5, <1>6, <1>7 DEF t

\* The hub before its start satisfies the invariant.
LEMMA WatchInit == WatcherInit => WatchInv
<1> SUFFICES ASSUME WatcherInit PROVE WatchInv
    OBVIOUS
<1>1. WatchType
    BY DEF WatcherInit, WatchType, WatchLabels
<1>2. \A g \in Goroutines : at[g] \notin {"read", "write"}
    BY DEF WatcherInit, Goroutines
<1> QED
    BY <1>1, <1>2, Zenon DEF WatchInv, WatcherInit, Reads

\* Every step of ZooKeeper, nginx and the two goroutines keeps the invariant.
LEMMA WatchNext == WatchInv /\ [WatcherNext]_watchVars => WatchInv'
<1> SUFFICES ASSUME WatchInv, [WatcherNext]_watchVars PROVE WatchInv'
    OBVIOUS
<1> USE DEF WatchInv, WatchType
<1>1. ASSUME NEW s \in Services, RegisterService(s) PROVE WatchInv'
    BY <1>1, Zenon DEF RegisterService, readVars, Reads, FromStart, KeepsStayed
<1>2. ASSUME NEW s \in Services, RemoveService(s) PROVE WatchInv'
    <2>1. /\ nodes' = nodes \ {s} /\ removed' = [g \in Goroutines |-> removed[g] \cup {s}]
          /\ UNCHANGED <<up, outages, at, children, services, atStart>>
        BY <1>2, Zenon DEF RemoveService
    <2>2. \A g \in Goroutines : removed[g] \cup {s} \in SUBSET Services
        BY Zenon
    <2>3. WatchType'
        BY <2>1, <2>2, Zenon
    <2>4. \A g \in Goroutines : /\ Reads(g)' => Reads(g)
                                /\ FromStart(g) => FromStart(g)'
                                /\ KeepsStayed(g) => KeepsStayed(g)'
        BY <2>1, Zenon DEF Reads, FromStart, KeepsStayed
    <2> QED
        BY <2>1, <2>3, <2>4, Zenon
<1>3. CASE ZooKeeperOutage
    <2>1. outages' \in Nat /\ up' \in BOOLEAN /\ (outages' = 0 => up = FALSE /\ outages = 0)
        BY <1>3 DEF ZooKeeperOutage
    <2>2. outages' # 0
        BY <2>1
    <2> QED
        BY <1>3, <2>1, <2>2, Zenon DEF ZooKeeperOutage, readVars, Reads, FromStart
<1>4. ASSUME NEW g \in Goroutines, HandleWrites(g) PROVE WatchInv'
    BY <1>4, Zenon DEF HandleWrites, zkVars, readVars, Reads, FromStart, KeepsStayed
<1>5. ASSUME NEW g \in Goroutines, GetChildren(g) PROVE WatchInv'
    <2>1. WatchType'
        <3>1. /\ "read" \in WatchLabels /\ {} \in SUBSET Services
              /\ (IF up THEN nodes ELSE {}) \in SUBSET Services
            BY Zenon DEF WatchLabels
        <3>2. <<>> \in Seq(Services)
            OBVIOUS
        <3> QED
            BY <1>5, <3>1, <3>2, Zenon DEF GetChildren, GoesTo, zkVars
    <2>2. /\ at'[g] = "read" /\ services'[g] = <<>> /\ removed'[g] = {}
          /\ children'[g] = atStart'[g] /\ (up => atStart'[g] = nodes)
        BY <1>5, Zenon DEF GetChildren, GoesTo
    <2>3. \A h \in Goroutines \ {g} :
             /\ at'[h] = at[h] /\ services'[h] = services[h] /\ removed'[h] = removed[h]
             /\ children'[h] = children[h] /\ atStart'[h] = atStart[h]
        BY <1>5, Zenon DEF GetChildren, GoesTo
    <2>4. nodes' = nodes /\ up' = up /\ outages' = outages
        BY <1>5, Zenon DEF GetChildren, zkVars
    <2>5. Range(services'[g]) = {}
        BY <2>2, RangeEmpty, Zenon
    <2>6. FromStart(g)' /\ (outages = 0 => KeepsStayed(g)')
        BY <2>2, <2>4, <2>5, Zenon DEF FromStart, KeepsStayed
    <2>7. \A h \in Goroutines \ {g} : Reads(h)' => FromStart(h)' /\ (outages = 0 => KeepsStayed(h)')
        BY <2>3, <2>4, Zenon DEF Reads, FromStart, KeepsStayed
    <2>8. \A h \in Goroutines : at'[h] = "write" => children'[h] = {}
        BY <2>2, <2>3, Zenon
    <2> QED
        BY <2>1, <2>4, <2>6, <2>7, <2>8, Zenon
<1>6. ASSUME NEW g \in Goroutines, NEW s \in Services, ReadChild(g, s) PROVE WatchInv'
    <2>1. WatchType'
        <3>1. services[g] \in Seq(Services) /\ children[g] \ {s} \in SUBSET Services
            BY Zenon
        <3>2. Append(services[g], s) \in Seq(Services)
            BY <3>1, AppendIn, Zenon
        <3> QED
            BY <1>6, <3>1, <3>2, Zenon DEF ReadChild, zkVars
    <2>2. /\ at[g] = "read" /\ s \in children[g] /\ children'[g] = children[g] \ {s}
          /\ services'[g] = IF up /\ s \in nodes THEN Append(services[g], s) ELSE services[g]
        BY <1>6, Zenon DEF ReadChild
    <2>3. \A h \in Goroutines \ {g} :
             services'[h] = services[h] /\ children'[h] = children[h]
        BY <1>6 DEF ReadChild
    <2>4. /\ nodes' = nodes /\ up' = up /\ outages' = outages
          /\ at' = at /\ removed' = removed /\ atStart' = atStart
        BY <1>6 DEF ReadChild, zkVars
    <2>5. Range(Append(services[g], s)) = Range(services[g]) \cup {s}
        <3>1. services[g] \in Seq(Services)
            OBVIOUS
        <3> QED
            BY <3>1, RangeAppend
    <2>6. FromStart(g) /\ (outages = 0 => up /\ KeepsStayed(g))
        BY <2>2, Zenon DEF Reads
    <2>7. FromStart(g)' /\ (outages = 0 => KeepsStayed(g)')
        <3>1. CASE up /\ s \in nodes
            BY <2>2, <2>4, <2>5, <2>6, <3>1, Zenon DEF FromStart, KeepsStayed
        <3>2. CASE ~(up /\ s \in nodes)
            BY <2>2, <2>4, <2>6, <3>2, Zenon DEF FromStart, KeepsStayed
        <3> QED
            BY <3>1, <3>2
    <2>8. \A h \in Goroutines \ {g} : Reads(h)' => FromStart(h)' /\ (outages = 0 => KeepsStayed(h)')
        BY <2>3, <2>4, Zenon DEF Reads, FromStart, KeepsStayed
    <2>9. \A h \in Goroutines : at'[h] = "write" => children'[h] = {}
        BY <2>2, <2>3, <2>4, Zenon
    <2> QED
        BY <2>1, <2>4, <2>7, <2>8, <2>9, Zenon
<1>7. ASSUME NEW g \in Goroutines, GetServicesEnds(g) PROVE WatchInv'
    <2>1. WatchType'
        BY <1>7, Zenon DEF GetServicesEnds, GoesTo, zkVars, readVars, WatchLabels
    <2>2. at[g] = "read" /\ children[g] = {}
        BY <1>7 DEF GetServicesEnds
    <2>3. \A h \in Goroutines : (h = g \/ at'[h] = at[h])
        BY <1>7 DEF GetServicesEnds, GoesTo
    <2>4. /\ UNCHANGED <<nodes, up, outages, removed, atStart, children, services>>
        BY <1>7 DEF GetServicesEnds, zkVars, readVars
    <2>5. \A h \in Goroutines : Reads(h)' => Reads(h)
        BY <2>2, <2>3, Zenon DEF Reads
    <2> QED
        BY <2>1, <2>2, <2>3, <2>4, <2>5, Zenon DEF FromStart, KeepsStayed
<1>8. ASSUME NEW g \in Goroutines, NEW l \in WatchLabels \ {"read", "write"},
             GoesTo(g, l), UNCHANGED zkVars, UNCHANGED readVars
      PROVE  WatchInv'
    <2>1. WatchType'
        BY <1>8 DEF GoesTo, zkVars, readVars
    <2>2. \A h \in Goroutines : at'[h] = at[h] \/ at'[h] = l
        BY <1>8 DEF GoesTo
    <2>3. UNCHANGED <<nodes, up, outages, removed, atStart, children, services>>
        BY <1>8 DEF zkVars, readVars
    <2> QED
        BY <2>1, <2>2, <2>3, Zenon DEF Reads, FromStart, KeepsStayed
<1>9. CASE StartWatcher
    <2>1. WatchType'
        BY <1>9, Zenon DEF StartWatcher, zkVars, readVars, WatchLabels
    <2>2. \A h \in Goroutines : at'[h] \notin {"read", "write"} \/ at'[h] = at[h]
        BY <1>9 DEF StartWatcher, Goroutines
    <2>3. UNCHANGED <<nodes, up, outages, removed, atStart, children, services>>
        BY <1>9 DEF StartWatcher, zkVars, readVars
    <2> QED
        BY <2>1, <2>2, <2>3, Zenon DEF Reads, FromStart, KeepsStayed
<1>10. ASSUME NEW g \in Goroutines, HandleFails(g) \/ HandleOpens(g) \/ HandleReloads(g)
       PROVE  WatchInv'
    <2>1. AfterHandle(g) \in WatchLabels \ {"read", "write"}
        BY DEF AfterHandle, WatchLabels
    <2>2. "execute" \in WatchLabels \ {"read", "write"}
        BY DEF WatchLabels
    <2> QED
        BY <1>8, <1>10, <2>1, <2>2, Zenon DEF HandleFails, HandleOpens, HandleReloads
<1>11. CASE ChildrenW \/ ChildEvent \/ Quit \/ HubCloses \/ HubClosed
    BY <1>8, <1>11, Zenon DEF ChildrenW, ChildEvent, Quit, HubCloses, HubClosed, Goroutines, WatchLabels
<1>12. CASE UNCHANGED watchVars
    BY <1>12, Zenon DEF watchVars, Reads, FromStart, KeepsStayed
<1>13. ASSUME NEW g \in Goroutines, GetsAndHandles(g) PROVE WatchInv'
    BY <1>4, <1>5, <1>6, <1>7, <1>10, <1>13, Zenon DEF GetsAndHandles
<1>14. CASE MainStep \/ WatcherStep
    <2>1. "main" \in Goroutines /\ "watcher" \in Goroutines
        BY DEF Goroutines
    <2> QED
        BY <1>9, <1>11, <1>13, <1>14, <2>1, Zenon DEF MainStep, WatcherStep
<1> QED
    BY <1>1, <1>2, <1>3, <1>11, <1>12, <1>14, Zenon DEF WatcherNext

\* GetServices of the hub, which reads the nodes one after the other: for every set of
\* services and any number of removals, what is written to the configuration of nginx
\* are services that were there when the reading began, and all that stayed.
THEOREM HubWritesRecentServices == WatcherSpec => []ListIsRecent
<1>1. WatchInv => ListIsRecent
    BY DEF WatchInv, WatchType, ListIsRecent, Reads, FromStart, KeepsStayed
<1> QED
    BY <1>1, WatchInit, WatchNext, PTL DEF WatcherSpec

=============================================================================
