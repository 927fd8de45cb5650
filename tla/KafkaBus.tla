------------------------------ MODULE KafkaBus ------------------------------
(* pkg/message: producers and a consumer of one topic of Kafka.  A message goes *)
(* to a partition chosen at random; the consumer has one goroutine for every    *)
(* partition, which waits in a select for the order to quit, an error or a      *)
(* message.  Kafka itself is external: a log for every partition, reachable or  *)
(* not.                                                                       *)
EXTENDS Naturals, Sequences, FiniteSets

CONSTANTS
    Partitions,     \* a set of numbers
    Messages,
    MaxErrors       \* bound: errors that partition consumers report

\* Kafka numbers the partitions of a topic: of any of them, one comes first.
ASSUME PartitionsAssumption ==
    \A S \in SUBSET Partitions : S # {} => \E p \in S : \A q \in S : p <= q

VARIABLES
    log,            \* Kafka: messages stored in each partition
    reachable,      \* Kafka can be reached
    answer,         \* what the caller of a producer got: "none", "ok", "error"
    offered,        \* history: messages for which a producer could be made
    next,           \* position of the next message of each partition consumer
    from,           \* history: position at which each of them began
    errors,         \* partitions whose consumer has an error to report
    errorCount,     \* errors so far
    goroutine,      \* of each partition: "absent", "select", "handle", "blocked", "ended"
    quit,           \* orders in sub.quitChan, which has room for one
    dying,          \* partition consumers that Close was called for
    pcClosed,       \* those whose channels are closed
    last,           \* of these, position of the last message that was fetched
    control,        \* the caller of Start and Close
    handled,        \* history: positions of the messages given to the handler
    broken          \* a goroutine has used the nil message of a closed channel

closeVars == <<dying, pcClosed, last>>
kafkaVars == <<log, reachable, answer, offered, next, from, errors, errorCount,
               goroutine, quit, closeVars, control, handled, broken>>

producerVars == <<log, reachable, answer, offered>>
consumerVars == <<next, from, errors, errorCount, goroutine, quit, closeVars, control, handled,
                  broken>>

KafkaInit ==
    /\ log = [p \in Partitions |-> <<>>]
    /\ reachable = TRUE
    /\ answer = [m \in Messages |-> "none"]
    /\ offered = {}
    /\ next = [p \in Partitions |-> 1] /\ from = [p \in Partitions |-> 1]
    /\ errors = {} /\ errorCount = 0
    /\ goroutine = [p \in Partitions |-> "absent"]
    /\ quit = 0
    /\ dying = {} /\ pcClosed = {} /\ last = [p \in Partitions |-> 0]
    /\ control = "start"
    /\ handled = [p \in Partitions |-> <<>>]
    /\ broken = FALSE

-----------------------------------------------------------------------------
(* Producers.                                                                 *)

Outage == reachable' = ~reachable /\ UNCHANGED <<log, answer, offered>> /\ UNCHANGED consumerVars

Answer(m, a) == answer' = [answer EXCEPT ![m] = a] /\ offered' = offered \cup {m}

\* newKafkaProducer: a partitioner that draws the partition.
Stored(m) == \E p \in Partitions : log' = [log EXCEPT ![p] = Append(@, m)]

\* PostMessage and SendMessage declare the error of NewProducer anew in the IF
\* and return the outer one, which is nil.
Unreached(m) ==
    /\ ~reachable
    /\ answer' = [answer EXCEPT ![m] = "ok"]
    /\ UNCHANGED <<log, offered>>

\* SendMessage, with a synchronous producer.
SendMessage(m) ==
    /\ answer[m] = "none"
    /\ \/ reachable /\ Stored(m) /\ Answer(m, "ok")
       \/ reachable /\ Answer(m, "error") /\ UNCHANGED log
       \/ Unreached(m)
    /\ UNCHANGED reachable /\ UNCHANGED consumerVars

\* PostMessage, with an asynchronous one: a goroutine logs an error.
PostMessage(m) ==
    /\ answer[m] = "none"
    /\ \/ reachable /\ (Stored(m) \/ UNCHANGED log) /\ Answer(m, "ok")
       \/ Unreached(m)
    /\ UNCHANGED reachable /\ UNCHANGED consumerVars

-----------------------------------------------------------------------------
(* The consumer.                                                              *)

Running == ~broken

Pending == {p \in Partitions : goroutine[p] = "absent"}

\* Start: one partition after the other, from the newest message on.
StartPartition ==
    /\ Running /\ control = "start" /\ Pending # {}
    /\ LET p == CHOOSE q \in Pending : \A r \in Pending : q <= r IN
          /\ goroutine' = [goroutine EXCEPT ![p] = "select"]
          /\ next' = [next EXCEPT ![p] = Len(log[p]) + 1]
          /\ from' = [from EXCEPT ![p] = Len(log[p]) + 1]
    /\ UNCHANGED producerVars
    /\ UNCHANGED <<errors, errorCount, quit, closeVars, control, handled, broken>>

\* Start returns, with an error when a partition cannot be consumed: the
\* goroutines that run stay.
StartReturns ==
    /\ Running /\ control = "start"
    /\ control' = "started"
    /\ UNCHANGED producerVars
    /\ UNCHANGED <<next, from, errors, errorCount, goroutine, quit, closeVars, handled, broken>>

PartitionError(p) ==
    /\ Running /\ goroutine[p] # "absent" /\ p \notin pcClosed /\ errorCount < MaxErrors
    /\ errors' = errors \cup {p} /\ errorCount' = errorCount + 1
    /\ UNCHANGED producerVars
    /\ UNCHANGED <<next, from, goroutine, quit, closeVars, control, handled, broken>>

InSelect(p) == Running /\ goroutine[p] = "select"

\* case <-s.quitChan
TakeQuit(p) ==
    /\ InSelect(p) /\ quit > 0
    /\ quit' = quit - 1
    /\ goroutine' = [goroutine EXCEPT ![p] = "ended"]
    /\ UNCHANGED producerVars
    /\ UNCHANGED <<next, from, errors, errorCount, closeVars, control, handled, broken>>

\* case err := <-pc.Errors(): also when the channel is closed.
TakeError(p) ==
    /\ InSelect(p) /\ (p \in errors \/ p \in pcClosed)
    /\ errors' = errors \ {p}
    /\ goroutine' = [goroutine EXCEPT ![p] = "ended"]
    /\ UNCHANGED producerVars
    /\ UNCHANGED <<next, from, errorCount, quit, closeVars, control, handled, broken>>

\* The messages that the channel of a partition still brings.
Fetched(p) == IF p \in pcClosed THEN last[p] ELSE Len(log[p])

\* Faulty variant: of the messages that wait, only the newest is handled.
TakeNewest(p) ==
    /\ InSelect(p) /\ next[p] <= Fetched(p)
    /\ handled' = [handled EXCEPT ![p] = Append(@, Fetched(p))]
    /\ next' = [next EXCEPT ![p] = Fetched(p) + 1]
    /\ goroutine' = [goroutine EXCEPT ![p] = "handle"]
    /\ UNCHANGED producerVars
    /\ UNCHANGED <<from, errors, errorCount, quit, closeVars, control, broken>>

\* case msg := <-pc.Messages(): the message is nil when the channel is closed and empty.
TakeMessage(p) ==
    /\ InSelect(p)
    /\ \/ /\ next[p] <= Fetched(p)
          /\ handled' = [handled EXCEPT ![p] = Append(@, next[p])]
          /\ next' = [next EXCEPT ![p] = @ + 1]
          /\ goroutine' = [goroutine EXCEPT ![p] = "handle"]
          /\ UNCHANGED broken
       \/ /\ p \in pcClosed /\ next[p] > last[p]
          /\ broken' = TRUE
          /\ UNCHANGED <<handled, next, goroutine>>
    /\ UNCHANGED producerVars
    /\ UNCHANGED <<from, errors, errorCount, quit, closeVars, control>>

HandlerReturns(p) ==
    /\ Running /\ goroutine[p] = "handle"
    /\ goroutine' = [goroutine EXCEPT ![p] = "select"]
    /\ UNCHANGED producerVars
    /\ UNCHANGED <<next, from, errors, errorCount, quit, closeVars, control, handled, broken>>

\* The handler of the broker waits for a session manager that is itself stuck.
HandlerBlocks(p) ==
    /\ Running /\ goroutine[p] = "handle"
    /\ goroutine' = [goroutine EXCEPT ![p] = "blocked"]
    /\ UNCHANGED producerVars
    /\ UNCHANGED <<next, from, errors, errorCount, quit, closeVars, control, handled, broken>>

\* Close: one order to quit, whatever the number of goroutines.
CloseBegins ==
    /\ Running /\ control = "started"
    /\ quit' = quit + 1
    /\ control' = "close"
    /\ UNCHANGED producerVars
    /\ UNCHANGED <<next, from, errors, errorCount, goroutine, closeVars, handled, broken>>

Open == {p \in Partitions : goroutine[p] # "absent"} \ dying

\* Faulty variant: only one partition consumer is closed.
CloseOne ==
    /\ Running /\ control = "close" /\ dying \subseteq pcClosed
    /\ IF dying # {}
       THEN control' = "wait" /\ UNCHANGED dying
       ELSE dying' = {p \in Open : \A q \in Open : p <= q} /\ UNCHANGED control
    /\ UNCHANGED producerVars
    /\ UNCHANGED <<next, from, errors, errorCount, goroutine, quit, pcClosed, last, handled, broken>>

\* pc.Close() for one partition consumer after the other, which waits until its
\* channels are closed, then consumer.Close().
ClosePartition ==
    /\ Running /\ control = "close" /\ dying \subseteq pcClosed
    /\ IF Open = {}
       THEN control' = "wait" /\ UNCHANGED dying
       ELSE /\ dying' = dying \cup {CHOOSE p \in Open : \A q \in Open : p <= q}
            /\ UNCHANGED control
    /\ UNCHANGED producerVars
    /\ UNCHANGED <<next, from, errors, errorCount, goroutine, quit, pcClosed, last, handled, broken>>

\* A goroutine of pc.Close() takes messages too, and drops them.
Drain(p) ==
    /\ Running /\ p \in dying /\ next[p] <= Fetched(p)
    /\ next' = [next EXCEPT ![p] = @ + 1]
    /\ UNCHANGED producerVars
    /\ UNCHANGED <<from, errors, errorCount, goroutine, quit, closeVars, control, handled, broken>>

\* The feeder of the partition ends and closes the channels, somewhere in the log.
FeederEnds(p) ==
    /\ Running /\ p \in dying \ pcClosed
    /\ pcClosed' = pcClosed \cup {p}
    /\ \E n \in next[p] - 1 .. Len(log[p]) : last' = [last EXCEPT ![p] = n]
    /\ UNCHANGED producerVars
    /\ UNCHANGED <<next, from, errors, errorCount, goroutine, quit, dying, control, handled, broken>>

\* sub.waitgroup.Wait()
CloseReturns ==
    /\ Running /\ control = "wait"
    /\ \A p \in Partitions : goroutine[p] \in {"absent", "ended"}
    /\ control' = "closed"
    /\ UNCHANGED producerVars
    /\ UNCHANGED <<next, from, errors, errorCount, goroutine, quit, closeVars, handled, broken>>

-----------------------------------------------------------------------------
Consumer(p) == TakeQuit(p) \/ TakeError(p) \/ TakeMessage(p) \/ HandlerReturns(p)

Control == StartPartition \/ StartReturns \/ ClosePartition \/ CloseReturns

KafkaNext ==
    \/ Outage \/ Control \/ CloseBegins
    \/ \E m \in Messages : SendMessage(m) \/ PostMessage(m)
    \/ \E p \in Partitions :
          \/ PartitionError(p) \/ Consumer(p) \/ HandlerBlocks(p) \/ Drain(p) \/ FeederEnds(p)

KafkaSpec == KafkaInit /\ [][KafkaNext]_kafkaVars

-----------------------------------------------------------------------------
(* Properties.                                                                *)

\* The handler gets the messages of a partition in the order in which they are stored,
\* each at most once, and without a gap from where the consumer began to where it is
\* now, until Close takes messages as well.
InPartitionOrder ==
    \A p \in Partitions :
        /\ \A i, j \in DOMAIN handled[p] : i < j => handled[p][i] < handled[p][j]
        /\ \A i \in DOMAIN handled[p] : handled[p][i] \in from[p] .. Len(log[p])
        /\ p \notin dying =>
              handled[p] = [i \in 1 .. next[p] - from[p] |-> from[p] + i - 1]

\* Close does not wait for ever: it returns or the process is gone, unless a handler
\* does not return.
CloseEnds ==
    control = "close" ~>
        (control = "closed" \/ broken \/ \E p \in Partitions : goroutine[p] = "blocked")

-----------------------------------------------------------------------------
(* What the code does not keep: TLC has a counterexample to each, see the   *)
(* known disagreements in the README.                                       *)

\* A consumer that is closed ends without a panic.
CloseIsClean == ~broken

\* A message that is answered with ok has at least been offered to Kafka.
OfferedBeforeOk == \A m \in Messages : answer[m] = "ok" => m \in offered
=============================================================================
