--------------------------- MODULE MnsQueueClient ---------------------------
(* mns/client: a program (as in client/example) that sends a message to a      *)
(* queue, receives messages in a loop, and hands them to a goroutine that      *)
(* deletes them.  Every request counts in a monitor of queries per second that *)
(* both goroutines use without a lock, and waits while there are too many.     *)
(* The server is external: it holds a message that it has given out until the  *)
(* message is deleted.                                                         *)
EXTENDS Naturals, FiniteSets, FiniteSetsExt, Functions

CONSTANTS
    Messages,
    Loops,          \* loops the program may run: "receive", "batchReceive", "peek", "batchPeek"
    DelaySecond,    \* slots of the monitor, one for each second (5 in the code)
    QpsLimit,       \* queries per second that are allowed
    MaxFailures     \* bound: requests that fail

VARIABLES
    loop,           \* the loop of the receiver
    pc,             \* steps of the goroutines "receiver", "consumer" and "stopper"
    then,           \* where the receiver and the consumer go after checkQPS
    now,            \* the second, modulo DelaySecond
    latestIndex, totalQueries,      \* QPSMonitor
    index,          \* the slot that a goroutine has computed in Pulse
    ready, held,    \* server: messages to give out, and messages given out
    answer,         \* what the server has said to the receiver
    got,            \* messages the consumer works on
    handled,        \* history: messages that the consumer has got
    failures

mnsVars == <<loop, pc, then, now, latestIndex, totalQueries, index, ready, held, answer,
             got, handled, failures>>
monitorVars == <<latestIndex, totalQueries, index>>
serverVars == <<ready, held, failures>>
consumerVars == <<got, handled>>

Clients == {"receiver", "consumer"}
Slots == 0 .. DelaySecond - 1
Batch(l) == l \in {"batchReceive", "batchPeek"}
Peeks(l) == l \in {"peek", "batchPeek"}

\* A slot that holds this many queries is above the limit on its own.
Enough == (QpsLimit + 1) * (DelaySecond - 1)

\* The program begins with SendMessage or BatchSendMessage.
MnsInit ==
    /\ loop \in Loops
    /\ pc = [g \in Clients \cup {"stopper"} |->
                CASE g = "receiver" -> "pulse" [] g = "consumer" -> "select" [] OTHER -> "idle"]
    /\ then = [g \in Clients |-> IF g = "receiver" THEN "post" ELSE "select"]
    /\ now = 0 /\ latestIndex = 0
    /\ totalQueries = [i \in Slots |-> 0] /\ index = [g \in Clients |-> 0]
    /\ ready = {} /\ held = {} /\ failures = 0
    /\ answer = [status |-> "none", messages |-> {}]
    /\ got = {} /\ handled = {}

GoesTo(g, l) == pc' = [pc EXCEPT ![g] = l]

Tick ==
    /\ now' = (now + 1) % DelaySecond
    /\ UNCHANGED <<loop, pc, then, answer>>
    /\ UNCHANGED monitorVars /\ UNCHANGED serverVars /\ UNCHANGED consumerVars

-----------------------------------------------------------------------------
(* checkQPS.                                                                  *)

MonitorStep(g, from, to) ==
    /\ pc[g] = from /\ GoesTo(g, to)
    /\ UNCHANGED <<loop, then, answer>> /\ UNCHANGED serverVars /\ UNCHANGED consumerVars

PulseIndex(g) ==
    /\ MonitorStep(g, "pulse", "compare")
    /\ index' = [index EXCEPT ![g] = now]
    /\ UNCHANGED <<now, latestIndex, totalQueries>>

PulseCompare(g) ==
    /\ MonitorStep(g, "compare", IF latestIndex # index[g] THEN "store" ELSE "add")
    /\ UNCHANGED monitorVars /\ UNCHANGED now

PulseStore(g) ==
    /\ MonitorStep(g, "store", "reset")
    /\ latestIndex' = index[g]
    /\ UNCHANGED <<totalQueries, index>> /\ UNCHANGED now

PulseReset(g) ==
    /\ MonitorStep(g, "reset", "add")
    /\ totalQueries' = [totalQueries EXCEPT ![latestIndex] = 0]
    /\ UNCHANGED <<latestIndex, index>> /\ UNCHANGED now

\* A count stops at Enough: QPS is above the limit from there on.
PulseAdd(g) ==
    /\ MonitorStep(g, "add", "check")
    /\ totalQueries' = [totalQueries EXCEPT ![index[g]] = IF @ < Enough THEN @ + 1 ELSE @]
    /\ UNCHANGED <<latestIndex, index>> /\ UNCHANGED now

QPS ==
    FoldFunctionOnSet(LAMBDA a, b : a + b, 0, totalQueries, Slots \ {latestIndex})
        \div (DelaySecond - 1)

\* The loop that sleeps looks at the monitor only; it makes no pulse.
CheckQPS(g) ==
    /\ MonitorStep(g, "check", then[g])
    /\ QPS <= QpsLimit
    /\ UNCHANGED monitorVars /\ UNCHANGED now

ChecksQPS(g, next) == GoesTo(g, "pulse") /\ then' = [then EXCEPT ![g] = next]

-----------------------------------------------------------------------------
(* Requests.                                                                  *)

\* MnsClient.Send fails, or the server answers.
Fails == failures < MaxFailures /\ failures' = failures + 1

\* ParseError makes the error for the code of the server and returns nil.
ParseError == FALSE

\* Whether send returns an error.
ReturnsError(status) == status = "failed" \/ (status = "error" /\ ParseError)

Answers(status, ms) == answer' = [status |-> status, messages |-> ms]

Unchanged == UNCHANGED <<loop>> /\ UNCHANGED monitorVars /\ UNCHANGED now

\* SendMessage, and BatchSendMessage with all the messages at once.
SendMessage(ms) ==
    /\ pc["receiver"] = "post" /\ GoesTo("receiver", "get")
    /\ ms # {} /\ (Cardinality(ms) = 1 \/ Batch(loop))
    /\ \/ Fails /\ ready' \in {ready, ready \cup ms}
       \/ ready' = ready \cup ms /\ UNCHANGED failures
    /\ UNCHANGED <<then, held, answer>> /\ UNCHANGED consumerVars /\ Unchanged

Take(ms) ==
    IF Peeks(loop) THEN UNCHANGED <<ready, held>>
    ELSE ready' = ready \ ms /\ held' = held \cup ms

\* One round of ReceiveMessage, BatchReceiveMessage, PeekMessage or BatchPeekMessage: an
\* answer may get lost on its way, and a queue without messages is an error of the server.
Receive(ms) ==
    /\ pc["receiver"] = "get" /\ GoesTo("receiver", "deliver")
    /\ ms # {} => Cardinality(ms) = 1 \/ Batch(loop)
    /\ (ms = {}) <=> (ready = {})
    /\ \/ Fails /\ Answers("failed", {}) /\ (Take(ms) \/ UNCHANGED <<ready, held>>)
       \/ Answers(IF ms = {} THEN "error" ELSE "ok", ms) /\ Take(ms) /\ UNCHANGED failures
    /\ UNCHANGED then /\ UNCHANGED consumerVars /\ Unchanged

\* The loops that peek do not look at the stop channel.
AfterReceive == IF Peeks(loop) THEN "get" ELSE "poll"

\* The receiver gives an error to errChan, and what it has received to respChan; the
\* consumer takes either.
Deliver ==
    /\ pc["receiver"] = "deliver" /\ pc["consumer"] = "select"
    /\ answer' = [status |-> "none", messages |-> {}]
    /\ LET response == ~ReturnsError(answer.status)
           visibility == response /\ ~Batch(loop)
           delete == response /\ Batch(loop) /\ answer.messages # {}
       IN /\ pc' = [pc EXCEPT !["receiver"] = "pulse",
                              !["consumer"] = IF visibility \/ delete THEN "pulse" ELSE "select"]
          /\ then' = [then EXCEPT !["receiver"] = AfterReceive,
                                  !["consumer"] = CASE visibility -> "visibility"
                                                    [] delete -> "delete"
                                                    [] OTHER -> "select"]
          /\ got' = IF response THEN answer.messages ELSE {}
          /\ handled' = IF response THEN handled \cup answer.messages ELSE handled
    /\ UNCHANGED serverVars /\ Unchanged

\* ChangeMessageVisibility; the consumer goes on to delete whatever comes of it.
ChangeMessageVisibility ==
    /\ pc["consumer"] = "visibility" /\ ChecksQPS("consumer", "delete")
    /\ Fails \/ UNCHANGED failures
    /\ UNCHANGED <<ready, held, answer>> /\ UNCHANGED consumerVars /\ Unchanged

\* Faulty variant: the request is for the messages of the queue, without receipt handles.
DeleteMessages ==
    /\ pc["consumer"] = "delete" /\ GoesTo("consumer", "select")
    /\ \/ Fails /\ UNCHANGED <<ready, held>>
       \/ ready' = {} /\ held' = {} /\ UNCHANGED failures
    /\ got' = {}
    /\ UNCHANGED <<then, answer, handled>> /\ Unchanged

\* DeleteMessage, and BatchDeleteMessage with all the messages of an answer.  The server
\* refuses the deletion of a message that it has not given out.
DeleteMessage ==
    /\ pc["consumer"] = "delete" /\ GoesTo("consumer", "select")
    /\ \/ Fails /\ UNCHANGED <<ready, held>>
       \/ held' = held \ got /\ UNCHANGED <<ready, failures>>
    /\ got' = {}
    /\ UNCHANGED <<then, answer, handled>> /\ Unchanged

-----------------------------------------------------------------------------
(* Stop.                                                                      *)

Stop ==
    /\ pc["stopper"] = "idle" /\ GoesTo("stopper", "stopping")
    /\ UNCHANGED <<then, answer>> /\ UNCHANGED serverVars /\ UNCHANGED consumerVars /\ Unchanged

\* The select with a default: a Stop that waits is taken.
Poll ==
    /\ pc["receiver"] = "poll"
    /\ IF pc["stopper"] = "stopping"
       THEN pc' = [pc EXCEPT !["receiver"] = "stopped", !["stopper"] = "done"]
       ELSE GoesTo("receiver", "get")
    /\ UNCHANGED <<then, answer>> /\ UNCHANGED serverVars /\ UNCHANGED consumerVars /\ Unchanged

ClientStep(g) ==
    \/ PulseIndex(g) \/ PulseCompare(g) \/ PulseStore(g) \/ PulseReset(g) \/ PulseAdd(g)
    \/ CheckQPS(g)
    \/ g = "receiver" /\ (Deliver \/ Poll \/ \E ms \in SUBSET Messages : SendMessage(ms))
    \/ g = "receiver" /\ \E ms \in SUBSET ready : Receive(ms)
    \/ g = "consumer" /\ (ChangeMessageVisibility \/ DeleteMessage)

MnsNext == Tick \/ Stop \/ \E g \in Clients : ClientStep(g)

\* Time passes, and goroutines that can go on do.
MnsFairness == WF_mnsVars(Tick) /\ \A g \in Clients : WF_mnsVars(ClientStep(g))

MnsSpec == MnsInit /\ [][MnsNext]_mnsVars /\ MnsFairness

-----------------------------------------------------------------------------
(* Properties.                                                                *)

\* A message leaves the server only after the consumer has got it, whatever requests
\* and answers are lost, and although errors of the server reach the consumer as answers
\* and it goes on to delete.
LeavesWhenHandled == [][\A m \in (ready \cup held) \ (ready' \cup held') : m \in handled]_mnsVars

-----------------------------------------------------------------------------
(* What the code does not keep: TLC has a counterexample to each, see the   *)
(* known disagreements in the README.                                       *)

\* "for p.qpsMonitor.QPS() > p.qpsLimit": a query above the limit waits until the rate has
\* fallen.  A goroutine that waits makes no pulse, and the rate falls by pulses only.
HeldBackGoesOn == \A g \in Clients : pc[g] = "check" ~> pc[g] # "check"

\* Stop returns while a loop of ReceiveMessage or BatchReceiveMessage runs.
ReceiverStops == pc["stopper"] = "stopping" ~> pc["stopper"] = "done"

\* "delete it now: ": the consumer asks for the deletion of what it got.
ReceivedIsDeleted == got # {} ~> got = {}

\* "client response status error": what the server says is an error comes as an error to
\* the consumer, which then does not change and delete anything.
ErrorIsReported ==
    [][answer.status = "error" /\ answer'.status = "none" => pc'["consumer"] = "select"]_mnsVars
=============================================================================
