----------------------------- MODULE RuleEngine -----------------------------
(* whaler/engine: the rules of the products.  The API server keeps them in    *)
(* the registry and posts a message for every change; the engine's goroutine  *)
(* takes the changes one by one from ruleChan, on which the goroutines of the *)
(* Kafka consumer, the handlers of whaler's REST interface and the recovery   *)
(* after a start send.  Every product with rules has an executor, whose own   *)
(* goroutine runs the rules on each event that a broker has published.        *)
EXTENDS Registry, Sequences

CONSTANTS
    Products, NoProduct,    \* NoProduct is the empty product id
    Rules,
    Targets,                \* data targets of the rules, "topic" is the supported one
    Statuses,               \* values of the field status in requests
    Partitions,             \* of the Kafka topic of rules, each with its goroutine
    RestHandlers,           \* goroutines of whaler's REST interface
    ApiOps, RestOps,        \* operations that are exercised
    MaxCalls, MaxEvents,    \* bounds: requests, and events of brokers
    MaxFaults, MaxStarts,   \* bounds: failures of Kafka, and starts of whaler
    MaxStored               \* bound: rules in the registry before the first start

\* The goroutines are different ones, and the empty string is no product id.
ASSUME EngineAssumption ==
    /\ Partitions \cap RestHandlers = {} /\ "recovery" \notin Partitions \cup RestHandlers
    /\ NoProduct \notin Products

VARIABLES
    known,          \* products in the registry
    rules,          \* the collection in the registry
    posting,        \* messages that handlers of the API server are about to post
    ruleBus,        \* messages of the topic of rules, by partition
    status,         \* of whaler: "up", then what Stop has done; "down" after a panic
    caller,         \* what the goroutines that send on ruleChan are doing
    recover,        \* rules that Recovery still has to restart
    executors,      \* p.executors
    todo,           \* rules an executor has yet to look at for its current event
    raced,          \* history: a table of rules was written while it was read
    calls, events, faults, starts   \* how often these have happened

engineVars == <<known, rules, posting, ruleBus, status, caller, recover, executors, todo, raced,
                calls, events, faults, starts>>
apiVars == <<known, rules, posting>>

Idle == [at |-> "idle"]
Ended == [at |-> "ended"]

NoExecutor == [there |-> FALSE, running |-> FALSE, rules |-> {}]

\* newRuleExecutor, then start
NewExecutor == [there |-> TRUE, running |-> TRUE, rules |-> {}]

Callers == Partitions \cup RestHandlers \cup {"recovery"}

Documents == [product : Products, rule : Rules, status : Statuses, target : Targets]

\* What the registry may hold: the index keeps one document of a rule.
Stored ==
    {R \in SUBSET Documents : /\ IsFiniteSet(R) /\ Cardinality(R) <= MaxStored
                              /\ \A a, b \in R : RuleKey(a) = RuleKey(b) => a = b}

EngineInit ==
    /\ known \in SUBSET Products /\ rules \in Stored /\ posting = {}
    /\ ruleBus = [k \in Partitions |-> <<>>]
    /\ status = "up" /\ starts = 1
    /\ caller = [c \in Callers |-> Idle]
    /\ recover = GetRulesWithStatus(rules, "started")
    /\ executors = [p \in Products |-> NoExecutor]
    /\ todo = [p \in Products |-> {}]
    /\ raced = FALSE
    /\ calls = 0 /\ events = 0 /\ faults = 0

-----------------------------------------------------------------------------
(* The API server: the registry first, then a message to some partition.      *)

\* CreateProduct and RemoveProduct of the API server; the rules of a product stay.
ApiProduct(p) ==
    /\ calls < MaxCalls /\ calls' = calls + 1
    /\ known' = IF p \in known THEN known \ {p} ELSE known \cup {p}
    /\ UNCHANGED <<rules, posting, ruleBus, status, caller, recover, executors, todo, raced,
                   events, faults, starts>>

\* Which change of the registry an operation makes; StartRule and StopRule make
\* none.
Changed(op, doc) ==
    CASE op = "create" -> RegisterRule(rules, doc)
      [] op = "remove" -> RemoveRule(rules, doc.product, doc.rule)
      [] op = "update" -> UpdateRule(rules, doc)
      [] OTHER -> {rules}

ApiRequest(op, doc) ==
    /\ calls < MaxCalls /\ calls' = calls + 1
    /\ rules' \in Changed(op, doc)
    /\ posting' = posting \cup {[no |-> calls, product |-> doc.product, rule |-> doc.rule,
                                 action |-> op]}
    /\ UNCHANGED <<known, ruleBus, status, caller, recover, executors, todo, raced,
                   events, faults, starts>>

Fails == faults < MaxFaults /\ faults' = faults + 1

\* The handler posts its message to some partition, or Kafka fails and it does not care.
ApiPosts(m) ==
    /\ posting' = posting \ {m}
    /\ \/ /\ \E k \in Partitions : ruleBus' = [ruleBus EXCEPT ![k] = Append(@, m)]
          /\ UNCHANGED faults
       \/ Fails /\ UNCHANGED ruleBus
    /\ UNCHANGED <<known, rules, status, caller, recover, executors, todo, raced,
                   calls, events, starts>>

-----------------------------------------------------------------------------
(* The goroutines that send on ruleChan.                                      *)

Sends(p, r, action) == [at |-> "send", product |-> p, rule |-> r, action |-> action]

\* messageHandlerFunc translates the action of the message.
Consume(k) ==
    /\ status \notin {"stopped", "down"} /\ caller[k] = Idle /\ ruleBus[k] # <<>>
    /\ LET m == Head(ruleBus[k]) IN
           caller' = [caller EXCEPT ![k] = Sends(m.product, m.rule, m.action)]
    /\ ruleBus' = [ruleBus EXCEPT ![k] = Tail(@)]
    /\ UNCHANGED <<apiVars, status, recover, executors, todo, raced, calls, events, faults, starts>>

\* controlRule reads a parameter that its route does not have.
RestRequest(h, op, p, r) ==
    /\ status # "down" /\ caller[h] = Idle
    /\ calls < MaxCalls /\ calls' = calls + 1
    /\ caller' = [caller EXCEPT ![h] =
           Sends(IF op \in {"start", "stop"} THEN NoProduct ELSE p, r, op)]
    /\ UNCHANGED <<apiVars, ruleBus, status, recover, executors, todo, raced, events, faults, starts>>

\* Recovery asks for the action "register" of the messages, and for "start"
\* after that.
RecoveryCreate ==
    /\ status = "up" /\ caller["recovery"] = Idle
    /\ \E d \in recover :
           /\ recover' = recover \ {d}
           /\ caller' = [caller EXCEPT !["recovery"] = Sends(d.product, d.rule, "register")]
    /\ UNCHANGED <<apiVars, ruleBus, status, executors, todo, raced, calls, events, faults, starts>>

\* The next thing a caller does when its request has been answered.
Answered(c) ==
    IF c = "recovery" /\ caller[c].action = "register"
    THEN [caller EXCEPT ![c].action = "start"]
    ELSE [caller EXCEPT ![c] = Idle]

\* Sending on a closed channel: the HTTP server recovers from the panic, a
\* goroutine of the consumer ends the process.
SendOnClosed(c) ==
    /\ status \in {"closed", "stopped"} /\ caller[c].at = "send"
    /\ status' = IF c \in RestHandlers THEN status ELSE "down"
    /\ caller' = [caller EXCEPT ![c] = Idle]
    /\ UNCHANGED <<apiVars, ruleBus, recover, executors, todo, raced, calls, events, faults, starts>>

-----------------------------------------------------------------------------
(* dispatchRule, in the goroutine of the engine.                              *)

Entry(d, ppline) == [rule |-> d.rule, status |-> d.status, ppline |-> ppline]

Named(p, r) == {x \in executors[p].rules : x.rule = r}

\* The executor's table is written; its goroutine may be reading it.
SetRules(p, new) ==
    /\ executors' = [executors EXCEPT ![p].rules = new]
    /\ raced' = (raced \/ todo[p] # {})

NoChange == UNCHANGED <<executors, raced, faults>>

\* The executor is made with the first rule, if the registry has the product, and stays
\* even if the rule fails: it exists, is not in the registry, has an unsupported target or
\* no producer.
CreateRule(p, r) ==
    LET there == IF executors[p].there THEN executors[p] ELSE NewExecutor
        found == {d \in GetRule(rules, p, r) : d.target = "topic"}
    IN
    \/ /\ ~executors[p].there /\ ((p \notin known /\ UNCHANGED faults) \/ Fails)
       /\ UNCHANGED <<executors, raced>>
    \/ /\ executors[p].there \/ p \in known
       /\ \/ Named(p, r) # {} /\ UNCHANGED faults
          \/ found = {} /\ UNCHANGED faults
          \/ found # {} /\ Fails
       /\ executors' = [executors EXCEPT ![p] = there]
       /\ UNCHANGED raced
    \/ \E d \in found :
       /\ executors[p].there \/ p \in known
       /\ Named(p, r) = {}
       /\ executors' = [executors EXCEPT ![p] =
              [there EXCEPT !.rules = @ \cup {Entry(d, TRUE)}]]
       /\ raced' = (raced \/ todo[p] # {})
       /\ UNCHANGED faults

\* The pipeline of the rule is not closed.
DeleteRule(p, r) == SetRules(p, executors[p].rules \ Named(p, r)) /\ UNCHANGED faults

\* The entry is replaced by one that has no pipeline.
ReplaceRule(p, r) ==
    \E new \in {{Entry(d, FALSE) : d \in GetRule(rules, p, r)}} :
        IF new # {} /\ Named(p, r) # {}
        THEN SetRules(p, (executors[p].rules \ Named(p, r)) \cup new) /\ UNCHANGED faults
        ELSE NoChange

\* startRule and stopRule write a field of the entry, under the lock.
SetStatus(p, r, s) ==
    /\ executors' = [executors EXCEPT ![p].rules =
           {IF x.rule = r THEN [x EXCEPT !.status = s] ELSE x : x \in @}]
    /\ UNCHANGED <<raced, faults>>

\* A product without executor, and an unknown action, give an error.
Dispatch(p, r, action) ==
    IF p = NoProduct THEN NoChange
    ELSE CASE action = "create" -> CreateRule(p, r)
           [] action = "remove" /\ executors[p].there -> DeleteRule(p, r)
           [] action = "update" /\ executors[p].there -> ReplaceRule(p, r)
           [] action = "start" /\ executors[p].there -> SetStatus(p, r, "started")
           [] action = "stop" /\ executors[p].there -> SetStatus(p, r, "stoped")
           [] OTHER -> NoChange

\* One round of the engine's loop, and the answer to the caller that waits.
HandleRule(c) ==
    /\ status \in {"up", "stopping"} /\ caller[c].at = "send"
    /\ Dispatch(caller[c].product, caller[c].rule, caller[c].action)
    /\ caller' = Answered(c)
    /\ UNCHANGED <<apiVars, ruleBus, status, recover, todo, calls, events, starts>>

\* Faulty variant: the executor is stopped and stays in the table.
StopEmptyExecutors ==
    LET empty == {p \in Products : executors[p].there /\ executors[p].rules = {}} IN
    /\ status \in {"up", "stopping"} /\ empty # {} /\ \A p \in empty : todo[p] = {}
    /\ executors' = [p \in Products |->
           IF p \in empty THEN [executors[p] EXCEPT !.running = FALSE] ELSE executors[p]]
    /\ UNCHANGED <<apiVars, ruleBus, status, caller, recover, todo, raced, calls, events, faults, starts>>

\* cleanExecutors; stop waits for the goroutine of the executor, and closing its
\* consumer may end the process: see RulePipeline.
CleanExecutors ==
    LET empty == {p \in Products : executors[p].there /\ executors[p].rules = {}} IN
    /\ status \in {"up", "stopping"} /\ empty # {} /\ \A p \in empty : todo[p] = {}
    /\ executors' = [p \in Products |-> IF p \in empty THEN NoExecutor ELSE executors[p]]
    /\ status' \in {status, "down"}
    /\ UNCHANGED <<apiVars, ruleBus, caller, recover, todo, raced, calls, events, faults, starts>>

-----------------------------------------------------------------------------
(* The goroutine of an executor: execute.                                     *)

\* An event of the product comes out of dataChan; the lock is given back before
\* the table is read.
TakeEvent(p) ==
    /\ status \notin {"stopped", "down"}
    /\ executors[p].running /\ todo[p] = {}
    /\ events < MaxEvents /\ events' = events + 1
    /\ todo' = [todo EXCEPT ![p] = {x.rule : x \in executors[p].rules}]
    /\ UNCHANGED <<apiVars, ruleBus, status, caller, recover, executors, raced, calls, faults, starts>>

\* A started rule is handled by its pipeline; without one that is a nil
\* dereference.
ExecuteRule(p, r) ==
    /\ status \notin {"stopped", "down"} /\ r \in todo[p]
    /\ todo' = [todo EXCEPT ![p] = @ \ {r}]
    /\ status' = IF \E x \in Named(p, r) : x.status = "started" /\ ~x.ppline
                 THEN "down" ELSE status
    /\ UNCHANGED <<apiVars, ruleBus, caller, recover, executors, raced, calls, events, faults, starts>>

-----------------------------------------------------------------------------
(* Stop and start of whaler.                                                  *)

\* engineService.Stop: recoveryChan, and the end of the recovery
StopService ==
    /\ status = "up" /\ starts < MaxStarts
    /\ recover = {} /\ caller["recovery"] = Idle
    /\ status' = "stopping"
    /\ UNCHANGED <<apiVars, ruleBus, caller, recover, executors, todo, raced, calls, events, faults, starts>>

\* quitChan is taken by the engine's loop, then both channels are closed.
QuitLoop ==
    /\ status = "stopping"
    /\ status' = "closed"
    /\ UNCHANGED <<apiVars, ruleBus, caller, recover, executors, todo, raced, calls, events, faults, starts>>

\* consumer.Close: a goroutine of the consumer ends with the quit message or the closed
\* channel of errors, or it takes the nil message of the closed channel, which ends
\* the process.
ConsumerEnds(k) ==
    /\ status = "closed" /\ caller[k] = Idle
    /\ caller' = [caller EXCEPT ![k] = Ended]
    /\ status' \in {status, "down"}
    /\ UNCHANGED <<apiVars, ruleBus, recover, executors, todo, raced, calls, events, faults, starts>>

\* executor.stop waits for the goroutines of the executors and of their consumers, which
\* may end the process in the same way.
StopExecutors ==
    /\ status = "closed" /\ \A k \in Partitions : caller[k] = Ended
    /\ \A p \in Products : todo[p] = {}
    /\ \/ status' = "stopped"
       \/ status' = "down" /\ \E p \in Products : executors[p].running
    /\ executors' = [p \in Products |-> [executors[p] EXCEPT !.running = FALSE]]
    /\ UNCHANGED <<apiVars, ruleBus, caller, recover, todo, raced, calls, events, faults, starts>>

\* A new process: Initialize, Start, and Recovery if a rule is started.  The consumer reads
\* what is posted from now on.
Restart ==
    /\ status \in {"stopped", "down"} /\ starts < MaxStarts
    /\ status' = "up" /\ starts' = starts + 1
    /\ caller' = [c \in Callers |-> Idle]
    /\ ruleBus' = [k \in Partitions |-> <<>>]
    /\ recover' = GetRulesWithStatus(rules, "started")
    /\ executors' = [p \in Products |-> NoExecutor]
    /\ todo' = [p \in Products |-> {}]
    /\ raced' = FALSE
    /\ UNCHANGED <<apiVars, calls, events, faults>>

-----------------------------------------------------------------------------
RuleRequests ==
    \/ \E p \in Products : ApiProduct(p)
    \/ \E op \in ApiOps, d \in Documents : ApiRequest(op, d)
    \/ \E m \in posting : ApiPosts(m)
    \/ \E op \in RestOps, p \in Products, r \in Rules, h \in RestHandlers :
           RestRequest(h, op, p, r)

EngineNext ==
    \/ RuleRequests
    \/ \E k \in Partitions : Consume(k) \/ ConsumerEnds(k)
    \/ \E c \in Callers : HandleRule(c) \/ SendOnClosed(c)
    \/ RecoveryCreate \/ CleanExecutors
    \/ \E p \in Products : TakeEvent(p) \/ \E r \in Rules : ExecuteRule(p, r)
    \/ StopService \/ QuitLoop \/ StopExecutors \/ Restart

EngineSpec == EngineInit /\ [][EngineNext]_engineVars

\* Goroutines that can run do: a sender that the loop stays ready for is served,
\* and a loop that stays ready to quit does.
EngineFairSpec ==
    /\ EngineSpec
    /\ \A k \in Partitions : WF_engineVars(Consume(k) \/ ConsumerEnds(k))
    /\ \A c \in Callers : WF_engineVars(HandleRule(c)) /\ WF_engineVars(SendOnClosed(c))
    /\ WF_engineVars(RecoveryCreate)
    /\ \A p \in Products, r \in Rules : WF_engineVars(ExecuteRule(p, r))
    /\ WF_engineVars(QuitLoop) /\ WF_engineVars(StopExecutors)

-----------------------------------------------------------------------------
(* Properties.                                                                *)

\* All that was asked of the engine has been done.
Quiet ==
    /\ status = "up" /\ recover = {} /\ \A c \in Callers : caller[c] = Idle
    /\ posting = {} /\ \A k \in Partitions : ruleBus[k] = <<>>

\* RemoveRule: when all messages have been handled, no executor has a rule that the
\* registry has not, in whatever order handlers, partitions, whaler's own REST interface
\* and restarts have brought creations, removals and updates to the engine; unless
\* Kafka has failed.
RemovedRulesEnd ==
    (Quiet /\ faults = 0) =>
        \A p \in Products : \A x \in executors[p].rules : GetRule(rules, p, x.rule) # {}

\* A rule in the table of an executor has a goroutine that will run it, however
\* the clean-up of empty executors falls between the requests.
RulesAreServed ==
    status = "up" => \A p \in Products : executors[p].rules # {} => executors[p].running

\* Both: the executors follow the registry of rules.
RulesFollow == RemovedRulesEnd /\ RulesAreServed

\* A request of the REST interface does not wait for ever, also while whaler stops: it is
\* answered, or it panics, which the HTTP server turns into a closed connection.
RequestsAnswered ==
    \A h \in RestHandlers : caller[h].at = "send" ~> (caller[h].at = "idle" \/ status = "down")

\* Stop comes to its end, or the process ends on the way.
StopCompletes == status = "stopping" ~> status \in {"stopped", "down"}

-----------------------------------------------------------------------------
(* What the code does not keep: TLC has a counterexample to each, see the   *)
(* known disagreements in the README.                                       *)

\* CreateRule "add a rule received from apiserver to this engine": a rule of the registry
\* that whaler supports is in the table of its product's executor.
CreatedRulesServed ==
    (Quiet /\ faults = 0) =>
        \A d \in rules : (d.target = "topic" /\ d.product \in known) => Named(d.product, d.rule) # {}

\* After a start, the rules that the registry has as started are running again.
RecoveryRestarts ==
    Quiet =>
        \A d \in rules : d.status = "started" =>
            \E x \in Named(d.product, d.rule) : x.status = "started"

\* A rule that has been updated can still be run.
UpdateKeepsPipeline == \A p \in Products : \A x \in executors[p].rules : x.ppline

\* The table of rules is not written while it is read.
RulesProtected == ~raced
=============================================================================
