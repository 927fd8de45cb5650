----------------------------- MODULE MCWorkers ------------------------------
(* The tenants and products of the API server, the rule engine that follows  *)
(* them, the hub in front of the brokers and the client of the message        *)
(* service, each part from its own initial states: `part` names the one that   *)
(* runs, the others keep their initial values.                                *)
EXTENDS ServiceWatcher, RuleEngine, ApiCatalog

CONSTANT None       \* Go's nil and ""

VARIABLES
    part,
    knownR, rulesR, postingR, ruleBusR, statusR, callerR, recoverR, executorsR, todoR, racedR,
    callsR, eventsR, faultsR, startsR,                  \* RuleEngine that starts again
    conf, mqttBus, brokerBus, read, inHand, dataChan, current, work, state, executed,
    order, posts, failures,                                            \* RulePipeline
    loop, pc, then, now, latestIndex, totalQueries, index, ready, held, answer,
    got, handled, errors                                               \* MnsQueueClient

\* Requests about tenants come with a lost message; requests about products do not.
ProductApi == INSTANCE ApiCatalog WITH
    Requests <- 1..3, MaxLost <- 0,
    Ops <- {"CreateProduct", "RemoveProduct", "UpdateProduct", "CreateTopicFlavor",
            "SetProductTopicFlavor"}

\* The rule engine gets messages of the API server and requests with clean-ups and a failing
\* Kafka; in this one, requests and messages meet it while it stops and starts again.
Restarted == INSTANCE RuleEngine WITH
    Rules <- {"r1"}, Targets <- {"topic"}, Statuses <- {"idle", "started"}, Partitions <- {"k1"},
    ApiOps <- {"create"}, RestOps <- {"create", "remove", "start", "stop"},
    RestHandlers <- {"h1", "h2"},
    MaxCalls <- 3, MaxFaults <- 0, MaxStarts <- 2, MaxStored <- 1,
    known <- knownR, rules <- rulesR, posting <- postingR, ruleBus <- ruleBusR,
    status <- statusR, caller <- callerR, recover <- recoverR, executors <- executorsR,
    todo <- todoR, raced <- racedR, calls <- callsR, events <- eventsR, faults <- faultsR,
    starts <- startsR

\* Two rules on two topics, which may feed one another and themselves, and a stop at any
\* moment.
Stopped == INSTANCE RulePipeline WITH
    Rules <- {"r1", "r2"}, Topics <- {1, 2}, Conditions <- {"match"}, Bodies <- {"data"},
    Posters <- {"brokers", "services"}, MaxPosts <- 2, MaxBus <- 3, MaxFaults <- 0,
    todo <- work, status <- state, faults <- failures, handled <- executed

\* Services come and go; in this one, ZooKeeper is away while the hub closes.
Away == INSTANCE ServiceWatcher WITH Services <- {"a"}, Outages <- 1

Mns == INSTANCE MnsQueueClient WITH
    Messages <- {"m1"}, Loops <- {"receive", "batchReceive", "peek", "batchPeek"},
    DelaySecond <- 2, QpsLimit <- 1, MaxFailures <- 1, failures <- errors

---------------------------------------------------------------------------

restartedVars == <<knownR, rulesR, postingR, ruleBusR, statusR, callerR, recoverR, executorsR,
                   todoR, racedR, callsR, eventsR, faultsR, startsR>>
pipelineVars == <<conf, mqttBus, brokerBus, read, inHand, dataChan, current, work,
                  state, executed, order, posts, failures>>
mnsVars == <<loop, pc, then, now, latestIndex, totalQueries, index, ready, held, answer,
             got, handled, errors>>
vars == <<part, catalogVars, engineVars, restartedVars, pipelineVars, watchVars, mnsVars>>

Init ==
    /\ part \in {"tenants", "products", "engine", "restarted", "stopped", "watcher", "away", "mns"}
    /\ CatalogInit /\ EngineInit /\ Restarted!EngineInit
    /\ part # "engine" => known = {}
    /\ part # "restarted" => knownR = {} /\ rulesR = {}
    /\ Stopped!PipelineInit
    /\ part # "stopped" => conf = CHOOSE c \in [{"r1", "r2"} -> Stopped!Processes] : TRUE
    /\ WatcherInit
    /\ nodes = {"a"} \/ (part = "away" /\ nodes = {})
    /\ Mns!MnsInit
    /\ part # "mns" => loop = "receive"

\* The part that runs takes a step; every other stands still.
Next ==
    /\ UNCHANGED part
    /\ CASE part = "tenants" -> CatalogNext
         [] part = "products" -> ProductApi!CatalogNext
         [] OTHER -> UNCHANGED catalogVars
    /\ IF part = "engine" THEN EngineNext ELSE UNCHANGED engineVars
    /\ IF part = "restarted" THEN Restarted!EngineNext ELSE UNCHANGED restartedVars
    /\ IF part = "stopped" THEN Stopped!PipelineNext ELSE UNCHANGED pipelineVars
    /\ CASE part = "watcher" -> WatcherNext
         [] part = "away" -> Away!WatcherNext
         [] OTHER -> UNCHANGED watchVars
    /\ IF part = "mns" THEN Mns!MnsNext ELSE UNCHANGED mnsVars

\* The goroutines that the Go scheduler runs; see the fairness of each part.
Fairness ==
    /\ \A c \in Restarted!Callers :
          /\ WF_restartedVars(part = "restarted" /\ Restarted!HandleRule(c))
          /\ WF_restartedVars(part = "restarted" /\ Restarted!SendOnClosed(c))
    /\ WF_restartedVars(part = "restarted"
                            /\ (Restarted!Consume("k1") \/ Restarted!ConsumerEnds("k1")))
    /\ WF_restartedVars(part = "restarted" /\ Restarted!RecoveryCreate)
    /\ WF_restartedVars(part = "restarted" /\ Restarted!ExecuteRule("p1", "r1"))
    /\ WF_restartedVars(part = "restarted" /\ Restarted!QuitLoop)
    /\ WF_restartedVars(part = "restarted" /\ Restarted!StopExecutors)
    /\ WF_pipelineVars(part = "stopped" /\ Stopped!ExecutorNext)
    /\ SF_pipelineVars(part = "stopped" /\ Stopped!ConsumerClosed)
    /\ SF_pipelineVars(part = "stopped" /\ Stopped!Quit)
    /\ WF_watchVars(part = "away" /\ Away!MainStep)
    /\ WF_watchVars(part = "away" /\ Away!WatcherStep)
    /\ WF_watchVars(part = "away" /\ ~up /\ Away!ZooKeeperOutage)
    /\ WF_watchVars(part = "away" /\ Away!Quit)

Spec == Init /\ [][Next]_vars /\ Fairness

---------------------------------------------------------------------------
(* Properties of the parts; the modules of the parts say more about each.   *)
(* CatalogAsAnswered comes from ApiCatalog, RulesFollow from RuleEngine and    *)
(* ListIsRecent from ServiceWatcher: they are extended so that the properties   *)
(* checked here are the ones proved of them.                                    *)

\* Every stop ends, or ends the process: that of the rule engine, where no request that
\* meets it waits for ever, that of an executor whose consumer is handing over events
\* while its rules go on making new ones, and that of the hub although ZooKeeper was away.
WorkersStop ==
    /\ part = "restarted" => Restarted!RequestsAnswered /\ Restarted!StopCompletes
    /\ part = "stopped" => Stopped!StopEnds
    /\ part = "away" => Away!HubCloseReturns

\* A message leaves the server of the message service only after the consumer has got it.
LeavesWhenHandled == Mns!LeavesWhenHandled
============================================================================
