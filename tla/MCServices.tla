----------------------------- MODULE MCServices -----------------------------
(* The services of the broker and what they share with the other programs,   *)
(* each from its own initial states: `part` names the one that runs, the      *)
(* others keep their initial values.                                          *)
EXTENDS KafkaBus, BrokerCluster, ServiceManager

CONSTANT None       \* Go's nil

VARIABLES
    part,
    metrics, values, ended, writing, adds, timers, gather, element, unread,
    sum, before, report, stale, order, died     \* Metrics

Metric == INSTANCE Metrics WITH
    Sessions <- {"s1", "s2"}, Counters <- {"sent", "received"}, MaxAdds <- 2,
    loop <- gather, control <- order

---------------------------------------------------------------------------

metricVars == <<metrics, values, ended, writing, adds, timers, gather, element, unread,
                sum, before, report, stale, order, died>>
vars == <<part, clusterVars, metricVars, managerVars, kafkaVars>>

Init ==
    /\ part \in {"cluster", "metric", "stop", "kafka"}
    /\ ClusterInit /\ Metric!MetricsInit /\ ManagerInit /\ KafkaInit

\* The part that runs takes a step; every other stands still.
Next ==
    /\ UNCHANGED part
    /\ IF part = "cluster" THEN ClusterNext ELSE UNCHANGED clusterVars
    /\ IF part = "metric" THEN Metric!MetricsNext ELSE UNCHANGED metricVars
    /\ IF part = "stop" THEN ManagerNext ELSE UNCHANGED managerVars
    /\ IF part = "kafka" THEN KafkaNext ELSE UNCHANGED kafkaVars

\* The goroutines that the Go scheduler runs; see the fairness of each part.
Fairness ==
    /\ \A b \in Brokers : WF_clusterVars(part = "cluster" /\ Consumes(b))
    /\ WF_metricVars(part = "metric" /\ Metric!Fires)
    /\ WF_metricVars(part = "metric" /\ Metric!LoopStep)
    /\ WF_managerVars(part = "stop" /\ Launch)
    /\ SF_managerVars(part = "stop" /\ Stop)
    /\ \A d \in Deliverers : WF_managerVars(part = "stop" /\ Deliver(d))
    /\ \A s \in Loops : WF_managerVars(part = "stop" /\ Handled(s))
    /\ WF_kafkaVars(part = "kafka" /\ Control)
    /\ \A p \in Partitions : WF_kafkaVars(part = "kafka" /\ Consumer(p))
    /\ \A p \in Partitions : WF_kafkaVars(part = "kafka" /\ FeederEnds(p))

Spec == Init /\ [][Next]_vars /\ Fairness

---------------------------------------------------------------------------
(* Properties of the parts; the modules of the parts say more about each.   *)
(* PublishDeliveredOnce, ServicePublishArrives, InPartitionOrder and          *)
(* StopIsClean come from BrokerCluster, KafkaBus and ServiceManager, which are *)
(* extended so that the properties checked here are the ones proved of them.  *)

\* A report of the metric service lies between the totals when it began and when
\* it ended, although sessions count and end meanwhile.
ReportWithinTotals == part = "metric" => Metric!ReportWithinTotals

\* What is asked to stop does, unless the session manager or the handler of a consumer
\* waits for ever: a broker that takes a signal terminates, busy clients or not; Stop
\* of the metric service returns, whatever its goroutine is doing; and Close of a
\* consumer ends with all goroutines of its partitions gone.
StopsReturn ==
    /\ part = "stop" => TerminatesOnSignal
    /\ part = "metric" => Metric!StopReturns
    /\ part = "kafka" => CloseEnds
============================================================================
