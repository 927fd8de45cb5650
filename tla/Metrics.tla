------------------------------ MODULE Metrics ------------------------------
(* broker/metric: every MQTT session counts in a metric of its own, and a      *)
(* goroutine of the metric service adds the metrics up when a timer fires and  *)
(* reports the sums to the collector.  The list of metrics is protected by     *)
(* metricsMutex, each metric by a mutex that only its session takes.           *)
EXTENDS Naturals, SequencesExt

CONSTANTS
    Sessions,
    Counters,       \* names of counters
    None,           \* no counter, no session
    MaxAdds         \* bound: additions of all sessions

VARIABLES
    metrics,        \* p.metrics["mqtt"]: sessions in the order of NewMetric
    values,         \* counters of each session
    ended,          \* sessions that have freed their metric
    writing,        \* counter that a session is writing, or None
    adds,           \* additions so far
    timers,         \* aliveTimer and metricTimer: "armed", "fired", "spent"
    loop,           \* the goroutine: "select", "gather", "ended"
    element,        \* e in getMetric: the session whose metric is read, or None
    unread,         \* counters of that metric which are still to be read
    sum,            \* the temporary metric
    before,         \* history: totals when the gathering began
    report,         \* the last report, with the totals when it began and ended
    stale,          \* history: a counter has changed since the last gathering
    control,        \* "run", "stop", "stopped"
    died            \* the runtime has found a map used by two goroutines

metricVars == <<metrics, values, ended, writing, adds, timers, loop, element, unread,
                sum, before, report, stale, control, died>>

sessionVars == <<metrics, values, ended, writing, adds>>
gatherVars == <<element, unread, sum, before>>

Zero == [k \in Counters |-> 0]

\* Sum of the counters of all metrics in the list.
Totals ==
    FoldLeft(LAMBDA t, s : [k \in Counters |-> t[k] + values[s][k]], Zero, metrics)

MetricsInit ==
    /\ metrics = <<>>
    /\ values = [s \in Sessions |-> Zero]
    /\ ended = {}
    /\ writing = [s \in Sessions |-> None]
    /\ adds = 0
    /\ timers = [t \in {"alive", "metric"} |-> "armed"]
    /\ loop = "select"
    /\ element = None /\ unread = {} /\ sum = Zero /\ before = Zero
    /\ report = [sum |-> Zero, first |-> Zero, last |-> Zero]
    /\ stale = FALSE
    /\ control = "run"
    /\ died = FALSE

Alive == ~died

\* metricsMutex is held by the goroutine from the first metric to the last.
MutexFree == loop # "gather"

Counting(s) == Alive /\ Contains(metrics, s) /\ s \notin ended

-----------------------------------------------------------------------------
(* Sessions.                                                                  *)

NewMetric(s) ==
    /\ Alive /\ MutexFree /\ ~Contains(metrics, s) /\ s \notin ended
    /\ metrics' = Append(metrics, s)
    /\ UNCHANGED <<values, ended, writing, adds, timers, loop, report, stale, control, died>>
    /\ UNCHANGED gatherVars

\* Add takes the mutex of the metric, which nobody else takes.
AddBegins(s, k) ==
    /\ Counting(s) /\ writing[s] = None /\ adds < MaxAdds
    /\ writing' = [writing EXCEPT ![s] = k]
    /\ adds' = adds + 1
    /\ UNCHANGED <<metrics, values, ended, timers, loop, report, stale, control, died>>
    /\ UNCHANGED gatherVars

AddEnds(s) ==
    /\ Counting(s) /\ writing[s] # None
    /\ values' = [values EXCEPT ![s][writing[s]] = @ + 1]
    /\ writing' = [writing EXCEPT ![s] = None]
    /\ stale' = TRUE
    /\ UNCHANGED <<metrics, ended, adds, timers, loop, report, control, died>>
    /\ UNCHANGED gatherVars

\* Faulty variant: the list is changed without its mutex.
FreeUnlocked(s) ==
    /\ Counting(s) /\ writing[s] = None
    /\ metrics' = SelectSeq(metrics, LAMBDA r : r # s)
    /\ ended' = ended \cup {s}
    /\ UNCHANGED <<values, writing, adds, timers, loop, report, stale, control, died>>
    /\ UNCHANGED gatherVars

\* Destroy of the session.
FreeMetric(s) ==
    /\ Counting(s) /\ writing[s] = None /\ MutexFree
    /\ metrics' = SelectSeq(metrics, LAMBDA r : r # s)
    /\ ended' = ended \cup {s}
    /\ UNCHANGED <<values, writing, adds, timers, loop, report, stale, control, died>>
    /\ UNCHANGED gatherVars

-----------------------------------------------------------------------------
(* The goroutine of the service.                                              *)

TimerFires(t) ==
    /\ Alive /\ timers[t] = "armed" /\ control = "run"
    /\ timers' = [timers EXCEPT ![t] = "fired"]
    /\ UNCHANGED sessionVars /\ UNCHANGED gatherVars
    /\ UNCHANGED <<loop, report, stale, control, died>>

\* case <-p.aliveTimer.C: a report that carries no counter.
ReportKeepalive ==
    /\ Alive /\ loop = "select" /\ timers["alive"] = "fired"
    /\ timers' = [timers EXCEPT !["alive"] = "spent"]
    /\ UNCHANGED sessionVars /\ UNCHANGED gatherVars
    /\ UNCHANGED <<loop, report, stale, control, died>>

\* Element i of the list; None past its end.
ElementAt(i) == IF i \in DOMAIN metrics THEN metrics[i] ELSE None

\* e.Next(): None also for an element that has been removed.
NextElement ==
    IF Contains(metrics, element)
        THEN ElementAt(SelectInSeq(metrics, LAMBDA r : r = element) + 1)
        ELSE None

\* case <-p.metricTimer.C: reportMetric calls getMetric.
GatherBegins ==
    /\ Alive /\ loop = "select" /\ timers["metric"] = "fired"
    /\ timers' = [timers EXCEPT !["metric"] = "spent"]
    /\ loop' = "gather"
    /\ element' = ElementAt(1) /\ unread' = Counters /\ sum' = Zero /\ before' = Totals
    /\ stale' = FALSE
    /\ UNCHANGED sessionVars
    /\ UNCHANGED <<report, control, died>>

\* AddMetric ranges over the map of the session without the mutex of the session.
\* The runtime ends the process when it sees a write at the same time.
ReadCounter(k) ==
    /\ Alive /\ loop = "gather" /\ element # None /\ k \in unread
    /\ \/ /\ sum' = [sum EXCEPT ![k] = @ + values[element][k]]
          /\ unread' = unread \ {k}
          /\ UNCHANGED died
       \/ /\ writing[element] # None
          /\ died' = TRUE
          /\ UNCHANGED <<sum, unread>>
    /\ UNCHANGED sessionVars
    /\ UNCHANGED <<element, before, timers, loop, report, stale, control>>

NextMetric ==
    /\ Alive /\ loop = "gather" /\ element # None /\ unread = {}
    /\ element' = NextElement /\ unread' = Counters
    /\ UNCHANGED sessionVars
    /\ UNCHANGED <<sum, before, timers, loop, report, stale, control, died>>

\* getMetric returns and AsyncReport posts the sums.
ReportMetric ==
    /\ Alive /\ loop = "gather" /\ element = None
    /\ report' = [sum |-> sum, first |-> before, last |-> Totals]
    /\ loop' = "select"
    /\ UNCHANGED sessionVars /\ UNCHANGED gatherVars
    /\ UNCHANGED <<timers, stale, control, died>>

\* Stop sends on quitChan, which the goroutine takes in its select; then it stops
\* the timers and waits for the goroutine.
Stop ==
    /\ Alive /\ control = "run"
    /\ control' = "stop"
    /\ UNCHANGED sessionVars /\ UNCHANGED gatherVars
    /\ UNCHANGED <<timers, loop, report, stale, died>>

TakeQuit ==
    /\ Alive /\ control = "stop" /\ loop = "select"
    /\ loop' = "ended" /\ control' = "stopped"
    /\ UNCHANGED sessionVars /\ UNCHANGED gatherVars
    /\ UNCHANGED <<timers, report, stale, died>>

-----------------------------------------------------------------------------
SessionStep ==
    \E s \in Sessions :
        \/ NewMetric(s) \/ FreeMetric(s) \/ AddEnds(s)
        \/ \E k \in Counters : AddBegins(s, k)

Fires == \E t \in DOMAIN timers : TimerFires(t)

LoopStep ==
    \/ ReportKeepalive \/ GatherBegins \/ NextMetric \/ ReportMetric \/ TakeQuit
    \/ \E k \in Counters : ReadCounter(k)

MetricsNext == SessionStep \/ Fires \/ LoopStep \/ Stop

\* Armed timers fire and the goroutine of the service goes on when it can.
MetricsSpec ==
    /\ MetricsInit /\ [][MetricsNext]_metricVars
    /\ WF_metricVars(Fires) /\ WF_metricVars(LoopStep)

-----------------------------------------------------------------------------
(* Properties.                                                                *)

\* getMetric: each reported sum lies between the total of the sessions when the
\* gathering began and their total when it ended, although sessions count and end
\* meanwhile.
ReportWithinTotals ==
    \A k \in Counters : report.first[k] <= report.sum[k] /\ report.sum[k] <= report.last[k]

\* Stop returns, whatever the goroutine is doing when it is called.
StopReturns == control = "stop" ~> control = "stopped" \/ died

-----------------------------------------------------------------------------
(* What the code does not keep: TLC has a counterexample to each, see the   *)
(* known disagreements in the README.                                       *)

\* reportMetric "report current iothub stats": a counter that has changed is
\* gathered again, as long as the service runs.
StatsStayCurrent == stale ~> ~stale \/ control # "run" \/ died

\* getMetric "return server metrics": gathering them never ends the process.
GatherSurvives == ~died
=============================================================================
