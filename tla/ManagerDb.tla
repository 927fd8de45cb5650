----------------------------- MODULE ManagerDb -----------------------------
(* iotmanager: brokers and other reporters post reports, the collector's       *)
(* consumer has a goroutine for every topic and partition which brings them    *)
(* into the management database, and the REST interface answers from it.       *)
(* MongoDB is external: a collection is a sequence of documents in the order   *)
(* of their insertion, a document is a function from field names to values.    *)
EXTENDS Naturals, Sequences, FiniteSetsExt, Functions

CONSTANTS
    Clients, Nodes,
    NoName,         \* the empty name
    Partitions,
    Kinds,          \* kinds of reports, of ReportKinds
    Questions,      \* what the REST interface is asked for
    Null,           \* an absent value
    MaxReports,     \* bound: reports
    Outages         \* bound: times that the database becomes unreachable

VARIABLES
    queue,          \* reports of each topic and partition not yet taken
    worker,         \* goroutine of each topic and partition
    current,        \* the loop variable of consumer.Start, which the goroutines share
    last,           \* the topic of the last turn of the loop
    docs,           \* the collections
    up,             \* the database can be reached
    outages,        \* outages so far
    posted,         \* history: number of reports
    handled,        \* history: reports that were handled while the database was up, and
                    \* what they were taken for
    response        \* last answer of the REST interface

reportVars == <<queue, current, last>>
managerVars == <<queue, worker, current, last, docs, up, outages, posted, handled, response>>

Topics == {"nodes", "clients", "sessions", "subscriptions", "publish", "metrics", "stats"}
Collections == Topics

\* A kind of report: its topic and its action.  The last two are what the metric
\* service of a broker posts, which names no action.
ReportKinds ==
    [node_register |-> <<"nodes", "register">>,
     node_update |-> <<"nodes", "update">>,
     node_unregister |-> <<"nodes", "unregister">>,
     client_register |-> <<"clients", "register">>,
     client_update |-> <<"clients", "update">>,
     client_unregister |-> <<"clients", "unregister">>,
     session_update |-> <<"sessions", "update">>,
     subscription_register |-> <<"subscriptions", "register">>,
     subscription_update |-> <<"subscriptions", "update">>,
     subscription_delete |-> <<"subscriptions", "delete">>,
     publish_update |-> <<"publish", "update">>,
     metric_update |-> <<"metrics", "update">>,
     stats_update |-> <<"stats", "update">>,
     broker_keepalive |-> <<"nodes", "">>,
     broker_metric |-> <<"metrics", "">>]

ASSUME ManagerAssumption == Kinds \subseteq DOMAIN ReportKinds

About(t) == IF t \in {"nodes", "metrics", "stats"} THEN Nodes ELSE Clients

Goroutines == Topics \X Partitions

IdleWorker == [pc |-> "idle", report |-> Null, as |-> Null, found |-> Null]

\* The consumer starts the goroutines of one topic after the other, in any order: all
\* but those of the last are there.
ManagerInit ==
    /\ queue = [g \in Goroutines |-> <<>>]
    /\ worker = [g \in Goroutines |-> IdleWorker]
    /\ current \in Topics /\ last \in Topics \ {current}
    /\ docs = [c \in Collections |-> <<>>]
    /\ up = TRUE /\ outages = 0
    /\ posted = 0 /\ handled = {}
    /\ response = [status |-> "none", result |-> Null]

-----------------------------------------------------------------------------
(* MongoDB.                                                                   *)

\* A document matches a selector when it has the fields and values of it.
Matches(doc, selector) ==
    DOMAIN selector \subseteq DOMAIN doc /\ \A f \in DOMAIN selector : doc[f] = selector[f]

Matching(coll, selector) == {i \in DOMAIN docs[coll] : Matches(docs[coll][i], selector)}

\* Find(selector).One: the first match, or Null.
One(coll, selector) ==
    LET found == Matching(coll, selector)
    IN IF found = {} THEN Null ELSE docs[coll][Min(found)]

All(coll, selector) == SelectSeq(docs[coll], LAMBDA d : Matches(d, selector))

\* Operations on a database that cannot be reached fail and change nothing.
Insert(coll, doc) == docs' = IF up THEN [docs EXCEPT ![coll] = Append(@, doc)] ELSE docs

\* Update and Remove change the first match.
Update(coll, selector, doc) ==
    LET found == Matching(coll, selector)
    IN docs' = IF up /\ found # {} THEN [docs EXCEPT ![coll][Min(found)] = doc] ELSE docs

Without(s, i) == SubSeq(s, 1, i - 1) \o SubSeq(s, i + 1, Len(s))

Delete(coll, selector) ==
    LET found == Matching(coll, selector)
    IN docs' = IF up /\ found # {} THEN [docs EXCEPT ![coll] = Without(@, Min(found))] ELSE docs

Outage ==
    /\ up => outages < Outages
    /\ up' = ~up
    /\ outages' = IF up THEN outages + 1 ELSE outages
    /\ UNCHANGED <<reportVars, worker, docs, posted, handled, response>>

-----------------------------------------------------------------------------
(* Documents, with the field names of their bson tags.                        *)

ClientDoc(r) == [ClientId |-> r.about, Value |-> r.value]
SessionDoc(r) == [ClientId |-> r.about, Value |-> r.value, Action |-> r.action]
SubscriptionDoc(r) == [ClientId |-> r.about, Topic |-> "t", Qos |-> r.value, Action |-> r.action]

\* The action of a StatsTopic hides that of its Stats.
MetricDoc(r) == [NodeName |-> r.about, Values |-> r.value,
                 Action |-> IF r.topic = "stats" THEN "" ELSE r.action]

\* The struct that selects a document for UpdateMetric and UpdateStats has zero
\* values in all fields but the name of the node, and they are part of the selector.
MetricSelector(r) == [NodeName |-> r.about, Values |-> 0, Action |-> ""]

SubscriptionSelector(r) == [ClientId |-> r.about, Topic |-> "t", Qos |-> 0, Action |-> ""]

\* UpdateClient stores the database object instead of the client: it exports no
\* field, so the document is empty.
EmptyDoc == [f \in {} |-> Null]

-----------------------------------------------------------------------------
(* The operations of the management database.                                 *)

GetAllNodes == All("nodes", EmptyDoc)
GetNode(n) == One("nodes", [NodeId |-> n])

\* Clients have no field that names their node.
GetNodeClients(n) == All("clients", [NodeId |-> n])
GetClient(c) == One("clients", [ClientId |-> c])
AddClient(r) == Insert("clients", ClientDoc(r))
RemoveClient(r) == Delete("clients", [ClientId |-> r.about])

GetSession(c) == One("sessions", [ClientId |-> c])
GetNodeSessions(n) == All("sessions", [NodeId |-> n])
GetSessionWithNode(n, c) == One("sessions", [NodeId |-> n, ClientId |-> c])

GetMetrics == All("metrics", EmptyDoc)
GetNodeMetric(n) == One("metrics", [NodeId |-> n])
AddMetricHistory(r) == Insert(r.topic, MetricDoc(r))

AddSubscription(r) == Insert("subscriptions", SubscriptionDoc(r))
UpdateSubscription(r) == Update("subscriptions", SubscriptionSelector(r), SubscriptionDoc(r))
RemoveSubscription(r) == Delete("subscriptions", [ClientId |-> r.about, SubscribedTopic |-> "t"])

\* UpdatePublish selects with a Subscription, and nothing inserts publishes.
UpdatePublish(r) ==
    Update("publish", SubscriptionSelector(r), [ClientId |-> r.about, SubscribedTopic |-> "t"])

-----------------------------------------------------------------------------
(* Reports.  A report carries the number of the report as its value: counters  *)
(* and states that grow.                                                      *)

Post(k, x, p) ==
    LET r == [topic |-> ReportKinds[k][1], action |-> ReportKinds[k][2],
              about |-> x, value |-> posted + 1]
    IN
    /\ posted < MaxReports
    /\ posted' = posted + 1
    /\ queue' = [queue EXCEPT ![r.topic, p] = Append(@, r)]
    /\ UNCHANGED <<worker, current, last, docs, up, outages, handled, response>>

\* The tag that has the name of what a report is about.
Tag(t) ==
    CASE t \in {"clients", "sessions", "subscriptions", "publish"} -> "clientId"
      [] t = "nodes" -> "nodeId"
      [] t \in {"metrics", "stats"} -> "nodeName"

\* CreateMessage and Deserialize: the report becomes one of the given topic, which finds
\* what is under its own tags.  The values are under the same tag for metrics and stats
\* only.
DecodedAs(r, t) ==
    [topic |-> t, action |-> r.action,
     about |-> IF Tag(r.topic) = Tag(t) THEN r.about ELSE NoName,
     value |-> IF r.topic = t \/ {r.topic, t} = {"metrics", "stats"} THEN r.value ELSE 0]

\* The time of a session is any text, that of a node or a subscription is not.
Refuses(r, t) == r.topic = "sessions" /\ t \in {"nodes", "subscriptions"}

-----------------------------------------------------------------------------
(* The collector.                                                             *)

\* The last turn of the loop of consumer.Start.
StartLastTopic ==
    /\ current # last /\ current' = last
    /\ UNCHANGED <<queue, worker, last, docs, up, outages, posted, handled, response>>

Started(g) == g[1] = last => current = last

\* A goroutine takes the next report; messageHandlerFunc opens the database and drops
\* the report when it cannot, as the goroutine does when the text is refused.
Take(g) ==
    /\ Started(g) /\ worker[g].pc = "idle" /\ queue[g] # <<>>
    /\ LET r == Head(queue[g]) IN
       \/ up /\ worker' = [worker EXCEPT ![g] = [pc |-> "handle", report |-> r,
                                                 as |-> DecodedAs(r, current), found |-> Null]]
       \/ (~up \/ Refuses(r, current)) /\ UNCHANGED worker
    /\ queue' = [queue EXCEPT ![g] = Tail(@)]
    /\ UNCHANGED <<current, last, docs, up, outages, posted, handled, response>>

Handles(g, t) == worker[g].pc = "handle" /\ worker[g].as.topic = t
Writes(g, t) == worker[g].pc = "write" /\ worker[g].as.topic = t
Others == UNCHANGED <<reportVars, up, outages, posted, response>>

Goes(g, found) ==
    /\ worker' = [worker EXCEPT ![g].pc = "write", ![g].found = found]
    /\ UNCHANGED handled
Returns(g) ==
    /\ worker' = [worker EXCEPT ![g] = IdleWorker]
    /\ handled' = IF up THEN handled \cup {[report |-> worker[g].report, as |-> worker[g].as]}
                  ELSE handled

\* AddNode, UpdateNode and RemoveNode do nothing.
HandleNode(g) ==
    /\ Handles(g, "nodes")
    /\ Returns(g) /\ UNCHANGED docs /\ Others

HandleClient(g) ==
    LET r == worker[g].as IN
    /\ Handles(g, "clients")
    /\ \/ r.action = "register" /\ AddClient(r) /\ Returns(g)
       \/ r.action \in {"unregister", "delete"} /\ RemoveClient(r) /\ Returns(g)
       \/ /\ r.action = "update" /\ UNCHANGED docs
          /\ Goes(g, IF up THEN GetClient(r.about) ELSE Null)
       \/ r.action = "" /\ UNCHANGED docs /\ Returns(g)
    /\ Others

\* UpdateSession looks for the session of the client first.
HandleSession(g) ==
    LET r == worker[g].as IN
    /\ Handles(g, "sessions")
    /\ IF r.action = "update" THEN Goes(g, IF up THEN GetSession(r.about) ELSE Null)
       ELSE Returns(g)
    /\ UNCHANGED docs /\ Others

HandleSubscription(g) ==
    LET r == worker[g].as IN
    /\ Handles(g, "subscriptions")
    /\ \/ r.action = "register" /\ AddSubscription(r)
       \/ r.action = "update" /\ UpdateSubscription(r)
       \/ r.action = "delete" /\ RemoveSubscription(r)
       \/ r.action \in {"unregister", ""} /\ UNCHANGED docs
    /\ Returns(g) /\ Others

HandlePublish(g) ==
    LET r == worker[g].as IN
    /\ Handles(g, "publish")
    /\ IF r.action = "update" THEN UpdatePublish(r) ELSE UNCHANGED docs
    /\ Returns(g) /\ Others

\* Faulty variant: the document of the node is replaced.
ReplaceHistory(g) ==
    LET r == worker[g].as IN
    /\ \E t \in {"metrics", "stats"} : Handles(g, t)
    /\ IF r.action = "update"
       THEN /\ IF Matching(r.topic, [NodeName |-> r.about]) = {} THEN AddMetricHistory(r)
               ELSE Update(r.topic, [NodeName |-> r.about], MetricDoc(r))
            /\ Goes(g, Null)
       ELSE Returns(g) /\ UNCHANGED docs
    /\ Others

\* Metrics and stats: the history first, then the update.
AddHistory(g) ==
    LET r == worker[g].as IN
    /\ \E t \in {"metrics", "stats"} : Handles(g, t)
    /\ IF r.action = "update" THEN AddMetricHistory(r) /\ Goes(g, Null)
       ELSE Returns(g) /\ UNCHANGED docs
    /\ Others

-----------------------------------------------------------------------------
(* The second operation of the handlers that have two.                        *)

WriteClient(g) ==
    LET found == worker[g].found IN
    /\ Writes(g, "clients")
    /\ IF found # Null THEN Update("clients", found, EmptyDoc) ELSE Insert("clients", EmptyDoc)
    /\ Returns(g) /\ Others

WriteSession(g) ==
    LET found == worker[g].found
        doc == SessionDoc(worker[g].as)
    IN
    /\ Writes(g, "sessions")
    /\ IF found # Null THEN Update("sessions", found, doc) ELSE Insert("sessions", doc)
    /\ Returns(g) /\ Others

UpdateMetric(g) ==
    LET r == worker[g].as IN
    /\ \E t \in {"metrics", "stats"} : Writes(g, t)
    /\ Update(r.topic, MetricSelector(r), MetricDoc(r))
    /\ Returns(g) /\ Others

-----------------------------------------------------------------------------
(* The REST interface: what it answers from the database as it is.            *)

Answer(status, result) == [status |-> status, result |-> result]
Opened(answer) == IF up THEN answer ELSE Answer("ServerError", Null)
OrNotFound(doc) == IF doc = Null THEN Answer("NotFound", Null) ELSE Answer("OK", doc)

getAllNodes == Opened(Answer("OK", GetAllNodes))
getNodeInfo(n) == Opened(OrNotFound(GetNode(n)))

getNodeClients(n) == Opened(Answer("OK", GetNodeClients(n)))
getNodesClientInfo ==
    Opened(Answer("OK", [n \in Range(GetAllNodes) |-> Len(GetNodeClients(n))]))
getClientInfo(c) == Opened(OrNotFound(GetClient(c)))

\* Values of all documents are added up, history included.
getClusterMetricsInfo ==
    Opened(Answer("OK",
        [Values |-> MapThenSumSet(LAMBDA i : GetMetrics[i].Values, DOMAIN GetMetrics)]))
getNodeMetricsInfo(n) == Opened(OrNotFound(GetNodeMetric(n)))

getNodeSessions(n) == Opened(Answer("OK", GetNodeSessions(n)))
getNodeSessionsClientInfo(n, c) == Opened(OrNotFound(GetSessionWithNode(n, c)))
getClusterSessionClientInfo(c) == Opened(OrNotFound(GetSession(c)))

AskRest(q, n, c) ==
    /\ response' =
         CASE q = "nodes" -> getAllNodes
           [] q = "node" -> getNodeInfo(n)
           [] q = "nodeClients" -> getNodeClients(n)
           [] q = "nodesClients" -> getNodesClientInfo
           [] q = "client" -> getClientInfo(c)
           [] q = "metrics" -> getClusterMetricsInfo
           [] q = "nodeMetrics" -> getNodeMetricsInfo(n)
           [] q = "nodeSessions" -> getNodeSessions(n)
           [] q = "nodeSession" -> getNodeSessionsClientInfo(n, c)
           [] q = "session" -> getClusterSessionClientInfo(c)
    /\ UNCHANGED <<reportVars, worker, docs, up, outages, posted, handled>>

-----------------------------------------------------------------------------
Posts ==
    \E k \in Kinds, p \in Partitions : \E x \in About(ReportKinds[k][1]) : Post(k, x, p)

Collects ==
    \E g \in Goroutines :
        \/ Take(g) \/ HandleNode(g) \/ HandleClient(g) \/ WriteClient(g)
        \/ HandleSession(g) \/ WriteSession(g) \/ HandleSubscription(g) \/ HandlePublish(g)
        \/ AddHistory(g) \/ UpdateMetric(g)

Asks == \E q \in Questions, n \in Nodes, c \in Clients : AskRest(q, n, c)

ManagerNext == Posts \/ StartLastTopic \/ Outage \/ Collects \/ Asks

ManagerSpec == ManagerInit /\ [][ManagerNext]_managerVars

-----------------------------------------------------------------------------
(* Properties.                                                                *)

Quiet == \A g \in Goroutines : worker[g] = IdleWorker

\* The updates that were handled as reports of a topic about x.
Updates(t, x) ==
    {h \in handled : h.as.topic = t /\ h.as.about = x /\ h.as.action = "update"}

\* UpdateSession "update session info": although the goroutines of all partitions find
\* and then write, a client is found as soon as one update about it was handled, and what
\* is answered is one of its updates, never one of another client.
SessionReported ==
    \A c \in Clients :
        LET values == {h.as.value : h \in Updates("sessions", c)} IN
        IF values = {}
            THEN getClusterSessionClientInfo(c).status = "NotFound"
            ELSE /\ getClusterSessionClientInfo(c).status = "OK"
                 /\ getClusterSessionClientInfo(c).result.Value \in values

\* AddMetricHistory: what was handled stays in the database as often as it was reported,
\* whatever UpdateMetric and the other goroutines do after it.
HistoryIsKept ==
    \A t \in {"metrics", "stats"}, n \in Nodes \cup {NoName}, v \in 0..posted :
        Cardinality(Matching(t, [NodeName |-> n, Values |-> v]))
            = Cardinality({h \in Updates(t, n) : h.as.value = v})

\* Both, when the collector is idle and the database has never been away.
DocumentsFollow == (Quiet /\ up /\ outages = 0) => SessionReported /\ HistoryIsKept

-----------------------------------------------------------------------------
(* What the code does not keep: TLC has a counterexample to each, see the   *)
(* known disagreements in the README.                                       *)

Settled == Quiet /\ up /\ outages = 0 /\ \A g \in Goroutines : queue[g] = <<>>

\* The values of the handled reports of a topic about x; the greatest is that of the last.
ReportsAbout(t, x) ==
    {h.report.value : h \in {g \in handled : g.report.topic = t /\ g.report.about = x}}

\* getClusterSessionClientInfo "return client's session info": the last report about it.
SessionFollowsReports ==
    Settled =>
        \A c \in Clients : ReportsAbout("sessions", c) # {} =>
            /\ getClusterSessionClientInfo(c).status = "OK"
            /\ getClusterSessionClientInfo(c).result.Value = Max(ReportsAbout("sessions", c))

\* getAllNodes "return all nodes in clusters": a node whose keepalive was handled
\* is in the answer.
KeepaliveListsNode ==
    (response = getAllNodes /\ up) =>
        \A h \in handled : h.report.topic = "nodes" => response.result # <<>>

\* getClientInfo "return clients info in cluster": a client that was registered, and
\* was not unregistered since, is found.
ClientIsKnown ==
    \A c \in Clients :
        (Settled /\ ReportsAbout("clients", c) # {}
            /\ \A h \in handled : h.report.action # "unregister")
        => getClientInfo(c).status = "OK"

\* getClusterMetricsInfo "return cluster metrics": the sum of what the nodes have
\* counted according to their last reports.
ClusterMetricsAreTotals ==
    Settled =>
        getClusterMetricsInfo.result.Values =
            MapThenSumSet(LAMBDA n : IF ReportsAbout("metrics", n) = {} THEN 0
                                     ELSE Max(ReportsAbout("metrics", n)), Nodes)
=============================================================================
