--------------------------- MODULE ServiceWatcher ---------------------------
(* iothub/watcher over pkg/service-discovery: services are nodes in ZooKeeper, *)
(* and the hub writes those it finds to the configuration of nginx, once when  *)
(* it starts and whenever a watch on the nodes fires.  A watch fires once.     *)
(* ZooKeeper and nginx are external.                                           *)
EXTENDS Naturals, Sequences, FiniteSets, Functions

CONSTANTS
    Services,
    MaxRemovals,    \* bound: services that are removed
    Outages         \* bound: times that ZooKeeper cannot be reached

VARIABLES
    nodes,          \* ZooKeeper: the registered services
    removals, up, outages,
    watch,          \* the watch of the watcher: "none", "set" or "fired"
    at,             \* steps of the goroutines "main" and "watcher"
    children,       \* of each goroutine: nodes that GetServices still has to read
    services,       \* of each goroutine: services that GetServices has read
    removed,        \* history: services removed while GetServices runs
    atStart,        \* history: nodes when GetServices began
    written,        \* of each goroutine: pieces that tmpl.Execute has written
    file,           \* /etc/nginx/stream_mqtt.conf: services and the end
    untold,         \* the file was written since nginx was last told to load it
    quitChan        \* p.quitChan holds a value

watchVars == <<nodes, removals, up, outages, watch, at, children, services, removed, atStart,
               written, file, untold, quitChan>>
zkVars == <<nodes, removals, up, outages>>
readVars == <<children, services, removed, atStart>>
outputVars == <<written, file, untold>>

Goroutines == {"main", "watcher"}
End == "end"

WatcherInit ==
    /\ nodes \in SUBSET Services /\ removals = 0 /\ up = TRUE /\ outages = 0
    /\ watch = "none" /\ at = [g \in Goroutines |-> IF g = "main" THEN "start" ELSE "none"]
    /\ children = [g \in Goroutines |-> {}] /\ services = [g \in Goroutines |-> <<>>]
    /\ removed = [g \in Goroutines |-> {}] /\ atStart = [g \in Goroutines |-> {}]
    /\ written = [g \in Goroutines |-> 0]
    /\ file = <<>> /\ untold = FALSE /\ quitChan = FALSE

-----------------------------------------------------------------------------
(* ZooKeeper and the services, which come and go at any moment.               *)

Fires == watch' = IF watch = "set" THEN "fired" ELSE watch

RegisterService(s) ==
    /\ up /\ s \notin nodes
    /\ nodes' = nodes \cup {s}
    /\ Fires
    /\ UNCHANGED <<removals, up, outages, at, quitChan>> /\ UNCHANGED readVars /\ UNCHANGED outputVars

RemoveService(s) ==
    /\ up /\ s \in nodes /\ removals < MaxRemovals
    /\ nodes' = nodes \ {s} /\ removals' = removals + 1
    /\ Fires
    /\ removed' = [g \in Goroutines |-> removed[g] \cup {s}]
    /\ UNCHANGED <<up, outages, at, children, services, atStart, quitChan>> /\ UNCHANGED outputVars

ZooKeeperOutage ==
    /\ up => outages < Outages
    /\ up' = ~up
    /\ outages' = IF up THEN outages + 1 ELSE outages
    /\ UNCHANGED <<nodes, removals, watch, at, quitChan>>
    /\ UNCHANGED readVars /\ UNCHANGED outputVars

-----------------------------------------------------------------------------
(* GetServices and handle, by either goroutine.                               *)

GoesTo(g, l) == at' = [at EXCEPT ![g] = l]

\* Faulty variant: the list keeps what was read before.
GetChildrenKeeps(g) ==
    /\ at[g] = "get"
    /\ children' = [children EXCEPT ![g] = IF up THEN nodes ELSE {}]
    /\ removed' = [removed EXCEPT ![g] = {}]
    /\ atStart' = [atStart EXCEPT ![g] = IF up THEN nodes ELSE {}]
    /\ GoesTo(g, "read")
    /\ UNCHANGED <<services, watch, quitChan>> /\ UNCHANGED zkVars /\ UNCHANGED outputVars

GetChildren(g) ==
    /\ at[g] = "get"
    /\ children' = [children EXCEPT ![g] = IF up THEN nodes ELSE {}]
    /\ services' = [services EXCEPT ![g] = <<>>]
    /\ removed' = [removed EXCEPT ![g] = {}]
    /\ atStart' = [atStart EXCEPT ![g] = IF up THEN nodes ELSE {}]
    /\ GoesTo(g, "read")
    /\ UNCHANGED <<watch, quitChan>> /\ UNCHANGED zkVars /\ UNCHANGED outputVars

\* A node that is gone or cannot be read is left out.
ReadChild(g, s) ==
    /\ at[g] = "read" /\ s \in children[g]
    /\ children' = [children EXCEPT ![g] = @ \ {s}]
    /\ services' = [services EXCEPT ![g] = IF up /\ s \in nodes THEN Append(@, s) ELSE @]
    /\ UNCHANGED <<at, watch, removed, atStart, quitChan>>
    /\ UNCHANGED zkVars /\ UNCHANGED outputVars

\* The watcher handles no empty list.
GetServicesEnds(g) ==
    /\ at[g] = "read" /\ children[g] = {}
    /\ GoesTo(g, IF g = "watcher" /\ services[g] = <<>> THEN "children" ELSE "write")
    /\ UNCHANGED <<watch, quitChan>>
    /\ UNCHANGED zkVars /\ UNCHANGED readVars /\ UNCHANGED outputVars

AfterHandle(g) == IF g = "watcher" THEN "children" ELSE "running"

\* The template or the file cannot be opened: "update nginx failed".
HandleFails(g) ==
    /\ at[g] \in {"write", "execute"}
    /\ GoesTo(g, AfterHandle(g))
    /\ UNCHANGED <<watch, quitChan>>
    /\ UNCHANGED zkVars /\ UNCHANGED readVars /\ UNCHANGED outputVars

\* The file is opened without truncation, and not locked.
HandleOpens(g) ==
    /\ at[g] = "write"
    /\ written' = [written EXCEPT ![g] = 0]
    /\ GoesTo(g, "execute")
    /\ UNCHANGED <<file, untold, watch, quitChan>>
    /\ UNCHANGED zkVars /\ UNCHANGED readVars

Text(g) == Append(services[g], End)

\* tmpl.Execute writes the text in pieces, each at the place where the one before ended.
HandleWrites(g) ==
    LET n == written[g] + 1 IN
    /\ at[g] = "execute" /\ n <= Len(Text(g))
    /\ written' = [written EXCEPT ![g] = n]
    /\ file' = IF n <= Len(file) THEN [file EXCEPT ![n] = Text(g)[n]] ELSE Append(file, Text(g)[n])
    /\ untold' = TRUE
    /\ UNCHANGED <<at, watch, quitChan>> /\ UNCHANGED zkVars /\ UNCHANGED readVars

\* nginx is told to load the file.
HandleReloads(g) ==
    /\ at[g] = "execute" /\ written[g] = Len(Text(g))
    /\ untold' = FALSE
    /\ GoesTo(g, AfterHandle(g))
    /\ UNCHANGED <<written, file, watch, quitChan>>
    /\ UNCHANGED zkVars /\ UNCHANGED readVars

-----------------------------------------------------------------------------
(* The goroutines.                                                            *)

\* Start ignores that StartWatcher fails.
StartWatcher ==
    /\ at["main"] = "start"
    /\ at' = [at EXCEPT !["main"] = "get", !["watcher"] = IF up THEN "children" ELSE "none"]
    /\ UNCHANGED <<watch, quitChan>>
    /\ UNCHANGED zkVars /\ UNCHANGED readVars /\ UNCHANGED outputVars

\* ChildrenW; the loop goes on calling it while ZooKeeper is away.
ChildrenW ==
    /\ at["watcher"] = "children" /\ up
    /\ watch' = "set"
    /\ GoesTo("watcher", "select")
    /\ UNCHANGED quitChan /\ UNCHANGED zkVars /\ UNCHANGED readVars /\ UNCHANGED outputVars

ChildEvent ==
    /\ at["watcher"] = "select" /\ watch = "fired"
    /\ watch' = "none"
    /\ GoesTo("watcher", "get")
    /\ UNCHANGED quitChan /\ UNCHANGED zkVars /\ UNCHANGED readVars /\ UNCHANGED outputVars

Quit ==
    /\ at["watcher"] = "select" /\ quitChan
    /\ quitChan' = FALSE
    /\ GoesTo("watcher", "done")
    /\ UNCHANGED watch /\ UNCHANGED zkVars /\ UNCHANGED readVars
    /\ UNCHANGED outputVars

\* Close asks the watcher to end, if there is one, and waits for it.
HubCloses ==
    /\ at["main"] = "running"
    /\ GoesTo("main", "close")
    /\ quitChan' = (at["watcher"] # "none")
    /\ UNCHANGED watch /\ UNCHANGED zkVars /\ UNCHANGED readVars /\ UNCHANGED outputVars

HubClosed ==
    /\ at["main"] = "close" /\ at["watcher"] \in {"none", "done"}
    /\ GoesTo("main", "closed")
    /\ UNCHANGED <<watch, quitChan>> /\ UNCHANGED zkVars /\ UNCHANGED readVars
    /\ UNCHANGED outputVars

GetsAndHandles(g) ==
    \/ GetChildren(g) \/ GetServicesEnds(g)
    \/ HandleFails(g) \/ HandleOpens(g) \/ HandleWrites(g) \/ HandleReloads(g)
    \/ \E s \in Services : ReadChild(g, s)

MainStep == StartWatcher \/ GetsAndHandles("main") \/ HubClosed
WatcherStep == ChildrenW \/ ChildEvent \/ Quit \/ GetsAndHandles("watcher")

WatcherNext ==
    \/ \E s \in Services : RegisterService(s) \/ RemoveService(s)
    \/ ZooKeeperOutage \/ MainStep \/ WatcherStep \/ HubCloses

\* The goroutines go on, and ZooKeeper comes back; a select that stays ready to quit does.
WatcherFairness ==
    /\ WF_watchVars(MainStep) /\ WF_watchVars(WatcherStep) /\ WF_watchVars(Quit)
    /\ WF_watchVars(~up /\ ZooKeeperOutage)

WatcherSpec == WatcherInit /\ [][WatcherNext]_watchVars /\ WatcherFairness

-----------------------------------------------------------------------------
(* Properties.                                                                *)

\* GetServices reads the nodes one after the other while services come and go: what is
\* written are services that were there when it began, and all of those that stayed,
\* as long as ZooKeeper answers.
ListIsRecent ==
    \A g \in Goroutines : at[g] = "write" =>
        /\ Range(services[g]) \subseteq atStart[g]
        /\ outages = 0 => atStart[g] \ removed[g] \subseteq Range(services[g])

\* Close returns, whatever the watcher is doing and although ZooKeeper was away.
HubCloseReturns == at["main"] = "close" ~> at["main"] = "closed"

-----------------------------------------------------------------------------
(* What the code does not keep: TLC has a counterexample to each, see the   *)
(* known disagreements in the README.                                       *)

\* "Iothub server provide device connection": when services stop changing and the hub
\* runs, nginx has those that are registered.  A change between a reading and the next
\* watch is missed, and so is one whose file cannot be written.
NginxFollows ==
    <>[](at["main"] = "running" /\ nodes # {} => Range(file) \ {End} = nodes /\ ~untold)

\* "update nginx successfuly": the file that was written is one configuration, with one end.
FileIsConfiguration ==
    \A g \in Goroutines :
        (at[g] = "execute" /\ written[g] = Len(Text(g))) =>
            \A i \in DOMAIN file : (file[i] = End) <=> (i = Len(file))
=============================================================================
