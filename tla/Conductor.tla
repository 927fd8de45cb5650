----------------------------- MODULE Conductor -----------------------------
(* iotmanager/conductor: runs a broker for every tenant that has products, by  *)
(* the cluster manager, which it extends.  Its handlers are called by the      *)
(* goroutines of the Kafka consumer, one for every partition of a topic, and   *)
(* by those of the REST interface; a mutex lets one of them work at a time.    *)
(* The database is seen through what the conductor asks of it: it may fail.    *)
EXTENDS ClusterManager

CONSTANTS
    Tenants, Products,
    NoTenant,       \* the empty tenant name
    Handlers,       \* goroutines that handle messages and requests
    Vias,           \* subset of {"rest", "kafka"}
    MaxCalls,       \* bound: operations asked for
    MaxFaults,      \* bound: errors of the database
    MaxCrashes      \* bound: crashes of the process

VARIABLES
    status,         \* of the process: "init", "up", "down"
    mem,            \* p.tenants
    db,             \* tenants in the collection "admin"; changes of their services and
                    \* products are not stored in it
    mutex,          \* who holds p.mutex
    task,           \* what each goroutine is doing
    messages,       \* messages of the API server that wait in Kafka
    subscribed,     \* topics whose partitions have their goroutines
    topic,          \* the loop variable of consumer.Start, which all of them share
    calls, faults, crashes, \* how often these have happened
    dbFailed        \* history: the database has failed to store a change

consumerVars == <<messages, subscribed, topic>>
countVars == <<calls, crashes>>
dbVars == <<db, faults, dbFailed>>
conductorVars == <<status, mem, db, mutex, task, messages, subscribed, topic,
                   calls, faults, crashes, dbFailed, clusterVars>>

Nobody == "nobody"
NoTopic == "none"

\* Names that p.tenants may have: products too, see HandleMessage.
TenantNames == Tenants \cup Products

ASSUME ConductorAssumption == Nobody \notin Handlers /\ NoTenant \notin TenantNames

Idle == [op |-> "none", at |-> "idle"]

Absent == [known |-> FALSE, products |-> {}, started |-> FALSE, service |-> 0]

\* createTenant: a new tenant has no products and no service.
NewTenant == [known |-> TRUE, products |-> {}, started |-> FALSE, service |-> 0]

ConductorInit ==
    /\ status = "init"
    /\ mem = [t \in TenantNames |-> Absent]
    /\ db = {}
    /\ mutex = Nobody
    /\ task = [h \in Handlers |-> Idle]
    /\ messages = {} /\ subscribed = {} /\ topic = NoTopic
    /\ calls = 0 /\ faults = 0 /\ crashes = 0
    /\ dbFailed = FALSE
    /\ ClusterManagerInit

-----------------------------------------------------------------------------
(* The process.                                                               *)

\* Initialize, then Start.  When the database has tenants, Initialize sends on
\* recoverChan, from which only the goroutine of Start receives.
Startup ==
    /\ status = "init" /\ db = {}
    /\ status' = "up"
    /\ UNCHANGED <<mem, mutex, task, dbVars, consumerVars, countVars, clusterVars>>

\* The consumer starts the goroutines of one topic after the other, in any order.
StartTopic(k) ==
    /\ "kafka" \in Vias /\ status = "up" /\ k \notin subscribed
    /\ subscribed' = subscribed \cup {k} /\ topic' = k
    /\ UNCHANGED <<status, mem, mutex, task, messages, dbVars, countVars, clusterVars>>

\* Everything in memory is gone; the database, Kafka and the brokers stay.
Crash ==
    /\ status \in {"up", "down"} /\ crashes < MaxCrashes
    /\ crashes' = crashes + 1
    /\ status' = "init"
    /\ mem' = [t \in TenantNames |-> Absent]
    /\ mutex' = Nobody
    /\ task' = [h \in Handlers |-> Idle]
    /\ subscribed' = {} /\ topic' = NoTopic
    /\ ClusterManagerRestarts
    /\ UNCHANGED <<messages, calls, dbVars>>

-----------------------------------------------------------------------------
(* Where the work comes from.                                                 *)

\* A message about a tenant has its name under the tag that a message about a product
\* has the product under; that names no tenant.
ApiServerPosts(k, action, name) ==
    /\ "kafka" \in Vias /\ calls < MaxCalls
    /\ messages' = messages \cup {[topic |-> k, action |-> action, name |-> name, no |-> calls]}
    /\ calls' = calls + 1
    /\ UNCHANGED <<status, mem, mutex, task, subscribed, topic, crashes, dbVars, clusterVars>>

Assign(h, op, t, p, via) ==
    /\ status = "up" /\ task[h].at = "idle"
    /\ task' = [task EXCEPT ![h] = [op |-> op, tenant |-> t, product |-> p,
                                    via |-> via, at |-> "lock"]]

\* messageHandlerFunc: producers choose partitions at random, so messages of one topic
\* are handled in any order.  The goroutine makes a message of the kind that the shared
\* variable names, whatever the topic of its partition is.
HandleMessage(h) ==
    \E m \in messages :
        /\ m.topic \in subscribed
        /\ IF topic = "tenant"
           THEN Assign(h, IF m.action = "register" THEN "CreateTenant" ELSE "RemoveTenant",
                       m.name, m.name, "kafka")
           ELSE Assign(h, IF m.action = "register" THEN "CreateProduct" ELSE "RemoveProduct",
                       NoTenant, m.name, "kafka")
        /\ messages' = messages \ {m}
        /\ UNCHANGED <<status, mem, mutex, subscribed, topic, dbVars, countVars, clusterVars>>

RestRequest(h, op, t, p) ==
    /\ "rest" \in Vias /\ calls < MaxCalls
    /\ Assign(h, op, t, p, "rest")
    /\ calls' = calls + 1
    /\ UNCHANGED <<status, mem, mutex, crashes, dbVars, consumerVars, clusterVars>>

\* p.mutex.Lock(): a goroutine that holds it already waits as well.
Lock(h) ==
    /\ status = "up" /\ task[h].at = "lock" /\ mutex = Nobody
    /\ mutex' = h
    /\ task' = [task EXCEPT ![h].at = "run"]
    /\ UNCHANGED <<status, mem, dbVars, consumerVars, countVars, clusterVars>>

-----------------------------------------------------------------------------
(* The handlers, with the mutex held.                                         *)

Runs(h, op) == status = "up" /\ mutex = h /\ task[h].op = op /\ task[h].at = "run"

Known(t) == t \in TenantNames /\ mem[t].known

Unlock(h) == mutex' = Nobody /\ task' = [task EXCEPT ![h] = Idle]

\* Faulty variant: the mutex is not released on the way out of a panic.
PanicsLocked(h) ==
    /\ status' = IF task[h].via = "kafka" THEN "down" ELSE status
    /\ task' = [task EXCEPT ![h] = Idle]
    /\ UNCHANGED mutex

\* The deferred Unlock runs; the HTTP server recovers, a goroutine of the consumer ends
\* the process.
Panics(h) ==
    /\ status' = IF task[h].via = "kafka" THEN "down" ELSE status
    /\ Unlock(h)

\* An error of the database is ignored by all callers.
Store(newDb) ==
    \/ db' = newDb /\ UNCHANGED <<faults, dbFailed>>
    \/ /\ faults < MaxFaults /\ faults' = faults + 1
       /\ dbFailed' = TRUE /\ UNCHANGED db

CreateTenant(h) ==
    LET t == task[h].tenant IN
    /\ Runs(h, "CreateTenant") /\ Unlock(h)
    /\ IF Known(t)
       THEN UNCHANGED <<mem, dbVars>>
       ELSE mem' = [mem EXCEPT ![t] = NewTenant] /\ Store(db \cup {t})
    /\ UNCHANGED <<status, consumerVars, countVars, clusterVars>>

\* removeTenant and removeProduct end in the panic of RemoveService.
Removal(h) == IF task[h].op = "RemoveTenant" THEN mem[task[h].tenant].started
              ELSE mem[task[h].tenant].products = {task[h].product}

\* Faulty variant: the database is told before the service is removed.
RemoveServicePanicsLate(h) ==
    LET t == task[h].tenant IN
    /\ Runs(h, "RemoveTenant") \/ Runs(h, "RemoveProduct")
    /\ Known(t) /\ Removal(h)
    /\ LocalRemovePanics(mem[t].service)
    /\ IF task[h].op = "RemoveProduct"
       THEN mem' = [mem EXCEPT ![t].products = {}] /\ UNCHANGED dbVars
       ELSE Store(db \ {t}) /\ UNCHANGED mem
    /\ Panics(h)
    /\ UNCHANGED <<consumerVars, countVars>>

\* removeProduct has taken the product off already, removeTenant has changed nothing.
RemoveServicePanics(h) ==
    LET t == task[h].tenant IN
    /\ Runs(h, "RemoveTenant") \/ Runs(h, "RemoveProduct")
    /\ Known(t) /\ Removal(h)
    /\ LocalRemovePanics(mem[t].service)
    /\ mem' = IF task[h].op = "RemoveProduct" THEN [mem EXCEPT ![t].products = {}] ELSE mem
    /\ Panics(h)
    /\ UNCHANGED <<dbVars, consumerVars, countVars>>

\* The manager does not know the id, which removeTenant and removeProduct ignore.
NotFound(t) == ~HasId(services, mem[t].service)

\* removeTenant, with the mutex held, calls removeProduct for every product of the
\* tenant, and removeProduct locks the mutex.
RemoveTenant(h) ==
    LET t == task[h].tenant IN
    /\ Runs(h, "RemoveTenant")
    /\ Known(t) /\ mem[t].started => NotFound(t)
    /\ IF Known(t) /\ mem[t].products # {}
       THEN task' = [task EXCEPT ![h].at = "lock"] /\ UNCHANGED <<mem, mutex, dbVars>>
       ELSE /\ Unlock(h)
            /\ IF Known(t) THEN mem' = [mem EXCEPT ![t] = Absent] /\ Store(db \ {t})
               ELSE UNCHANGED <<mem, dbVars>>
    /\ UNCHANGED <<status, consumerVars, countVars, clusterVars>>

\* createProduct for a tenant that p.tenants does not have dereferences nil.
CreateProductPanics(h) ==
    /\ Runs(h, "CreateProduct") /\ ~Known(task[h].tenant)
    /\ Panics(h)
    /\ UNCHANGED <<mem, dbVars, consumerVars, countVars, clusterVars>>

\* The first product of a tenant creates the service.
CreateProduct(h) ==
    LET t == task[h].tenant
        p == task[h].product
    IN
    /\ Runs(h, "CreateProduct") /\ Known(t)
    /\ \/ (p \in mem[t].products \/ mem[t].started)
          /\ mem' = [mem EXCEPT ![t].products = @ \cup {p}]
          /\ UNCHANGED clusterVars
       \/ p \notin mem[t].products /\ ~mem[t].started
          /\ LocalCreateService(t)
          /\ mem' = [mem EXCEPT ![t] = [known |-> TRUE, products |-> @.products \cup {p},
                                        started |-> TRUE, service |-> LocalServiceId]]
       \/ p \notin mem[t].products /\ ~mem[t].started
          /\ CreateServiceError(t)
          /\ UNCHANGED mem
    /\ Unlock(h)
    /\ UNCHANGED <<status, dbVars, consumerVars, countVars>>

\* The last product of a tenant removes the service.
RemoveProduct(h) ==
    LET t == task[h].tenant
        p == task[h].product
    IN
    /\ Runs(h, "RemoveProduct")
    /\ IF Known(t) /\ p \in mem[t].products
       THEN /\ mem[t].products = {p} => NotFound(t)
            /\ mem' = [mem EXCEPT ![t].products = @ \ {p},
                                  ![t].started = @ /\ mem[t].products # {p}]
       ELSE UNCHANGED mem
    /\ Unlock(h)
    /\ UNCHANGED <<status, dbVars, consumerVars, countVars, clusterVars>>

-----------------------------------------------------------------------------
Handle(h) ==
    \/ Lock(h) \/ CreateTenant(h) \/ RemoveTenant(h) \/ RemoveServicePanics(h)
    \/ CreateProduct(h) \/ CreateProductPanics(h) \/ RemoveProduct(h)

Ops == {"CreateTenant", "RemoveTenant", "CreateProduct", "RemoveProduct"}

Ask ==
    \/ \E action \in {"register", "unregister"} :
          \/ \E t \in Tenants : ApiServerPosts("tenant", action, t)
          \/ \E p \in Products : ApiServerPosts("product", action, p)
    \/ \E h \in Handlers, op \in Ops, t \in Tenants, p \in Products : RestRequest(h, op, t, p)

ConductorNext ==
    \/ Startup \/ Crash \/ Ask
    \/ \E k \in {"tenant", "product"} : StartTopic(k)
    \/ \E h \in Handlers : HandleMessage(h) \/ Handle(h)

ConductorSpec == ConductorInit /\ [][ConductorNext]_conductorVars

-----------------------------------------------------------------------------
(* Properties.                                                                *)

\* Whenever no handler is at work, the database has the tenants that the conductor
\* has, unless it has failed: handlers that panic on the way leave them the same.
TenantsStored ==
    (status = "up" /\ mutex = Nobody /\ ~dbFailed) => db = {t \in TenantNames : mem[t].known}

\* A handler is at work only with the mutex, and the mutex belongs to a handler that has
\* not come to its end: none leaves it behind, also not on the way out of a panic.
MutexGuards ==
    /\ \A h \in Handlers : task[h].at = "run" => mutex = h
    /\ mutex # Nobody => mutex \in Handlers /\ task[mutex].at # "idle"

-----------------------------------------------------------------------------
(* What the code does not keep: TLC has a counterexample to each, see the   *)
(* known disagreements in the README.                                       *)

\* removeTenant waits for the mutex that it holds.
LockedOut == mutex # Nobody /\ task[mutex].at = "lock"

\* A conductor that was started again comes up and recovers.
Recovers == status = "init" ~> status = "up"

\* A tenant that is removed is gone, products or not.
RemovalCompletes == ~LockedOut

\* A notification about a product is handled and the conductor goes on.
ProductNotified == status # "down"

\* Only tenants are tenants of the conductor.
OnlyTenants == \A t \in TenantNames \ Tenants : ~mem[t].known

\* A tenant that has no products has no broker, and neither has one that is not known.
BrokersEnd ==
    mutex = Nobody => \A b \in running : mem[b.tenant].products # {}

\* Tenants with a service have one each.
IdsDiffer ==
    \A t, u \in TenantNames : (mem[t].started /\ mem[u].started /\ t # u)
                            => mem[t].service # mem[u].service

\* Brokers that run at the same time have ports of their own.
PortsDiffer == \A b, c \in running : b.port = c.port => b = c

\* A request for a product of a known tenant that ends leaves the product there.
ProductsCreated ==
    [][\A h \in Handlers :
         (Runs(h, "CreateProduct") /\ Known(task[h].tenant) /\ task'[h] = Idle)
             => task[h].product \in mem'[task[h].tenant].products]_conductorVars
=============================================================================
