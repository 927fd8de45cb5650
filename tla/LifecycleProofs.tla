-------------------------- MODULE LifecycleProofs --------------------------
(* The start and the end of services, for any tenants, requests, failures,    *)
(* crashes and signals: the conductor keeps its tenants in its database, and   *)
(* the service manager of a process stops its services one after the other.    *)
EXTENDS Conductor, ServiceManager, FiniteSetTheorems, Integers, TLAPS

-----------------------------------------------------------------------------
(* The conductor, its tenants and its database.                               *)

TenantRecord == [known : BOOLEAN, products : SUBSET Products, started : BOOLEAN, service : Nat]

TaskRecord ==
    [op : Ops, tenant : TenantNames \cup {NoTenant}, product : TenantNames,
     via : {"rest", "kafka"}, at : {"lock", "run"}]

\* Only what is asked about products may name no tenant, and it names a product.
TaskOK(q) ==
    q.at # "idle" => /\ q \in TaskRecord
                     /\ q.op \in {"CreateTenant", "RemoveTenant"} => q.tenant \in TenantNames
                     /\ q.tenant # NoTenant /\ q.op = "CreateProduct" => q.product \in Products

TasksOK(ts) == ts = [h \in Handlers |-> ts[h]] /\ \A h \in Handlers : TaskOK(ts[h])

ConductorType ==
    /\ mem \in [TenantNames -> TenantRecord]
    /\ dbFailed \in BOOLEAN
    /\ TasksOK(task)
    /\ IsFiniteSet(services)
    /\ \A m \in messages : m.name \in TenantNames

KnownTenants(m) == {t \in TenantNames : m[t].known}

\* Inductive: with the types, the database has what is known at every moment that the
\* process is up, and nothing is known before.
ConductorInv ==
    /\ ConductorType
    /\ status = "init" => mem = [t \in TenantNames |-> Absent]
    /\ status = "up" /\ dbFailed = FALSE => db = KnownTenants(mem)

\* The invariant holds when the process starts for the first time.
LEMMA ConductorStart == ConductorInit => ConductorInv
<1> SUFFICES ASSUME ConductorInit PROVE ConductorInv
    OBVIOUS
<1>1. Absent \in TenantRecord
    BY DEF Absent, TenantRecord
<1>2. TaskOK(Idle)
    BY DEF TaskOK, Idle
<1>3. mem \in [TenantNames -> TenantRecord]
    BY <1>1 DEF ConductorInit
<1>4. IsFiniteSet(services)
    BY FS_EmptySet DEF ConductorInit, ClusterManagerInit
<1>5. TasksOK(task)
    BY <1>2 DEF ConductorInit, TasksOK
<1> QED
    BY <1>3, <1>4, <1>5 DEF ConductorInit, ConductorInv, ConductorType

\* A task becomes q.
LEMMA TaskMoves ==
    ASSUME TasksOK(task), NEW h \in Handlers, NEW q, TaskOK(q), task' = [task EXCEPT ![h] = q]
    PROVE  TasksOK(task')
BY DEF TasksOK

\* The handler that unlocks the mutex is idle again, the others go on.
LEMMA UnlockMoves ==
    ASSUME TasksOK(task), NEW h \in Handlers, Unlock(h)
    PROVE  TasksOK(task')
<1>1. TaskOK(Idle)
    BY DEF TaskOK, Idle
<1> QED
    BY <1>1, TaskMoves, Zenon DEF Unlock

\* A step that leaves tenants and database alone.
LEMMA ConductorKeeps ==
    ASSUME ConductorInv, UNCHANGED <<status, mem, db, dbFailed>>, TasksOK(task'),
           IsFiniteSet(services'), \A m \in messages' : m.name \in TenantNames
    PROVE  ConductorInv'
BY DEF ConductorInv, ConductorType, KnownTenants

\* A handler leaves the names that are known and the database alone; a panic may end the
\* process.
LEMMA HandlerKeeps ==
    ASSUME ConductorInv, status = "up", status' \in {"up", "down"},
           mem' \in [TenantNames -> TenantRecord], KnownTenants(mem') = KnownTenants(mem),
           UNCHANGED <<db, dbFailed, messages>>, TasksOK(task'), IsFiniteSet(services')
    PROVE  ConductorInv'
BY DEF ConductorInv, ConductorType

\* The names that are known change together with the database, or the database fails.
LEMMA StoreKeeps ==
    ASSUME ConductorInv, status = "up", status' = "up", NEW d, Store(d),
           mem' \in [TenantNames -> TenantRecord],
           db = KnownTenants(mem) => d = KnownTenants(mem'),
           UNCHANGED <<messages, services>>, TasksOK(task')
    PROVE  ConductorInv'
<1>1. \/ db' = d /\ dbFailed' = dbFailed
      \/ dbFailed' = TRUE
    BY DEF Store
<1> QED
    BY <1>1 DEF ConductorInv, ConductorType

\* What a handler that runs knows of its task.
LEMMA HandlerFinds ==
    ASSUME ConductorInv, NEW h \in Handlers, NEW op, Runs(h, op)
    PROVE  /\ task[h] \in TaskRecord /\ TaskOK(task[h]) /\ task[h].op = op
           /\ task[h].at = "run" /\ status = "up"
BY DEF ConductorInv, ConductorType, TasksOK, TaskOK, Runs

\* createTenant.
LEMMA CreateTenantKeeps ==
    ASSUME ConductorInv, NEW h \in Handlers, CreateTenant(h)
    PROVE  ConductorInv'
<1> DEFINE t == task[h].tenant
<1>1. /\ Runs(h, "CreateTenant") /\ Unlock(h)
      /\ IF Known(t) THEN UNCHANGED <<mem, dbVars>>
                     ELSE mem' = [mem EXCEPT ![t] = NewTenant] /\ Store(db \cup {t})
      /\ UNCHANGED <<status, messages, services>>
    BY DEF CreateTenant, consumerVars, clusterVars
<1>2. t \in TenantNames /\ status = "up"
    BY <1>1, HandlerFinds DEF TaskOK
<1>3. TasksOK(task')
    BY <1>1, UnlockMoves DEF ConductorInv, ConductorType
<1>4. CASE Known(t)
    BY <1>1, <1>3, <1>4, ConductorKeeps DEF ConductorInv, ConductorType, dbVars
<1>5. CASE ~Known(t)
    <2>1. NewTenant \in TenantRecord /\ NewTenant.known = TRUE
        BY DEF NewTenant, TenantRecord
    <2> HIDE DEF t
    <2>2. mem \in [TenantNames -> TenantRecord] /\ mem' = [mem EXCEPT ![t] = NewTenant]
        BY <1>1, <1>5 DEF ConductorInv, ConductorType
    <2>3. /\ mem' \in [TenantNames -> TenantRecord]
          /\ KnownTenants(mem') = KnownTenants(mem) \cup {t}
        BY <1>2, <2>1, <2>2 DEF KnownTenants
    <2> QED
        BY <1>1, <1>2, <1>3, <1>5, <2>3, StoreKeeps
<1> QED
    BY <1>4, <1>5

\* removeTenant, when it does not panic.
LEMMA RemoveTenantKeeps ==
    ASSUME ConductorInv, NEW h \in Handlers, RemoveTenant(h)
    PROVE  ConductorInv'
<1> DEFINE t == task[h].tenant
<1>1. /\ Runs(h, "RemoveTenant")
      /\ UNCHANGED <<status, messages, services>>
      /\ \/ task' = [task EXCEPT ![h].at = "lock"] /\ UNCHANGED <<mem, db, dbFailed>>
         \/ Unlock(h) /\ UNCHANGED <<mem, db, dbFailed>>
         \/ /\ Unlock(h)
            /\ mem' = [mem EXCEPT ![t] = Absent] /\ Store(db \ {t})
    BY DEF RemoveTenant, consumerVars, clusterVars, dbVars
<1>2. t \in TenantNames /\ status = "up" /\ task[h] \in TaskRecord /\ TaskOK(task[h])
    BY <1>1, HandlerFinds DEF TaskOK
<1>3. TasksOK(task) /\ IsFiniteSet(services) /\ \A m \in messages : m.name \in TenantNames
    BY DEF ConductorInv, ConductorType
<1>4. CASE task' = [task EXCEPT ![h].at = "lock"] /\ UNCHANGED <<mem, db, dbFailed>>
    <2>1. TaskOK([task[h] EXCEPT !.at = "lock"])
        BY <1>2 DEF TaskOK, TaskRecord
    <2>2. TasksOK(task')
        BY <1>3, <1>4, <2>1, TaskMoves
    <2> QED
        BY <1>1, <1>3, <1>4, <2>2, ConductorKeeps
<1>5. CASE Unlock(h) /\ UNCHANGED <<mem, db, dbFailed>>
    BY <1>1, <1>3, <1>5, UnlockMoves, ConductorKeeps
<1>6. CASE Unlock(h) /\ mem' = [mem EXCEPT ![t] = Absent] /\ Store(db \ {t})
    <2>1. Absent \in TenantRecord /\ Absent.known = FALSE
        BY DEF Absent, TenantRecord
    <2> HIDE DEF t
    <2>2. mem \in [TenantNames -> TenantRecord]
        BY DEF ConductorInv, ConductorType
    <2>3. /\ mem' \in [TenantNames -> TenantRecord]
          /\ KnownTenants(mem') = KnownTenants(mem) \ {t}
        BY <1>2, <1>6, <2>1, <2>2 DEF KnownTenants
    <2> QED
        BY <1>1, <1>2, <1>3, <1>6, <2>3, UnlockMoves, StoreKeeps
<1> QED
    BY <1>1, <1>4, <1>5, <1>6

\* A record changes, but not whether its tenant is known.
LEMMA TenantChanges ==
    ASSUME mem \in [TenantNames -> TenantRecord], NEW t \in TenantNames,
           NEW r \in TenantRecord, r.known = mem[t].known, mem' = [mem EXCEPT ![t] = r]
    PROVE  /\ mem' \in [TenantNames -> TenantRecord]
           /\ KnownTenants(mem') = KnownTenants(mem)
BY DEF KnownTenants

\* The panic of RemoveService.
LEMMA RemovePanicsKeeps ==
    ASSUME ConductorInv, NEW h \in Handlers, RemoveServicePanics(h)
    PROVE  ConductorInv'
<1> DEFINE t == task[h].tenant
           r == [mem[t] EXCEPT !.products = {}]
<1>1. /\ status = "up" /\ status' \in {"down", status} /\ Known(t) /\ Unlock(h)
      /\ services' \subseteq services
      /\ mem' = [mem EXCEPT ![t] = r] \/ mem' = mem
      /\ UNCHANGED <<db, dbFailed, messages>>
    BY DEF RemoveServicePanics, Panics, Runs, LocalRemovePanics, consumerVars, dbVars
<1>2. t \in TenantNames /\ TasksOK(task')
    BY <1>1, UnlockMoves DEF Known, ConductorInv, ConductorType
<1>3. mem \in [TenantNames -> TenantRecord] /\ IsFiniteSet(services)
    BY DEF ConductorInv, ConductorType
<1>4. r \in TenantRecord /\ r.known = mem[t].known
    BY <1>2, <1>3 DEF TenantRecord
<1>5. IsFiniteSet(services')
    BY <1>1, <1>3, FS_Subset
<1> HIDE DEF r, t
<1>6. /\ mem' \in [TenantNames -> TenantRecord]
      /\ KnownTenants(mem') = KnownTenants(mem)
    BY <1>1, <1>2, <1>3, <1>4, TenantChanges
<1> QED
    BY <1>1, <1>2, <1>5, <1>6, HandlerKeeps

\* The manager's map stays finite.
LEMMA PutFinite ==
    ASSUME NEW map, IsFiniteSet(map), NEW id, NEW no
    PROVE  IsFiniteSet(Put(map, id, no))
<1>1. IsFiniteSet({e \in map : e.id # id})
    BY FS_Subset
<1> QED
    BY <1>1, FS_AddElement DEF Put

\* createProduct.
LEMMA CreateProductKeeps ==
    ASSUME ConductorInv, NEW h \in Handlers, CreateProduct(h)
    PROVE  ConductorInv'
<1> DEFINE t == task[h].tenant
           p == task[h].product
           a == [mem[t] EXCEPT !.products = @ \cup {p}]
           n == [known |-> TRUE, products |-> mem[t].products \cup {p}, started |-> TRUE,
                 service |-> LocalServiceId]
<1>1. /\ Runs(h, "CreateProduct") /\ Known(t) /\ Unlock(h) /\ status' = status
      /\ UNCHANGED <<db, dbFailed, messages>>
    BY DEF CreateProduct, consumerVars, dbVars
<1>2. \/ mem' = [mem EXCEPT ![t] = a] /\ services' = services
      \/ mem' = [mem EXCEPT ![t] = n] /\ services' = Put(services, LocalServiceId, NewNo)
      \/ mem' = mem /\ services' = services
      \/ mem' = mem /\ services' = Put(services, 0, NewNo)
    BY Zenon DEF CreateProduct, LocalCreateService, CreateServiceError, SwarmCreateFails,
                 NothingCreated, clusterVars
<1>3. t \in TenantNames /\ mem[t].known = TRUE
    BY <1>1 DEF Known, ConductorInv, ConductorType, TenantRecord
<1>4. status = "up" /\ p \in Products
    BY <1>1, <1>3, HandlerFinds, ConductorAssumption DEF TaskOK
<1>5. mem \in [TenantNames -> TenantRecord] /\ IsFiniteSet(services) /\ TasksOK(task)
    BY DEF ConductorInv, ConductorType
<1>6. LocalServiceId \in Nat
    BY <1>5, FS_CardinalityType DEF LocalServiceId
<1>7. a \in TenantRecord /\ a.known = mem[t].known
    BY <1>3, <1>4, <1>5 DEF TenantRecord
<1>8. n \in TenantRecord /\ n.known = mem[t].known
    BY <1>3, <1>4, <1>5, <1>6 DEF TenantRecord
<1>9. IsFiniteSet(services')
    BY <1>2, <1>5, PutFinite
<1> HIDE DEF a, n, t
<1>10. /\ mem' \in [TenantNames -> TenantRecord]
       /\ KnownTenants(mem') = KnownTenants(mem)
    BY <1>2, <1>3, <1>5, <1>7, <1>8, TenantChanges
<1> QED
    BY <1>1, <1>4, <1>5, <1>9, <1>10, UnlockMoves, HandlerKeeps

\* removeProduct, when it does not panic.
LEMMA RemoveProductKeeps ==
    ASSUME ConductorInv, NEW h \in Handlers, RemoveProduct(h)
    PROVE  ConductorInv'
<1> DEFINE t == task[h].tenant
           p == task[h].product
           r == [mem[t] EXCEPT !.products = @ \ {p}, !.started = @ /\ mem[t].products # {p}]
<1>1. /\ Runs(h, "RemoveProduct") /\ Unlock(h)
      /\ UNCHANGED <<status, db, dbFailed, messages, services>>
      /\ mem' = mem \/ (Known(t) /\ mem' = [mem EXCEPT ![t] = r])
    BY DEF RemoveProduct, consumerVars, clusterVars, dbVars
<1>2. mem \in [TenantNames -> TenantRecord] /\ IsFiniteSet(services) /\ TasksOK(task)
    BY DEF ConductorInv, ConductorType
<1>3. t \in TenantNames => r \in TenantRecord /\ r.known = mem[t].known
    BY <1>2 DEF TenantRecord
<1> HIDE DEF r, t
<1>4. /\ mem' \in [TenantNames -> TenantRecord]
      /\ KnownTenants(mem') = KnownTenants(mem)
    BY <1>1, <1>2, <1>3, TenantChanges DEF Known
<1>5. status = "up"
    BY <1>1 DEF Runs
<1> QED
    BY <1>1, <1>2, <1>4, <1>5, UnlockMoves, HandlerKeeps

\* A goroutine gets work.
LEMMA AssignKeeps ==
    ASSUME ConductorInv, NEW h \in Handlers, NEW op \in Ops,
           NEW t \in TenantNames \cup {NoTenant}, NEW p \in TenantNames,
           NEW via \in {"rest", "kafka"},
           op \in {"CreateTenant", "RemoveTenant"} => t \in TenantNames,
           t # NoTenant /\ op = "CreateProduct" => p \in Products,
           Assign(h, op, t, p, via), messages' \subseteq messages,
           UNCHANGED <<status, mem, db, dbFailed, services>>
    PROVE  ConductorInv'
<1> DEFINE q == [op |-> op, tenant |-> t, product |-> p, via |-> via, at |-> "lock"]
<1>1. task' = [task EXCEPT ![h] = q]
    BY DEF Assign
<1>2. TaskOK(q)
    BY DEF TaskOK, TaskRecord
<1> HIDE DEF q
<1>3. TasksOK(task')
    BY <1>1, <1>2, TaskMoves DEF ConductorInv, ConductorType
<1> QED
    BY <1>3, ConductorKeeps DEF ConductorInv, ConductorType

\* Every step of the conductor keeps the invariant.
LEMMA ConductorStep == ConductorInv /\ [ConductorNext]_conductorVars => ConductorInv'
<1> SUFFICES ASSUME ConductorInv, [ConductorNext]_conductorVars PROVE ConductorInv'
    OBVIOUS
<1>1. /\ TasksOK(task) /\ IsFiniteSet(services) /\ mem \in [TenantNames -> TenantRecord]
      /\ \A m \in messages : m.name \in TenantNames
    BY DEF ConductorInv, ConductorType
<1>2. CASE Startup
    <2>1. KnownTenants([t \in TenantNames |-> Absent]) = {}
        BY DEF KnownTenants, Absent
    <2>2. UNCHANGED <<mem, db, task, messages, services, dbFailed>> /\ status' = "up"
        BY <1>2 DEF Startup, dbVars, consumerVars, clusterVars
    <2>3. mem = [t \in TenantNames |-> Absent] /\ db = {}
        BY <1>2 DEF ConductorInv, Startup
    <2> QED
        BY <2>1, <2>2, <2>3 DEF ConductorInv, ConductorType
<1>3. CASE Crash
    <2>1. Absent \in TenantRecord /\ TaskOK(Idle)
        BY DEF Absent, TenantRecord, TaskOK, Idle
    <2>2. /\ status' = "init" /\ mem' = [t \in TenantNames |-> Absent]
          /\ task' = [h \in Handlers |-> Idle] /\ services' = {}
          /\ UNCHANGED <<messages, dbFailed>>
        BY <1>3 DEF Crash, ClusterManagerRestarts, dbVars
    <2>3. IsFiniteSet(services')
        BY <2>2, FS_EmptySet
    <2>4. TasksOK(task')
        BY <2>1, <2>2 DEF TasksOK
    <2> QED
        BY <2>1, <2>2, <2>3, <2>4 DEF ConductorInv, ConductorType
<1>4. ASSUME NEW k, NEW action, NEW name \in TenantNames, ApiServerPosts(k, action, name)
      PROVE  ConductorInv'
    <2>1. /\ messages' = messages \cup
                 {[topic |-> k, action |-> action, name |-> name, no |-> calls]}
          /\ UNCHANGED <<status, mem, db, task, services, dbFailed>>
        BY <1>4 DEF ApiServerPosts, dbVars, clusterVars
    <2>2. \A m \in messages' : m.name \in TenantNames
        BY <1>1, <2>1
    <2> QED
        BY <1>1, <2>1, <2>2, ConductorKeeps
<1>5. ASSUME NEW op \in Ops, NEW t \in Tenants, NEW p \in Products, NEW h \in Handlers,
             RestRequest(h, op, t, p)
      PROVE ConductorInv'
    <2>1. /\ Assign(h, op, t, p, "rest")
          /\ UNCHANGED <<status, mem, db, dbFailed, services, messages>>
        BY <1>5 DEF RestRequest, dbVars, consumerVars, clusterVars
    <2> QED
        BY <2>1, AssignKeeps DEF TenantNames
<1>6. ASSUME NEW h \in Handlers, HandleMessage(h) PROVE ConductorInv'
    <2> PICK m \in messages :
           /\ \E op \in Ops :
                 \/ /\ op \in {"CreateTenant", "RemoveTenant"}
                    /\ Assign(h, op, m.name, m.name, "kafka")
                 \/ /\ op \in {"CreateProduct", "RemoveProduct"}
                    /\ Assign(h, op, NoTenant, m.name, "kafka")
           /\ messages' = messages \ {m}
           /\ UNCHANGED <<status, mem, db, dbFailed, services>>
        BY <1>6 DEF HandleMessage, Ops, dbVars, clusterVars
    <2>1. m.name \in TenantNames
        BY <1>1
    <2> QED
        BY <2>1, AssignKeeps
<1>7. ASSUME NEW h \in Handlers, Lock(h) PROVE ConductorInv'
    <2> DEFINE q == [task[h] EXCEPT !.at = "run"]
    <2>1. /\ task' = [task EXCEPT ![h] = q] /\ task[h].at = "lock"
          /\ UNCHANGED <<status, mem, db, dbFailed, services, messages>>
        BY <1>7 DEF Lock, dbVars, consumerVars, clusterVars
    <2>2. TaskOK(q)
        BY <1>1, <2>1 DEF TasksOK, TaskOK, TaskRecord
    <2> HIDE DEF q
    <2>3. TasksOK(task')
        BY <1>1, <2>1, <2>2, TaskMoves
    <2> QED
        BY <1>1, <2>1, <2>3, ConductorKeeps
<1>8. ASSUME NEW h \in Handlers, CreateProductPanics(h) PROVE ConductorInv'
    <2>1. /\ status = "up" /\ status' \in {"down", status} /\ Unlock(h)
          /\ UNCHANGED <<mem, db, dbFailed, services, messages>>
        BY <1>8 DEF CreateProductPanics, Panics, Runs, dbVars, consumerVars, clusterVars
    <2> QED
        BY <1>1, <2>1, UnlockMoves, HandlerKeeps
<1>9. ASSUME NEW k, StartTopic(k) PROVE ConductorInv'
    BY <1>1, <1>9, ConductorKeeps DEF StartTopic, dbVars, clusterVars
<1>10. CASE UNCHANGED conductorVars
    BY <1>1, <1>10, ConductorKeeps DEF conductorVars, clusterVars
<1>11. \A t \in Tenants \cup Products : t \in TenantNames
    BY DEF TenantNames
<1>12. CASE Ask
    BY <1>4, <1>5, <1>11, <1>12, Zenon DEF Ask
<1> QED
    BY <1>2, <1>3, <1>6, <1>7, <1>8, <1>9, <1>10, <1>12, CreateTenantKeeps, RemoveTenantKeeps,
       CreateProductKeeps, RemovePanicsKeeps, RemoveProductKeeps, Zenon
       DEF ConductorNext, Handle

\* For any tenants, products and goroutines, with any number of failures, panics and
\* crashes: whenever no handler is at work, the database has the tenants of the conductor
\* unless it has failed (createTenant, removeTenant and what they call).
THEOREM TenantsAreStored == ConductorSpec => []TenantsStored
<1>1. ConductorInv => TenantsStored
    BY DEF ConductorInv, ConductorType, KnownTenants, TenantsStored
<1> QED
    BY <1>1, ConductorStart, ConductorStep, PTL DEF ConductorSpec

\* Only Lock takes the mutex, and only the handler that has it goes on.
MutexMoves ==
    \/ UNCHANGED <<mutex, task>>
    \/ mutex' = Nobody /\ task' = [h \in Handlers |-> Idle]
    \/ \E h \in Handlers : mutex = h /\ Unlock(h)
    \/ \E h \in Handlers, q \in TaskRecord :
          /\ task' = [task EXCEPT ![h] = q]
          /\ \/ q.at = "lock" /\ mutex' = mutex /\ (task[h].at = "idle" \/ mutex = h)
             \/ q.at = "run" /\ mutex = Nobody /\ mutex' = h

\* The steps of a handler move the mutex in these ways.
LEMMA HandlerMoves ==
    ASSUME ConductorInv, NEW h \in Handlers, Handle(h)
    PROVE  MutexMoves
<1>1. CASE Lock(h)
    <2>1. task[h] \in TaskRecord
        BY <1>1 DEF ConductorInv, ConductorType, TasksOK, TaskOK, Lock
    <2> DEFINE q == [task[h] EXCEPT !.at = "run"]
    <2>2. q \in TaskRecord /\ q.at = "run"
        BY <2>1 DEF TaskRecord
    <2>3. task' = [task EXCEPT ![h] = q] /\ mutex = Nobody /\ mutex' = h
        BY <1>1 DEF Lock
    <2> QED
        BY <2>2, <2>3, Zenon DEF MutexMoves
<1>2. CASE RemoveTenant(h)
    <2>1. mutex = h /\ task[h] \in TaskRecord
        BY <1>2, HandlerFinds DEF RemoveTenant, Runs
    <2> DEFINE q == [task[h] EXCEPT !.at = "lock"]
    <2>2. q \in TaskRecord /\ q.at = "lock"
        BY <2>1 DEF TaskRecord
    <2>3. Unlock(h) \/ (task' = [task EXCEPT ![h] = q] /\ mutex' = mutex)
        BY <1>2 DEF RemoveTenant
    <2> QED
        BY <2>1, <2>2, <2>3, Zenon DEF MutexMoves
<1>3. CASE CreateTenant(h) \/ CreateProduct(h) \/ RemoveProduct(h)
    BY <1>3, Zenon DEF CreateTenant, CreateProduct, RemoveProduct, Runs, MutexMoves
<1>4. CASE RemoveServicePanics(h) \/ CreateProductPanics(h)
    BY <1>4, Zenon DEF RemoveServicePanics, CreateProductPanics, Panics, Runs, MutexMoves
<1> QED
    BY <1>1, <1>2, <1>3, <1>4 DEF Handle

\* A task that is given to an idle handler waits for the mutex.
LEMMA AssignMoves ==
    ASSUME NEW h \in Handlers, NEW op \in Ops, NEW t \in TenantNames \cup {NoTenant},
           NEW p \in TenantNames, NEW via \in {"rest", "kafka"},
           Assign(h, op, t, p, via), mutex' = mutex
    PROVE  MutexMoves
<1> DEFINE q == [op |-> op, tenant |-> t, product |-> p, via |-> via, at |-> "lock"]
<1>1. q \in TaskRecord /\ q.at = "lock"
    BY DEF TaskRecord
<1>2. task' = [task EXCEPT ![h] = q] /\ task[h].at = "idle"
    BY DEF Assign
<1> QED
    BY <1>1, <1>2, Zenon DEF MutexMoves

\* Every step moves the mutex in these ways.
LEMMA ConductorMoves ==
    ASSUME ConductorInv, [ConductorNext]_conductorVars
    PROVE  MutexMoves
<1>1. CASE \E h \in Handlers : Handle(h)
    BY <1>1, HandlerMoves
<1>2. ASSUME NEW h \in Handlers, HandleMessage(h) PROVE MutexMoves
    <2>1. PICK m \in messages :
              /\ mutex' = mutex
              /\ \E op \in Ops, t \in {m.name, NoTenant} : Assign(h, op, t, m.name, "kafka")
        BY <1>2 DEF HandleMessage, Ops
    <2>2. m.name \in TenantNames
        BY DEF ConductorInv, ConductorType
    <2> QED
        BY <2>1, <2>2, AssignMoves
<1>3. CASE Ask
    <2>1. ASSUME NEW h \in Handlers, NEW op \in Ops, NEW t \in Tenants, NEW p \in Products,
                 RestRequest(h, op, t, p)
          PROVE  MutexMoves
        BY <2>1, AssignMoves DEF RestRequest, TenantNames
    <2>2. CASE \E k \in {"tenant", "product"}, action \in {"register", "unregister"},
                 n \in TenantNames : ApiServerPosts(k, action, n)
        BY <2>2, Zenon DEF ApiServerPosts, MutexMoves
    <2> QED
        BY <1>3, <2>1, <2>2, Zenon DEF Ask, TenantNames
<1>4. CASE Startup \/ Crash \/ \E k \in {"tenant", "product"} : StartTopic(k)
    BY <1>4, Zenon DEF Startup, Crash, StartTopic, MutexMoves
<1>5. CASE UNCHANGED conductorVars
    BY <1>5 DEF conductorVars, MutexMoves
<1> QED
    BY <1>1, <1>2, <1>3, <1>4, <1>5, Zenon DEF ConductorNext

\* The ways in which the mutex moves keep it with a handler at work.
LEMMA MutexStays ==
    ASSUME TasksOK(task), MutexGuards, MutexMoves
    PROVE  MutexGuards'
<1>1. Nobody \notin Handlers
    BY ConductorAssumption
<1>2. Idle.at = "idle"
    BY DEF Idle
<1>3. task = [h \in Handlers |-> task[h]]
    BY DEF TasksOK
<1>4. CASE UNCHANGED <<mutex, task>>
    BY <1>4 DEF MutexGuards
<1>5. CASE mutex' = Nobody /\ task' = [h \in Handlers |-> Idle]
    BY <1>2, <1>5 DEF MutexGuards
<1>6. ASSUME NEW h \in Handlers, mutex = h, Unlock(h) PROVE MutexGuards'
    <2>1. \A i \in Handlers : task'[i] = IF i = h THEN Idle ELSE task[i]
        BY <1>3, <1>6 DEF Unlock
    <2> QED
        BY <1>1, <1>2, <1>6, <2>1 DEF Unlock, MutexGuards
<1>7. ASSUME NEW h \in Handlers, NEW q \in TaskRecord, task' = [task EXCEPT ![h] = q],
             \/ q.at = "lock" /\ mutex' = mutex /\ (task[h].at = "idle" \/ mutex = h)
             \/ q.at = "run" /\ mutex = Nobody /\ mutex' = h
      PROVE  MutexGuards'
    <2>1. \A i \in Handlers : task'[i] = IF i = h THEN q ELSE task[i]
        BY <1>3, <1>7
    <2> QED
        BY <1>1, <1>7, <2>1 DEF MutexGuards
<1> QED
    BY <1>4, <1>5, <1>6, <1>7, Zenon DEF MutexMoves

\* Handlers of the conductor, one for every partition and request, work one at a time, and
\* none leaves the mutex behind, however requests, panics, messages and crashes interleave.
THEOREM HandlersExclude == ConductorSpec => []MutexGuards
<1>1. ConductorInit => MutexGuards
    BY DEF ConductorInit, MutexGuards, Idle
<1>2. ConductorInv /\ MutexGuards /\ [ConductorNext]_conductorVars => MutexGuards'
    BY ConductorMoves, MutexStays DEF ConductorInv, ConductorType
<1> QED
    BY <1>1, <1>2, ConductorStart, ConductorStep, PTL DEF ConductorSpec

-----------------------------------------------------------------------------
(* The service manager stops the services in their order, and the event service *)
(* delivers to none that is stopped.                                       *)

\* Names of the services, and of those that get events.
Names == Range(Services)

Receivers == Names \ {"event"}

\* Types of the state of the process.
ManagerTypeOK ==
    /\ main \in [at : {"new", "init", "start", "wait", "returned", "failed"}, i : 1..10]
    /\ handler \in [at : {"absent", "select", "stop", "close", "exit"}, i : 1..10]
    /\ loop \in [Names -> {"none", "select", "busy", "stuck", "ended"}]
    /\ closed \subseteq Names
    /\ deliver \in [Deliverers -> Seq(Receivers)]

\* The Stop of a service is over.
Stopped(s) == s \in Quitters => loop[s] = "ended" /\ s \in closed

\* The event service is not started yet.
BeforeEvent == main.at \in {"new", "init"} \/ (main.at = "start" /\ main.i = 1)

\* The handler runs when all services are started, and stops them in their order.
HandlerInv ==
    /\ handler.at # "absent" => main.at \in {"wait", "returned"}
    /\ handler.at = "absent" => closed = {}
    /\ handler.at \in {"stop", "close"} => \A j \in 1..handler.i - 1 : Stopped(Services[j])
    /\ handler.at = "close" => /\ Services[handler.i] \in Quitters
                               /\ loop[Services[handler.i]] = "ended"
    /\ handler.at = "exit" => \A j \in 1..10 : Stopped(Services[j])
    /\ main.at = "returned" => handler.at = "exit"

\* The event service is the first to be stopped, and then nothing is delivered.
EventInv ==
    /\ BeforeEvent => loop["event"] = "none"
    /\ loop["event"] # "busy" => deliver["local"] = <<>>
    /\ closed # {} => "event" \in closed /\ loop["event"] = "ended"
    /\ "event" \in closed => deliver["remote"] = <<>>

\* Inductive: with the type, how far the handler of the signal has come.
StopInv == ManagerTypeOK /\ HandlerInv /\ EventInv /\ DeliversToOpen

\* What the proof needs to know of the order of the services.
LEMMA ServicesAre ==
    /\ Len(Services) = 10 /\ Services[1] = "event" /\ "event" \in Names
    /\ \A j \in 1..10 : Services[j] \in Names /\ (Services[j] = "event" => j = 1)
    /\ \A s \in Quitters : \E j \in 1..10 : Services[j] = s
    /\ "event" \in Quitters /\ Loops \subseteq Quitters
<1>1. /\ Len(Services) = 10 /\ DOMAIN Services = 1..10
      /\ Services[1] = "event" /\ Services[3] = "sessionmgr" /\ Services[4] = "auth"
      /\ Services[6] = "metric" /\ Services[7] = "metadata" /\ Services[8] = "quto"
    BY DEF Services
<1>2. \A j \in 1..10 : Services[j] \in Names
    BY <1>1, Zenon DEF Names, Range
<1>3. 1 \in 1..10 /\ 3 \in 1..10 /\ 4 \in 1..10 /\ 6 \in 1..10 /\ 7 \in 1..10 /\ 8 \in 1..10
    OBVIOUS
<1>4. \A s \in Quitters : \E j \in 1..10 : Services[j] = s
    BY <1>1, <1>3, Zenon DEF Quitters
<1>5. "event" \in Quitters /\ Loops \subseteq Quitters
    BY DEF Quitters, Loops
<1>6. \A j \in 1..10 : Services[j] = "event" => j = 1
    BY DEF Services
<1>. QED BY <1>1, <1>2, <1>3, <1>4, <1>5, <1>6

\* The subscribers of an event are receivers.
LEMMA SubscribersAre ==
    ASSUME NEW kind \in Kinds
    PROVE  SubscribersOf(kind) \in Seq(Receivers)
<1>1. /\ DOMAIN Services = 1..10 /\ Services[3] = "sessionmgr" /\ Services[4] = "auth"
      /\ Services[7] = "metadata" /\ Services[8] = "quto"
    BY DEF Services
<1>2. {"sessionmgr", "auth", "metadata", "quto"} \subseteq Receivers
    BY <1>1 DEF Receivers, Names, Range
<1>3. PICK subs : subs = Subscribers[kind]
    OBVIOUS
<1>4. PICK m \in {1, 2}, a \in Receivers, b \in Receivers :
          DOMAIN subs = 1..m /\ subs[1] = a /\ (m = 2 => subs[2] = b) /\ Len(subs) = m /\ (m = 1 => a = b)
    <2>1. subs \in {<<"sessionmgr", "metadata">>, <<"auth">>, <<"quto">>}
        BY <1>3 DEF Kinds, Subscribers
    <2>. QED BY <1>2, <2>1
<1>5. Range(subs) = {a, b}
    BY <1>4 DEF Range
<1>6. IsFiniteSet({a}) /\ Cardinality({a}) = 1
    BY FS_Singleton, Zenon
<1>7. IsFiniteSet({a, b}) /\ Cardinality({a, b}) <= m
    <2>1. {a} \cup {b} = {a, b}
        OBVIOUS
    <2>2. IsFiniteSet({a} \cup {b}) /\ Cardinality({a} \cup {b}) = IF b \in {a} THEN Cardinality({a}) ELSE Cardinality({a}) + 1
        BY <1>6, FS_AddElement, Zenon
    <2>3. CASE a = b
        BY <1>4, <1>6, <2>1, <2>2, <2>3
    <2>4. CASE a # b
        <3>1. m = 2 /\ b \notin {a}
            BY <1>4, <2>4
        <3>2. IsFiniteSet({a, b}) /\ Cardinality({a, b}) = 1 + 1
            BY <1>6, <2>1, <2>2, <3>1, Zenon
        <3>. QED BY <3>1, <3>2
    <2>. QED BY <2>3, <2>4, Zenon
<1>8. PICK T : T = {s \in Range(subs) : s \in started} /\ T \in SUBSET {a, b}
    BY <1>5, Zenon
<1>9. PICK n \in Nat : n = Cardinality(T) /\ n <= m
    <2>1. IsFiniteSet(T) /\ Cardinality(T) <= Cardinality({a, b})
        BY <1>7, <1>8, FS_Subset, Zenon
    <2>2. Cardinality(T) \in Nat /\ Cardinality({a, b}) \in Nat
        BY <1>7, <2>1, FS_CardinalityType, Zenon
    <2>. QED BY <1>4, <1>7, <2>1, <2>2
<1>10. \A j \in 1..n : subs[j] \in Receivers
    BY <1>4, <1>9
<1>11. SubSeq(subs, 1, n) \in Seq(Receivers)
    BY <1>4, <1>9, <1>10
<1>. QED BY <1>3, <1>8, <1>9, <1>11, Zenon DEF SubscribersOf

\* A new process satisfies the invariant.
LEMMA StopInitInv == ManagerInit => StopInv
<1>. SUFFICES ASSUME ManagerInit PROVE StopInv
    OBVIOUS
<1>1. ManagerTypeOK
    BY DEF ManagerInit, ManagerTypeOK, Names, Receivers
<1>2. HandlerInv
    BY DEF ManagerInit, HandlerInv
<1>3. EventInv
    BY ServicesAre DEF ManagerInit, EventInv, Deliverers, Names
<1>4. DeliversToOpen
    BY DEF ManagerInit, DeliversToOpen
<1>. QED BY <1>1, <1>2, <1>3, <1>4 DEF StopInv

\* Nothing is delivered once a channel is closed.
LEMMA ClosedIsQuiet ==
    ASSUME StopInv, NEW d \in Deliverers, closed # {}
    PROVE  deliver[d] = <<>>
BY DEF StopInv, EventInv, Deliverers

\* Creation and start of a service keep the invariant.
LEMMA LaunchKeeps == StopInv /\ Launch => StopInv'
<1>. SUFFICES ASSUME StopInv, Launch PROVE StopInv'
    OBVIOUS
<1>1. /\ main.at \in {"new", "init", "start"} /\ UNCHANGED <<closed, deliver, panicked>>
      /\ ManagerTypeOK /\ HandlerInv /\ EventInv /\ DeliversToOpen /\ handler.at = "absent"
    BY Zenon DEF Launch, StopInv, HandlerInv
<1>2. /\ main' \in [at : {"new", "init", "start", "wait", "returned", "failed"}, i : 1..10]
      /\ main'.at \in {"new", "init", "start", "wait"}
      /\ (BeforeEvent)' => BeforeEvent /\ main.at # "start"
    BY <1>1, ServicesAre DEF Launch, NextPhase, ManagerTypeOK, BeforeEvent
<1>3. PICK s \in Names : s = Services[main.i] /\ (s = "event" => main.i = 1)
    BY <1>1, ServicesAre DEF ManagerTypeOK
<1>4. /\ loop' \in [Names -> {"none", "select", "busy", "stuck", "ended"}]
      /\ main.at # "start" => loop' = loop
      /\ s # "event" => loop'["event"] = loop["event"]
    <2>1. loop \in [Names -> {"none", "select", "busy", "stuck", "ended"}] /\ "event" \in Names
        BY <1>1, ServicesAre DEF ManagerTypeOK
    <2>2. \/ loop' = loop
          \/ main.at = "start" /\ loop' = [loop EXCEPT ![s] = "select"]
          \/ main.at = "start" /\ loop' = [loop EXCEPT ![s] = @]
        BY <1>3 DEF Launch
    <2>. QED BY <1>3, <2>1, <2>2
<1>5. /\ handler' \in [at : {"absent", "select", "stop", "close", "exit"}, i : 1..10]
      /\ handler'.at \in {"absent", "select"} /\ (handler'.at = "select" => main'.at = "wait")
    BY <1>1 DEF Launch, ManagerTypeOK
<1>6. ManagerTypeOK'
    BY <1>1, <1>2, <1>4, <1>5 DEF ManagerTypeOK
<1>7. HandlerInv'
    BY <1>1, <1>2, <1>5 DEF HandlerInv
<1>8. EventInv'
    <2>1. closed = {} /\ closed' = {}
        BY <1>1 DEF HandlerInv
    <2>2. BeforeEvent' => loop'["event"] = "none"
        BY <1>1, <1>2, <1>4 DEF EventInv
    <2>3. deliver'["local"] = <<>> \/ loop'["event"] = "busy"
        <3>1. CASE s = "event" /\ main.at = "start"
            BY <1>1, <1>3, <3>1 DEF EventInv, BeforeEvent
        <3>2. CASE s # "event" \/ main.at # "start"
            BY <1>1, <1>4, <3>2 DEF EventInv
        <3>. QED BY <3>1, <3>2
    <2>. QED BY <2>1, <2>2, <2>3 DEF EventInv
<1>9. DeliversToOpen'
    BY <1>1 DEF DeliversToOpen
<1>. QED BY <1>6, <1>7, <1>8, <1>9 DEF StopInv

\* A failing start and the return of RunAndWait keep it.
LEMMA EndsKeep ==
    ASSUME StopInv, LaunchFails \/ Return
    PROVE  StopInv'
<1>1. /\ UNCHANGED <<handler, loop, closed, deliver, panicked>>
      /\ ManagerTypeOK /\ HandlerInv /\ EventInv /\ DeliversToOpen
    BY Zenon DEF LaunchFails, Return, StopInv
<1>2. /\ main' \in [at : {"new", "init", "start", "wait", "returned", "failed"}, i : 1..10]
      /\ main'.at \in {"failed", "returned"}
      /\ main'.at = "failed" => main.at \in {"new", "init", "start"}
      /\ main'.at = "returned" => handler.at = "exit"
    BY <1>1 DEF LaunchFails, Return, ManagerTypeOK
<1>3. ManagerTypeOK'
    BY <1>1, <1>2 DEF ManagerTypeOK
<1>4. HandlerInv'
    BY <1>1, <1>2 DEF HandlerInv, Stopped
<1>5. EventInv'
    BY <1>1, <1>2 DEF EventInv, BeforeEvent
<1>. QED BY <1>1, <1>3, <1>4, <1>5 DEF StopInv, DeliversToOpen

\* What the goroutines of services and sessions do in a step leaves the stopped
\* ones alone.
ServesEvents ==
    /\ UNCHANGED <<main, handler, closed>>
    /\ loop' \in [Names -> {"none", "select", "busy", "stuck", "ended"}]
    /\ deliver' \in [Deliverers -> Seq(Receivers)]
    /\ \A s \in Names : loop[s] \in {"none", "ended"} => loop'[s] = loop[s]

\* Steps of running services leave the handler of the signal alone.
LEMMA ServesKeeps ==
    ASSUME ManagerTypeOK, HandlerInv, ServesEvents
    PROVE  ManagerTypeOK' /\ HandlerInv'
<1>1. ManagerTypeOK'
    BY DEF ManagerTypeOK, ServesEvents
<1>2. \A j \in 1..10 : Stopped(Services[j]) => Stopped(Services[j])'
    BY ServicesAre DEF Stopped, ServesEvents
<1>3. handler.i \in 1..10 /\ main' = main /\ handler' = handler /\ closed' = closed
    BY DEF ManagerTypeOK, ServesEvents
<1>4. handler.at \in {"stop", "close"} => \A j \in 1..handler.i - 1 : Stopped(Services[j])'
    BY <1>2, <1>3 DEF HandlerInv
<1>5. handler.at = "close" => /\ Services[handler.i] \in Quitters
                              /\ loop'[Services[handler.i]] = "ended"
    BY <1>3, ServicesAre DEF HandlerInv, ServesEvents
<1>6. handler.at = "exit" => \A j \in 1..10 : Stopped(Services[j])'
    BY <1>2 DEF HandlerInv
<1>7. HandlerInv'
    BY <1>3, <1>4, <1>5, <1>6, Zenon DEF HandlerInv
<1>. QED BY <1>1, <1>7

\* A session that notifies an event keeps it.
LEMMA NotifyKeeps ==
    ASSUME StopInv, NEW c \in Notifiers, Notify(c)
    PROVE  StopInv'
<1>1. /\ UNCHANGED <<main, handler, loop, closed, deliver>> /\ panicked' \in {panicked, "session"}
      /\ ManagerTypeOK /\ HandlerInv /\ EventInv /\ DeliversToOpen
    BY Zenon DEF Notify, StopInv
<1>2. ManagerTypeOK' /\ HandlerInv'
    BY <1>1, ServesKeeps DEF ServesEvents, ManagerTypeOK
<1>3. EventInv'
    BY <1>1 DEF EventInv, BeforeEvent
<1>. QED BY <1>1, <1>2, <1>3 DEF StopInv, DeliversToOpen

\* The event goroutine keeps it when it takes an event.
LEMMA TakeLocalKeeps ==
    ASSUME StopInv, NEW c \in Notifiers, NEW kind \in Kinds, TakeLocal(c, kind)
    PROVE  StopInv'
<1>1. /\ UNCHANGED <<main, handler, closed, panicked>>
      /\ ManagerTypeOK /\ HandlerInv /\ EventInv /\ DeliversToOpen
    BY Zenon DEF TakeLocal, StopInv
<1>2. PICK to \in Seq(Receivers) : deliver' = [deliver EXCEPT !["local"] = to]
    BY SubscribersAre, Zenon DEF TakeLocal
<1>3. /\ loop' = [loop EXCEPT !["event"] = "busy"] /\ loop["event"] = "select"
      /\ loop \in [Names -> {"none", "select", "busy", "stuck", "ended"}] /\ "event" \in Names
      /\ deliver \in [Deliverers -> Seq(Receivers)]
    BY <1>1, ServicesAre DEF TakeLocal, ManagerTypeOK
<1>4. ServesEvents /\ loop'["event"] = "busy" /\ deliver'["remote"] = deliver["remote"]
    BY <1>1, <1>2, <1>3 DEF ServesEvents, Deliverers
<1>5. ManagerTypeOK' /\ HandlerInv'
    BY <1>1, <1>4, ServesKeeps
<1>6. EventInv'
    BY <1>1, <1>3, <1>4 DEF EventInv, BeforeEvent
<1>. QED BY <1>1, <1>5, <1>6 DEF StopInv, DeliversToOpen

\* The handler of the bus keeps it when it takes an event.
LEMMA TakeRemoteKeeps ==
    ASSUME StopInv, NEW kind \in Kinds, TakeRemote(kind)
    PROVE  StopInv'
<1>1. /\ UNCHANGED <<main, handler, loop, closed, panicked>> /\ "event" \notin closed
      /\ ManagerTypeOK /\ HandlerInv /\ EventInv /\ DeliversToOpen
    BY Zenon DEF TakeRemote, StopInv
<1>2. PICK to \in Seq(Receivers) : deliver' = [deliver EXCEPT !["remote"] = to]
    BY SubscribersAre, Zenon DEF TakeRemote
<1>3. ServesEvents /\ deliver'["local"] = deliver["local"]
    BY <1>1, <1>2 DEF ServesEvents, Deliverers, ManagerTypeOK
<1>4. ManagerTypeOK' /\ HandlerInv'
    BY <1>1, <1>3, ServesKeeps
<1>5. EventInv'
    BY <1>1, <1>3 DEF EventInv, BeforeEvent
<1>. QED BY <1>1, <1>4, <1>5 DEF StopInv, DeliversToOpen

\* The delivery of an event to a service keeps it.
LEMMA DeliverKeeps ==
    ASSUME StopInv, NEW d \in Deliverers, Deliver(d)
    PROVE  StopInv'
<1>1. /\ UNCHANGED <<main, handler, closed>> /\ deliver[d] # <<>>
      /\ ManagerTypeOK /\ HandlerInv /\ EventInv /\ DeliversToOpen
    BY Zenon DEF Deliver, StopInv
<1>2. closed = {}
    BY <1>1, ClosedIsQuiet
<1>3. PICK s \in Receivers : s = Head(deliver[d]) /\ Tail(deliver[d]) \in Seq(Receivers)
    BY <1>1 DEF ManagerTypeOK
<1>4. /\ loop[s] = "select" /\ loop' = [loop EXCEPT ![s] = "busy"] /\ panicked' = panicked
      /\ deliver' = [deliver EXCEPT ![d] = Tail(deliver[d])]
    BY <1>2, <1>3 DEF Deliver
<1>5. s \in Names /\ s # "event" /\ "event" \in Names
    BY ServicesAre DEF Receivers
<1>6. ServesEvents /\ loop'["event"] = loop["event"]
    BY <1>1, <1>3, <1>4, <1>5 DEF ServesEvents, ManagerTypeOK
<1>7. deliver["local"] = <<>> => deliver'["local"] = <<>>
    BY <1>1, <1>4 DEF ManagerTypeOK, Deliverers
<1>8. ManagerTypeOK' /\ HandlerInv'
    BY <1>1, <1>6, ServesKeeps
<1>9. EventInv'
    BY <1>1, <1>2, <1>6, <1>7 DEF EventInv, BeforeEvent
<1>. QED BY <1>1, <1>4, <1>8, <1>9 DEF StopInv, DeliversToOpen

\* A service that has handled an event keeps it.
LEMMA HandledKeeps ==
    ASSUME StopInv, NEW s \in Names, Handled(s)
    PROVE  StopInv'
<1>1. /\ UNCHANGED <<main, handler, closed, deliver, panicked>>
      /\ ManagerTypeOK /\ HandlerInv /\ EventInv /\ DeliversToOpen
    BY Zenon DEF Handled, StopInv
<1>2. /\ loop[s] = "busy" /\ loop' = [loop EXCEPT ![s] = "select"] /\ "event" \in Names
      /\ s = "event" => deliver["local"] = <<>>
    BY ServicesAre DEF Handled
<1>3. ServesEvents /\ (s # "event" => loop'["event"] = loop["event"])
    BY <1>1, <1>2 DEF ServesEvents, ManagerTypeOK
<1>4. ManagerTypeOK' /\ HandlerInv'
    BY <1>1, <1>3, ServesKeeps
<1>5. EventInv'
    BY <1>1, <1>2, <1>3 DEF EventInv, BeforeEvent
<1>. QED BY <1>1, <1>4, <1>5 DEF StopInv, DeliversToOpen

\* A session manager that handles a publication for ever keeps it.
LEMMA ForeverKeeps ==
    ASSUME StopInv, HandlesForever
    PROVE  StopInv'
<1>1. /\ UNCHANGED <<main, handler, closed, deliver, panicked>>
      /\ ManagerTypeOK /\ HandlerInv /\ EventInv /\ DeliversToOpen
    BY Zenon DEF HandlesForever, StopInv
<1>2. /\ loop["sessionmgr"] = "busy" /\ loop' = [loop EXCEPT !["sessionmgr"] = "stuck"]
      /\ "event" \in Names
    BY ServicesAre DEF HandlesForever
<1>3. ServesEvents /\ loop'["event"] = loop["event"]
    BY <1>1, <1>2 DEF ServesEvents, ManagerTypeOK
<1>4. ManagerTypeOK' /\ HandlerInv'
    BY <1>1, <1>3, ServesKeeps
<1>5. EventInv'
    BY <1>1, <1>2, <1>3 DEF EventInv, BeforeEvent
<1>. QED BY <1>1, <1>4, <1>5 DEF StopInv, DeliversToOpen

\* The signal keeps it.
LEMMA SignalKeeps ==
    ASSUME StopInv, Signal
    PROVE  StopInv'
<1>1. /\ UNCHANGED <<main, loop, closed, deliver, panicked>>
      /\ ManagerTypeOK /\ HandlerInv /\ EventInv /\ DeliversToOpen
    BY Zenon DEF Signal, StopInv
<1>2. handler' = handler \/ (handler.at = "select" /\ handler' = [at |-> "stop", i |-> 1])
    BY DEF Signal
<1>3. ManagerTypeOK'
    BY <1>1, <1>2 DEF ManagerTypeOK
<1>4. HandlerInv'
    <2>1. CASE handler' = handler
        BY <1>1, <2>1, Zenon DEF HandlerInv, Stopped
    <2>2. CASE handler.at = "select" /\ handler' = [at |-> "stop", i |-> 1]
        <3>1. handler'.at = "stop" /\ main'.at \in {"wait", "returned"} /\ main'.at # "returned"
            BY <1>1, <2>2, Zenon DEF HandlerInv
        <3>2. \A j \in 1..handler'.i - 1 : Stopped(Services[j])'
            BY <2>2
        <3>. QED BY <3>1, <3>2 DEF HandlerInv
    <2>. QED BY <1>2, <2>1, <2>2, Zenon
<1>5. EventInv'
    BY <1>1, Zenon DEF EventInv, BeforeEvent
<1>. QED BY <1>1, <1>3, <1>4, <1>5 DEF StopInv, DeliversToOpen

\* The order to quit keeps it.
LEMMA SendQuitKeeps ==
    ASSUME StopInv, SendQuit
    PROVE  StopInv'
<1>1. /\ UNCHANGED <<main, closed, deliver, panicked>> /\ handler.at = "stop"
      /\ ManagerTypeOK /\ HandlerInv /\ EventInv /\ DeliversToOpen
    BY Zenon DEF SendQuit, StopInv
<1>2. PICK s \in Names : s = Services[handler.i]
    BY <1>1, ServicesAre DEF ManagerTypeOK
<1>3. /\ s \in Quitters /\ loop[s] = "select" /\ loop' = [loop EXCEPT ![s] = "ended"]
      /\ handler' = [handler EXCEPT !.at = "close"]
    BY <1>2 DEF SendQuit, StopOrder
<1>4. /\ handler' \in [at : {"absent", "select", "stop", "close", "exit"}, i : 1..10]
      /\ handler'.at = "close" /\ handler'.i = handler.i /\ handler.i \in 1..10
    BY <1>1, <1>3 DEF ManagerTypeOK
<1>5. /\ loop' \in [Names -> {"none", "select", "busy", "stuck", "ended"}] /\ loop'[s] = "ended"
      /\ \A t \in Names : t # s => loop'[t] = loop[t]
    BY <1>1, <1>3 DEF ManagerTypeOK
<1>6. ManagerTypeOK'
    BY <1>1, <1>4, <1>5 DEF ManagerTypeOK
<1>7. HandlerInv'
    <2>1. \A j \in 1..handler.i - 1 : Stopped(Services[j])'
        <3>. SUFFICES ASSUME NEW j \in 1..handler.i - 1 PROVE Stopped(Services[j])'
            OBVIOUS
        <3>1. Stopped(Services[j]) /\ Services[j] \in Names
            BY <1>1, <1>4, ServicesAre DEF HandlerInv
        <3>. QED BY <1>1, <1>5, <3>1 DEF Stopped
    <2>2. main.at \in {"wait", "returned"} /\ main.at # "returned"
        BY <1>1 DEF HandlerInv
    <2>. QED BY <1>1, <1>2, <1>3, <1>4, <1>5, <2>1, <2>2 DEF HandlerInv
<1>8. EventInv'
    <2>1. closed # {} => s # "event"
        BY <1>1, <1>3 DEF EventInv
    <2>2. ~BeforeEvent /\ ~BeforeEvent'
        BY <1>1, Zenon DEF HandlerInv, BeforeEvent
    <2>3. s = "event" => deliver["local"] = <<>>
        BY <1>1, <1>3 DEF EventInv
    <2>. QED BY <1>1, <1>5, <2>1, <2>2, <2>3, ServicesAre DEF EventInv
<1>. QED BY <1>1, <1>6, <1>7, <1>8 DEF StopInv, DeliversToOpen

\* The Stop of a service is over and the next one follows.
LEMMA NextStopKeeps ==
    ASSUME ManagerTypeOK, HandlerInv, handler.at \in {"stop", "close"}, handler' = NextStop,
           UNCHANGED <<main, loop>>, closed \subseteq closed', closed' \subseteq Names,
           NEW h \in 1..10, h = handler.i, Stopped(Services[h])'
    PROVE  handler' \in [at : {"absent", "select", "stop", "close", "exit"}, i : 1..10] /\ HandlerInv'
<1>1. handler.i \in 1..10 /\ Len(Services) = 10
    BY ServicesAre DEF ManagerTypeOK
<1>2. \A j \in 1..handler.i : Stopped(Services[j])'
    <2>1. \A j \in 1..handler.i - 1 : Stopped(Services[j])
        BY DEF HandlerInv
    <2>2. \A j \in 1..handler.i - 1 : Stopped(Services[j])'
        BY <2>1 DEF Stopped
    <2>3. \A j \in 1..handler.i : j \in 1..handler.i - 1 \/ j = h
        BY <1>1
    <2>. QED BY <2>2, <2>3
<1>3. main.at = "wait" /\ main' = main
    BY DEF HandlerInv
<1>4. CASE handler.i < 10
    <2>1. handler' = [at |-> "stop", i |-> handler.i + 1]
        BY <1>1, <1>4 DEF NextStop
    <2>2. handler'.i \in 1..10 /\ handler'.at = "stop" /\ handler'.i - 1 = handler.i
        BY <1>1, <1>4, <2>1
    <2>3. \A j \in 1..handler'.i - 1 : Stopped(Services[j])'
        BY <1>2, <2>2
    <2>. QED BY <1>3, <2>1, <2>2, <2>3, Zenon DEF HandlerInv
<1>5. CASE handler.i = 10
    <2>1. handler' = [at |-> "exit", i |-> 1]
        BY <1>1, <1>5 DEF NextStop
    <2>2. /\ handler'.at = "exit" /\ main'.at = "wait" /\ \A j \in 1..10 : Stopped(Services[j])'
          /\ handler' \in [at : {"absent", "select", "stop", "close", "exit"}, i : 1..10]
        BY <1>2, <1>3, <1>5, <2>1
    <2>3. "exit" \notin {"absent", "stop", "close"} /\ "wait" \in {"wait", "returned"}
        OBVIOUS
    <2>. QED BY <2>2, <2>3, Zenon DEF HandlerInv
<1>. QED BY <1>1, <1>4, <1>5

\* The closing of the channels of a service keeps it.
LEMMA CloseKeeps ==
    ASSUME StopInv, CloseChannels
    PROVE  StopInv'
<1>1. /\ UNCHANGED <<main, loop, deliver>> /\ handler.at = "close"
      /\ ManagerTypeOK /\ HandlerInv /\ EventInv /\ DeliversToOpen
    BY Zenon DEF CloseChannels, StopInv
<1>2. PICK s \in Names : s = Services[handler.i]
    BY <1>1, ServicesAre DEF ManagerTypeOK
<1>3. /\ s = "event" => deliver["remote"] = <<>>
      /\ closed' = closed \cup {s} /\ handler' = NextStop /\ panicked' \in {"session", "none"}
    BY <1>2 DEF CloseChannels, StopOrder
<1>4. s \in Quitters /\ loop[s] = "ended" /\ loop' = loop
    BY <1>1, <1>2, Zenon DEF HandlerInv
<1>5. PICK h \in 1..10 : h = handler.i /\ Stopped(Services[h])'
    <2>1. PICK h \in 1..10 : h = handler.i
        BY <1>1 DEF ManagerTypeOK
    <2>. QED BY <1>2, <1>3, <1>4, <2>1 DEF Stopped
<1>6. handler' \in [at : {"absent", "select", "stop", "close", "exit"}, i : 1..10] /\ HandlerInv'
    <2>1. closed \subseteq closed' /\ closed' \subseteq Names
        BY <1>1, <1>3 DEF ManagerTypeOK
    <2>. QED BY <1>1, <1>3, <1>5, <2>1, NextStopKeeps, Zenon
<1>7. ManagerTypeOK'
    BY <1>1, <1>3, <1>6 DEF ManagerTypeOK
<1>8. "event" \in closed' /\ loop["event"] = "ended"
    <2>1. CASE handler.i = 1
        BY <1>2, <1>3, <1>4, <2>1, ServicesAre
    <2>2. CASE handler.i # 1
        <3>1. 1 \in 1..handler.i - 1
            BY <1>1, <2>2 DEF ManagerTypeOK
        <3>2. Stopped(Services[1])
            BY <1>1, <3>1 DEF HandlerInv
        <3>. QED BY <1>3, <3>2, ServicesAre, Zenon DEF Stopped
    <2>. QED BY <2>1, <2>2
<1>9. EventInv'
    <2>1. deliver["remote"] = <<>>
        BY <1>1, <1>3, <1>8 DEF EventInv
    <2>2. deliver["local"] = <<>>
        BY <1>1, <1>8 DEF EventInv
    <2>3. ~BeforeEvent'
        BY <1>1 DEF HandlerInv, BeforeEvent
    <2>. QED BY <1>1, <1>8, <2>1, <2>2, <2>3 DEF EventInv
<1>. QED BY <1>3, <1>6, <1>7, <1>9 DEF StopInv, DeliversToOpen

\* The stop of a service without a loop keeps it.
LEMMA StopAtOnceKeeps ==
    ASSUME StopInv, StopAtOnce
    PROVE  StopInv'
<1>1. /\ UNCHANGED <<main, loop, closed, deliver, panicked>> /\ handler.at = "stop"
      /\ Services[handler.i] \notin Quitters /\ handler' = NextStop
      /\ ManagerTypeOK /\ HandlerInv /\ EventInv /\ DeliversToOpen
    BY Zenon DEF StopAtOnce, StopOrder, StopInv
<1>2. PICK h \in 1..10 : h = handler.i /\ Stopped(Services[h])' /\ closed' \subseteq Names
    <2>1. PICK h \in 1..10 : h = handler.i
        BY <1>1 DEF ManagerTypeOK
    <2>. QED BY <1>1, <2>1 DEF Stopped, ManagerTypeOK
<1>3. handler' \in [at : {"absent", "select", "stop", "close", "exit"}, i : 1..10] /\ HandlerInv'
    BY <1>1, <1>2, NextStopKeeps
<1>4. ManagerTypeOK'
    BY <1>1, <1>3 DEF ManagerTypeOK
<1>5. EventInv'
    BY <1>1 DEF EventInv, BeforeEvent
<1>. QED BY <1>1, <1>3, <1>4, <1>5 DEF StopInv, DeliversToOpen

\* Every step keeps the invariant.
LEMMA StopStep == StopInv /\ [ManagerNext]_managerVars => StopInv'
<1>. SUFFICES ASSUME StopInv, [ManagerNext]_managerVars PROVE StopInv'
    OBVIOUS
<1>1. CASE UNCHANGED managerVars
    BY <1>1, Zenon DEF managerVars, StopInv, ManagerTypeOK, HandlerInv, EventInv, BeforeEvent, Stopped,
                DeliversToOpen
<1>2. CASE ManagerNext
    BY <1>2, LaunchKeeps, EndsKeep, SignalKeeps, SendQuitKeeps, CloseKeeps, StopAtOnceKeeps,
       NotifyKeeps, TakeLocalKeeps, TakeRemoteKeeps, DeliverKeeps, HandledKeeps, ForeverKeeps,
       Zenon
       DEF ManagerNext, Stop, Names
<1>. QED BY <1>1, <1>2

\* The invariant is strong enough.
LEMMA StopInvMeans == StopInv => StopIsClean
<1>. SUFFICES ASSUME StopInv, main.at = "returned"
              PROVE  /\ \A s \in Loops : loop[s] = "ended"
                     /\ \A d \in Deliverers : deliver[d] = <<>>
    BY DEF StopInv, StopIsClean, ReturnedMeansStopped
<1>1. \A j \in 1..10 : Stopped(Services[j])
    BY DEF StopInv, HandlerInv
<1>2. \A s \in Quitters : loop[s] = "ended" /\ s \in closed
    BY <1>1, ServicesAre DEF Stopped
<1>3. closed # {}
    BY <1>2, ServicesAre
<1>. QED BY <1>2, <1>3, ClosedIsQuiet, ServicesAre, Zenon

\* The services of a broker stop cleanly, with any number of sessions, events of
\* other brokers and signals: nothing is delivered to the channel of a service
\* that has been stopped, and RunAndWait returns only when every goroutine with
\* an order to quit has ended and no event is half delivered.
THEOREM ServicesStopClean == ManagerSpec => []StopIsClean
BY StopInitInv, StopStep, StopInvMeans, PTL DEF ManagerSpec

=============================================================================
