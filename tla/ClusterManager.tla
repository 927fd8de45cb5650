--------------------------- MODULE ClusterManager ---------------------------
(* iotmanager/cluster: the three ways of running brokers, by local processes,  *)
(* on Docker swarm and on Kubernetes, as the conductor uses them.  Its         *)
(* specification of a service names the tenant and no service.  Docker, the     *)
(* API of Kubernetes and ZooKeeper are external.                               *)
EXTENDS Naturals, FiniteSets

CONSTANTS
    MaxPort         \* bound: the ports are 0..MaxPort above portIndex

ASSUME PortAssumption == MaxPort \in Nat

VARIABLES
    deployMode,     \* the manager that New has made
    running,        \* brokers that run: [no, tenant, port]
    services,       \* p.services: ids with the numbers of their brokers
    ports,          \* p.ports
    discovery       \* nodes in ZooKeeper: names with the numbers of their brokers

clusterVars == <<deployMode, running, services, ports, discovery>>

ClusterManagerInit ==
    /\ deployMode \in {"local", "swarm", "kubernetes"}
    /\ running = {} /\ services = {} /\ ports = {} /\ discovery = {}

\* The next manager has empty maps, brokers and ZooKeeper stay.
ClusterManagerRestarts ==
    services' = {} /\ ports' = {} /\ UNCHANGED <<deployMode, running, discovery>>

HasId(map, id) == \E e \in map : e.id = id
Put(map, id, no) == {e \in map : e.id # id} \cup {[id |-> id, no |-> no]}

\* Brokers that were started are counted; none of the managers ends one below.
NewNo == Cardinality(running)

\* Service discovery: the node has the name of the service, and a node that is there
\* is not created again.
RegisterService(name, no) ==
    \/ ~HasId(discovery, name) /\ discovery' = Put(discovery, name, no)
    \/ UNCHANGED discovery

-----------------------------------------------------------------------------
(* Local processes.                                                           *)

\* makePort draws a port and looks whether that one is free, but returns the
\* one of the number of draws.
MakePort == {0} \cup (IF ports = {} THEN {} ELSE 1..MaxPort)

\* The id is the number of services in the map plus one.
LocalServiceId == Cardinality(services) + 1

\* That the registration fails is ignored.
LocalCreateService(t) ==
    /\ deployMode = "local"
    /\ \E port \in MakePort :
          /\ running' = running \cup {[no |-> NewNo, tenant |-> t, port |-> port]}
          /\ ports' = ports \cup {port}
    /\ services' = Put(services, LocalServiceId, NewNo)
    /\ RegisterService(t, NewNo)
    /\ UNCHANGED deployMode

\* RemoveService for an id that the map has.  The context is asked for its channel and
\* not cancelled, so the process goes on.  The specification is deleted and then its
\* first endpoint is read: the call ends in a panic before the port is released and
\* service discovery is told.
LocalRemovePanics(id) ==
    /\ deployMode = "local" /\ HasId(services, id)
    /\ services' = {e \in services : e.id # id}
    /\ UNCHANGED <<deployMode, running, ports, discovery>>

-----------------------------------------------------------------------------
(* CreateService that returns an error.                                       *)

\* Docker swarm: Docker gives a service without a name one of its own, and the map has
\* it under the empty name.  It publishes no port, and ZooKeeper takes no node without
\* a name, so that the call returns an error and leaves the service to run.
SwarmCreateFails(t) ==
    /\ deployMode = "swarm"
    /\ running' = running \cup {[no |-> NewNo, tenant |-> t, port |-> 0]}
    /\ services' = Put(services, 0, NewNo)
    /\ UNCHANGED <<deployMode, ports, discovery>>

\* The process does not start, Docker does not create the service, or Kubernetes
\* refuses a deployment without a name.
NothingCreated == UNCHANGED clusterVars

CreateServiceError(t) == SwarmCreateFails(t) \/ NothingCreated
=============================================================================
