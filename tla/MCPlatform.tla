----------------------------- MODULE MCPlatform -----------------------------
(* The API server, the IoT manager and the configuration that all programs   *)
(* read, each part from its own initial states: `part` names the one that     *)
(* runs, the others keep their initial values.                                *)
EXTENDS ApiDevices, Conductor, ManagerDb

CONSTANTS None, t1, t2           \* Go's nil; tenants

VARIABLES
    part,
    registered, holder, taken, permissions, permIndex, held, roles, cached, handler,
    allowed, revoked, grants, roleGranted, answer,                     \* SecurityManager
    pc, found, file, fileProtocol, env, flag, protocol, listen, sections, next,
    results                                                            \* Configuration

\* Two requests at a time, of tenants and for roles.
Security == INSTANCE SecurityManager WITH
    Tenants <- {t1}, Products <- {"p1", "p2"}, Handlers <- {"h1", "h2"}, Roles <- {},
    Guarded <- FALSE, MaxPermissions <- 3, MaxRolePermissions <- 2,
    owner <- holder, used <- taken, granted <- allowed
Roled == INSTANCE SecurityManager WITH
    Tenants <- {t1}, Products <- {}, Handlers <- {"h1", "h2"}, Roles <- {"r1"},
    Guarded <- FALSE, MaxPermissions <- 2, MaxRolePermissions <- 2,
    owner <- holder, used <- taken, granted <- allowed

\* The conductor is asked over REST, with an error of the database, or by messages of
\* the API server, with a crash.
Notified == INSTANCE Conductor WITH
    Vias <- {"kafka"}, MaxCalls <- 2, MaxCrashes <- 1

\* Reports about sessions and metrics come from two partitions and with an outage of the
\* database; all others do not.
Reports == INSTANCE ManagerDb WITH
    Clients <- {"c1"}, Partitions <- {1}, MaxReports <- 2, Outages <- 0,
    Kinds <- {"client_register", "client_update", "client_unregister",
              "subscription_register", "subscription_update", "subscription_delete",
              "publish_update", "broker_keepalive", "broker_metric", "stats_update"},
    Questions <- {"nodes", "node", "nodeClients", "nodesClients", "client", "metrics",
                  "nodeMetrics", "nodeSessions", "nodeSession", "session"}

Conf == INSTANCE Configuration WITH
    FileItems <- {"protocol", "ws", "connect_timeout", "auth", "cace_policy"},
    Protocols <- {"", "tcp", "ws", "other"}

---------------------------------------------------------------------------

secVars == <<registered, holder, taken, permissions, permIndex, held, roles, cached, handler,
             allowed, revoked, grants, roleGranted, answer>>
confVars == <<pc, found, file, fileProtocol, env, flag, protocol, listen, sections, next, results>>
vars == <<part, deviceVars, secVars, conductorVars, managerVars, confVars>>

\* The topics that the goroutines of the collector may decode.
Decoders ==
    CASE part = "sessions" -> {<<"sessions", "metrics">>, <<"metrics", "sessions">>}
      [] part = "reports" -> (Topics \ {"metrics"}) \X {"metrics"}
      [] OTHER -> {<<"sessions", "metrics">>}

Init ==
    /\ part \in {"devices", "security", "roles", "rest", "notified", "sessions", "reports", "conf"}
    /\ DevicesInit /\ ConductorInit /\ ManagerInit
    /\ IF part = "roles" THEN Roled!SecurityInit ELSE Security!SecurityInit
    /\ part # "rest" => deployMode = "local"
    /\ <<current, last>> \in Decoders
    /\ Conf!ConfigurationInit
    /\ ~found => file = {}
    /\ "protocol" \notin file => fileProtocol = "tcp"
    /\ part # "conf" => ~found /\ env = {} /\ ~flag /\ protocol = "" /\ ~listen

\* The part that runs takes a step; every other stands still.
Next ==
    /\ UNCHANGED part
    /\ IF part = "devices" THEN DevicesNext ELSE UNCHANGED deviceVars
    /\ CASE part = "security" -> Security!SecurityNext
         [] part = "roles" -> Roled!SecurityNext
         [] OTHER -> UNCHANGED secVars
    /\ CASE part = "rest" -> ConductorNext
         [] part = "notified" -> Notified!ConductorNext
         [] OTHER -> UNCHANGED conductorVars
    /\ CASE part = "sessions" -> ManagerNext
         [] part = "reports" -> Reports!ManagerNext
         [] OTHER -> UNCHANGED managerVars
    /\ IF part = "conf" THEN Conf!ConfigurationNext ELSE UNCHANGED confVars

Spec == Init /\ [][Next]_vars

---------------------------------------------------------------------------
(* Properties of the parts; the modules of the parts say more about each.   *)
(* DevicesAsAnswered comes from ApiDevices, TenantsStored and MutexGuards from *)
(* Conductor, DocumentsFollow from ManagerDb: they are extended so that the    *)
(* properties checked here are the ones proved of them.                        *)

\* Whatever two goroutines do to the maps at a time, a tenant holds permissions that are
\* stored, no more of them than it was given, and some if it was given any.
HeldIsStored == part \in {"security", "roles"} => Security!HeldIsStored

\* A service reads the value of the layer on top, and a broker ends over its configuration
\* only for a number in the file, for redis, or for a missing address.
ReadsWhatIsSet == part = "conf" => Conf!ReadsWhatIsSet
============================================================================
