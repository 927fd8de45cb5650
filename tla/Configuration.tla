---------------------------- MODULE Configuration ----------------------------
(* pkg/config as the broker uses it: items come from defaults, from a file, from *)
(* the environment and from flags, each laid over what is there, and services    *)
(* read them with the type that they need.  A file has strings only.  An item    *)
(* stands for its section and key, and a value for its type and its origin; the  *)
(* address of a protocol is an item with the name of the protocol.               *)
EXTENDS Naturals, Sequences, TLC

CONSTANTS
    FileItems,      \* items that the file may set
    Protocols       \* protocols that a flag or the file may name; "" is none

VARIABLES
    pc,
    found,          \* whether the file can be read
    file,           \* items that the file sets
    fileProtocol,   \* the protocol that the file names
    env,            \* variables of the environment that are set
    flag,           \* whether a tenant is given as a flag
    protocol,       \* the flag for the protocol
    listen,         \* whether the flag for the address is not empty
    sections,       \* config.sections
    next,           \* the next read of the services
    results         \* what the reads have returned: the origin of a value, or "error"

confVars == <<pc, found, file, fileProtocol, env, flag, protocol, listen, sections, next, results>>
sourceVars == <<found, file, fileProtocol, env, flag, protocol, listen>>

Value(type, from) == [type |-> type, from |-> from]
Layer(items, type, from) == [i \in items |-> Value(type, from)]

Numbers == {"connect_timeout", "report_duration", "keepalive", "message_size_limit"}

\* defaultConfigs.
Defaults ==
    Layer(Numbers, "int", "default")
    @@ Layer({"auth"}, "bool", "default")
    @@ Layer({"kafka", "mongo", "protocol", "tcp", "tls", "rpc", "services", "redis_db"},
             "string", "default")

ConfigurationInit ==
    /\ pc = "new"
    /\ found \in BOOLEAN /\ file \in SUBSET FileItems
    /\ fileProtocol \in Protocols \ {""}
    /\ env \in SUBSET {"KAFKA_HOST", "MONGO_HOST", "BROKER_TENANT"}
    /\ flag \in BOOLEAN /\ protocol \in Protocols /\ listen \in BOOLEAN
    /\ sections = <<>> /\ next = 1 /\ results = <<>>

-----------------------------------------------------------------------------
(* createConfig of a broker that runs as a daemon.                            *)

Step(from, to) == pc = from /\ pc' = to /\ UNCHANGED <<next, results>> /\ UNCHANGED sourceVars

AddConfig ==
    /\ Step("new", "file")
    /\ sections' = Defaults @@ sections

\* Faulty variant: what is set already stays.
AddConfigFileBelow ==
    /\ Step("file", "env")
    /\ sections' = IF found THEN sections @@ Layer(file, "string", "file") ELSE sections

\* createConfig ignores that the file cannot be read.
AddConfigFile ==
    /\ Step("file", "env")
    /\ sections' = IF found THEN Layer(file, "string", "file") @@ sections ELSE sections

\* AddConfigItem for what the environment says, if it says both.
AddEnvironment ==
    /\ Step("env", "tenant")
    /\ sections' = IF {"KAFKA_HOST", "MONGO_HOST"} \subseteq env
                   THEN Layer({"kafka", "mongo"}, "string", "env") @@ sections
                   ELSE sections

TenantFrom == IF flag THEN "flag" ELSE "env"

AddTenant ==
    /\ LET given == flag \/ "BROKER_TENANT" \in env IN
       /\ Step("tenant", IF given THEN "protocol" ELSE "refused")
       /\ sections' = IF given THEN Layer({"tenant"}, "string", TenantFrom) @@ sections
                      ELSE sections

Known == {"tcp", "ws", "tls", "https"}

AddProtocol ==
    /\ Step("protocol", IF protocol \in Known \cup {""} THEN "services" ELSE "refused")
    /\ sections' =
         Layer((IF protocol \in Known THEN {"protocol"} ELSE {})
                 \cup (IF protocol \in Known /\ listen THEN {protocol} ELSE {}), "string", "flag")
         @@ sections

-----------------------------------------------------------------------------
(* Services read items, when they are created, when they start and later.      *)

\* The item, the type asked for, and whether an error ends the program.
Need(item, type, must) == [item |-> item, type |-> type, must |-> must]

\* Bool, Int and String.
Get(item, type) ==
    IF item \in DOMAIN sections /\ sections[item].type = type THEN sections[item].from
    ELSE "error"

\* The protocol that the mqtt service reads.
Protocol ==
    CASE Get("protocol", "string") = "flag" -> protocol
      [] Get("protocol", "string") = "file" -> fileProtocol
      [] OTHER -> "tcp"

\* The quotas ask for redis if the file chooses it for their cache.
RedisNeeds ==
    IF Get("cace_policy", "string") # "error"
    THEN <<Need("redis_password", "string", TRUE), Need("redis_db", "int", TRUE)>>
    ELSE <<>>

\* The reads in their order: creation of the services, the metric service, the mqtt
\* service, its sessions.  The same item is read once.
Needs ==
    <<Need("tenant", "string", TRUE), Need("mongo", "string", TRUE),
      Need("connect_timeout", "int", TRUE), Need("rpc", "string", TRUE)>>
    \o RedisNeeds
    \o <<Need("kafka", "string", FALSE), Need("services", "string", FALSE),
         Need("report_duration", "int", TRUE), Need("keepalive", "int", TRUE),
         Need("protocol", "string", TRUE), Need(Protocol, "string", TRUE),
         Need("auth", "bool", FALSE), Need("message_size_limit", "int", FALSE)>>

Read ==
    LET need == Needs[next]
        got == Get(need.item, need.type)
    IN
    /\ pc = "services"
    /\ IF got = "error" /\ need.must
       THEN pc' = "fatal" /\ UNCHANGED <<next, results>>
       ELSE /\ results' = (need.item :> got) @@ results
            /\ next' = next + 1
            /\ pc' = IF next = Len(Needs) THEN "running" ELSE pc
    /\ UNCHANGED sections /\ UNCHANGED sourceVars

ConfigurationNext ==
    AddConfig \/ AddConfigFile \/ AddEnvironment \/ AddTenant \/ AddProtocol \/ Read

ConfigurationSpec == ConfigurationInit /\ [][ConfigurationNext]_confVars

-----------------------------------------------------------------------------
(* Properties.                                                                *)

FromFlag(i) ==
    \/ i = "protocol" /\ protocol # ""
    \/ i = protocol /\ listen
    \/ i = "tenant" /\ flag
FromEnv(i) ==
    \/ i \in {"kafka", "mongo"} /\ {"KAFKA_HOST", "MONGO_HOST"} \subseteq env
    \/ i = "tenant" /\ ~flag
FromFile(i) == found /\ i \in file

\* A service reads what the flags say, or else the environment, or else the file, or
\* else the defaults; a number or a truth value that the file sets cannot be read.
ReadsTopLayer ==
    \A i \in DOMAIN results :
        results[i] = CASE FromFlag(i) -> "flag"
                       [] ~FromFlag(i) /\ FromEnv(i) -> "env"
                       [] ~FromFlag(i) /\ ~FromEnv(i) /\ FromFile(i) ->
                              IF i \in Numbers \cup {"auth"} THEN "error" ELSE "file"
                       [] OTHER -> "default"

\* The mqtt service has no address for its protocol.
NoAddress ==
    LET name == IF protocol # "" THEN protocol
                ELSE IF FromFile("protocol") THEN fileProtocol ELSE "tcp"
    IN  name \notin {"tcp", "tls"} /\ ~FromFile(name) /\ ~(name = protocol /\ listen)

\* A broker that createConfig has not refused ends over its configuration exactly if the
\* file sets a number that must be read or redis for the quotas, or if nothing gives an
\* address for the protocol; whatever else is set or missing, it runs.
EndsOnlyOver ==
    pc \in {"fatal", "running"} =>
        ((pc = "fatal") <=>
            \/ \E i \in Numbers \ {"message_size_limit"} : FromFile(i)
            \/ FromFile("cace_policy")
            \/ NoAddress)

ReadsWhatIsSet == ReadsTopLayer /\ EndsOnlyOver

-----------------------------------------------------------------------------
(* What the code does not keep: TLC has a counterexample to each, see the   *)
(* known disagreements in the README.                                       *)

\* AddConfigFile: what the file sets is read, numbers and truth values too.
FileIsRead ==
    \A i \in DOMAIN results : FromFile(i) => results[i] # "error"

\* "Connect with redis if cache policy is redis": with a policy and a password in the file
\* the quotas get what they need for it.
QuotasGetRedis ==
    (pc = "fatal" /\ file = {"cace_policy", "redis_password"}) => ~found \/ NoAddress
==============================================================================
