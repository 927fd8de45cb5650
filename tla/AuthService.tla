---------------------------- MODULE AuthService ----------------------------
(* broker/auth: sessions authenticate devices with the secret of the registry, *)
(* which redis caches, and authorise topics with the topic flavors that the    *)
(* service loads when it is initialised and gets with AuthChange events.       *)
(* Registry and redis are external and may be away.                            *)
EXTENDS Naturals, Sequences, FiniteSets

CONSTANTS
    Devices,            \* pairs of a product and a name: texts, cut at each "/"
    Sessions,
    MaxSecrets,         \* bound: secrets that the registry issues
    Failures,           \* bound: outages of redis and of the registry
    Loaded,             \* the flavors that products may have: sets of sets of topics
    Posts               \* flavors that services post: sets of topics

ASSUME DevicesAssumption == Devices # {}

VARIABLES
    secret,         \* registry: the secret of each device, 0 when it is not registered
    issued,         \* history: all secrets of a device
    secrets,        \* number of secrets so far
    keys,           \* redis: secrets by key, 0 when there is none
    available,      \* which of redis and registry can be reached
    failures,
    auth,           \* of each session: what it is doing and for which device
    flavors,        \* p.flavors of each product: a set of sets of topics
    posted          \* history: flavors that a service has posted, by product

authVars == <<secret, issued, secrets, keys, available, failures, auth, flavors, posted>>
registryVars == <<secret, issued, secrets>>
flavorVars == <<flavors, posted>>

Products == {d[1] : d \in Devices}

\* Faulty variant: devices of different products share a key.
NameKey(d) == d[2]

\* The key in redis: product, "/" and name, both as the client gives them.
CacheKey(d) == d[1] \o d[2]

RedisKeys == {CacheKey(d) : d \in Devices}

NoAuth == [pc |-> "idle", device |-> CHOOSE d \in Devices : TRUE, key |-> 0, during |-> {},
           signed |-> 0, answer |-> "none"]

\* Initialize loads the flavors of the products of the tenant; a product without
\* flavors has no entry.
AuthInit ==
    /\ secret = [d \in Devices |-> 0] /\ issued = [d \in Devices |-> {}] /\ secrets = 0
    /\ keys = [k \in RedisKeys |-> 0]
    /\ available = {"redis", "registry"} /\ failures = 0
    /\ auth = [s \in Sessions |-> NoAuth]
    /\ flavors \in [Products -> Loaded]
    /\ posted = [p \in Products |-> {}]

-----------------------------------------------------------------------------
(* Registry and redis.                                                        *)

\* Sessions that look for the device meanwhile may get any secret it has.
Sees(d, k) ==
    auth' = [s \in Sessions |->
                  IF auth[s].device = d /\ auth[s].pc # "idle"
                    THEN [auth[s] EXCEPT !.during = @ \cup {k}] ELSE auth[s]]

Register(d) ==
    /\ secret[d] = 0 /\ secrets < MaxSecrets
    /\ secrets' = secrets + 1
    /\ secret' = [secret EXCEPT ![d] = secrets + 1]
    /\ issued' = [issued EXCEPT ![d] = @ \cup {secrets + 1}]
    /\ Sees(d, secrets + 1)
    /\ UNCHANGED <<keys, available, failures>> /\ UNCHANGED flavorVars

Unregister(d) ==
    /\ secret[d] # 0
    /\ secret' = [secret EXCEPT ![d] = 0]
    /\ Sees(d, 0)
    /\ UNCHANGED <<issued, secrets, keys, available, failures>> /\ UNCHANGED flavorVars

StoreOutage(x) ==
    /\ x \in available => failures < Failures
    /\ available' = IF x \in available THEN available \ {x} ELSE available \cup {x}
    /\ failures' = IF x \in available THEN failures + 1 ELSE failures
    /\ UNCHANGED <<keys, auth>> /\ UNCHANGED registryVars /\ UNCHANGED flavorVars

-----------------------------------------------------------------------------
(* Authentication.                                                            *)

\* A client connects and signs with the secret that its device has.
\* parseRequestOptions takes the device from the options and leaves the password out.
ClientConnects(s, d) ==
    /\ auth[s].pc = "idle" /\ auth[s].answer = "none"
    /\ auth' = [auth EXCEPT ![s] =
         [pc |-> "cache", device |-> d, key |-> 0, during |-> {secret[d]},
          signed |-> secret[d], answer |-> "none"]]
    /\ UNCHANGED <<keys, available, failures>> /\ UNCHANGED registryVars /\ UNCHANGED flavorVars

Device(s) == auth[s].device
Goes(s, pc, key) == auth' = [auth EXCEPT ![s].pc = pc, ![s].key = key]

ReadCache(s) ==
    /\ auth[s].pc = "cache"
    /\ LET key == keys[CacheKey(Device(s))] IN
         IF "redis" \in available /\ key # 0 THEN Goes(s, "sign", key) ELSE Goes(s, "registry", 0)
    /\ UNCHANGED <<keys, available, failures>> /\ UNCHANGED registryVars /\ UNCHANGED flavorVars

ReadRegistry(s) ==
    /\ auth[s].pc = "registry"
    /\ IF "registry" \in available /\ secret[Device(s)] # 0
         THEN Goes(s, "write", secret[Device(s)])
         ELSE auth' = [auth EXCEPT ![s].pc = "idle", ![s].answer = "failed"]
    /\ UNCHANGED <<keys, available, failures>> /\ UNCHANGED registryVars /\ UNCHANGED flavorVars

\* The secret is written to redis without a time of expiry.
WriteCache(s) ==
    /\ auth[s].pc = "write"
    /\ keys' = IF "redis" \in available
                  THEN [keys EXCEPT ![CacheKey(Device(s))] = auth[s].key] ELSE keys
    /\ Goes(s, "sign", auth[s].key)
    /\ UNCHANGED <<available, failures>> /\ UNCHANGED registryVars /\ UNCHANGED flavorVars

\* sha1mac compares the signature with the password of the context.
Password == 0

Sign(s) ==
    /\ auth[s].pc = "sign"
    /\ auth' = [auth EXCEPT ![s].pc = "idle",
         ![s].answer = IF auth[s].key = Password THEN "ok" ELSE "unauthorized"]
    /\ UNCHANGED <<keys, available, failures>> /\ UNCHANGED registryVars /\ UNCHANGED flavorVars

-----------------------------------------------------------------------------
(* Authorisation.                                                             *)

authorize(p, t) == flavors[p] = {} \/ \E f \in flavors[p] : t \in f

\* handleEvent: the flavor is added to those of the product.
updateTopicFlavor(p, f) == flavors' = [flavors EXCEPT ![p] = @ \cup {f}]

\* Decode knows no AuthChange, so the event that a service posts is refused.
DecodesAuthChange == FALSE

PostFlavor(p, f) ==
    /\ posted' = [posted EXCEPT ![p] = @ \cup {f}]
    /\ IF DecodesAuthChange THEN updateTopicFlavor(p, f) ELSE UNCHANGED flavors
    /\ UNCHANGED <<keys, available, failures, auth>> /\ UNCHANGED registryVars

-----------------------------------------------------------------------------
Authenticates(s) == ReadCache(s) \/ ReadRegistry(s) \/ WriteCache(s) \/ Sign(s)

AuthNext ==
    \/ \E d \in Devices : Register(d) \/ Unregister(d)
    \/ \E x \in {"redis", "registry"} : StoreOutage(x)
    \/ \E s \in Sessions : Authenticates(s) \/ \E d \in Devices : ClientConnects(s, d)
    \/ \E p \in Products, f \in Posts : PostFlavor(p, f)

\* Sessions go on, and nothing else has to.
AuthSpec == AuthInit /\ [][AuthNext]_authVars /\ \A s \in Sessions : WF_authVars(Authenticates(s))

-----------------------------------------------------------------------------
(* Properties.                                                                *)

\* The full names of two devices read alike.
SameName(d, e) == d[1] \o d[2] = e[1] \o e[2]

\* getDeviceSecretKey: the key that a session signs with was issued for a device whose
\* full name reads like that of its own, and for its own when the registry gave it,
\* although other sessions fill the cache meanwhile and both stores fail.
KeyFitsName ==
    \A s \in Sessions :
        /\ auth[s].pc = "write" => auth[s].key \in issued[Device(s)]
        /\ auth[s].pc = "sign" =>
              \E d \in Devices : SameName(d, Device(s)) /\ auth[s].key \in issued[d]

\* Every authentication comes to an answer.
AuthenticationEnds ==
    \A s \in Sessions : auth[s].pc = "cache" ~> auth[s].answer # "none"

-----------------------------------------------------------------------------
(* What the code does not keep: TLC has a counterexample to each, see the   *)
(* known disagreements in the README.                                       *)

\* getDeviceSecretKey "retrieve device secret key from cache or mongo": the key was
\* issued for this device, also when a name holds a "/".
KeyBelongsToDevice ==
    \A s \in Sessions : auth[s].pc \in {"write", "sign"} =>
        auth[s].key \in issued[Device(s)]

\* The key is one that the device has at some time during the authentication.
KeyIsCurrent ==
    \A s \in Sessions : auth[s].pc \in {"write", "sign"} => auth[s].key \in auth[s].during

\* authenticate "check user's name and password": a client that signs with the secret
\* of its device is accepted, when redis and registry are there and nothing changes.
DeviceIsAccepted ==
    \A s \in Sessions :
        (/\ auth[s].answer # "none" /\ failures = 0 /\ auth[s].signed # 0
         /\ issued[Device(s)] = {auth[s].signed} /\ secret[Device(s)] # 0)
        => auth[s].answer = "ok"

\* onEventCallback is called "when notificaiton come from event service": a flavor
\* that a service posts for a product is used to authorise its topics.
FlavorIsUsed ==
    \A p \in Products : \A f \in posted[p] : \A t \in f : authorize(p, t)
=============================================================================
