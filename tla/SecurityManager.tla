-------------------------- MODULE SecurityManager --------------------------
(* pkg/goshiro as the API server uses it: the realm finds tenants in the       *)
(* registry, and the local adaptor keeps permissions and roles in maps without *)
(* a lock, while every request has a goroutine of its own.  That the runtime   *)
(* may end a process with concurrent map writes is left out: it only cuts a    *)
(* behaviour short.                                                            *)
EXTENDS Naturals, Sequences, FiniteSets, SequencesExt, Functions

CONSTANTS
    None,               \* no tenant, role or answer
    Tenants, Products,
    Handlers,           \* goroutines that serve requests
    Roles,              \* names of roles
    Guarded,            \* whether requests pass authorizeWithConfig first, as configured
    MaxPermissions,     \* bound: permissions that get an id
    MaxRolePermissions  \* bound: permissions of a role

VARIABLES
    registered,         \* registry: tenants
    owner,              \* registry: the tenant of each product, or None
    used,               \* products that were created before
    permissions,        \* l.permissions, by id
    permIndex,          \* l.permIndex
    held,               \* l.principalPermissions: ids of each tenant
    roles,              \* l.roles: ids of the permissions of each role, or None
    cached,             \* cache of the role manager
    handler,            \* of each goroutine: its step and what it has read
    granted, revoked,   \* history: permissions that were added and removed, by tenant
    grants,             \* history: how many were added
    roleGranted,        \* history: ids of permissions that were added to a role
    answer              \* the last answer of each goroutine

secVars == <<registered, owner, used, permissions, permIndex, held, roles, cached, handler,
             granted, revoked, grants, roleGranted, answer>>
registryVars == <<registered, owner, used>>
roleVars == <<roles, cached, roleGranted>>
storeVars == <<permissions, permIndex, held>>
historyVars == <<granted, revoked, grants>>

Permission(res, actions) == [resource |-> res, actions |-> actions]
TenantPermission == Permission(<<"/products/">>, {"rw"})
ProductPermission(p) == Permission(<<"/products/", p>>, {"w"})
Idle == [pc |-> "idle", tenant |-> None, role |-> None, permission |-> None, id |-> 0, ids |-> <<>>]

SecurityInit ==
    /\ registered = {} /\ owner = [p \in Products |-> None] /\ used = {}
    /\ permissions = <<>> /\ permIndex = 1 /\ held = [t \in Tenants |-> <<>>]
    /\ roles = [r \in Roles |-> None] /\ cached = [r \in Roles |-> None]
    /\ handler = [h \in Handlers |-> Idle] /\ answer = [h \in Handlers |-> None]
    /\ granted = [t \in Tenants |-> {}] /\ revoked = [t \in Tenants |-> {}]
    /\ grants = [t \in Tenants |-> 0]
    /\ roleGranted = [r \in Roles |-> {}]

-----------------------------------------------------------------------------
(* Permissions of principals.                                                 *)

GetPermissions(ids) == {permissions[ids[i]] : i \in {j \in DOMAIN ids : ids[j] \in DOMAIN permissions}}

\* Permission.Implies: the actions of a permission are compared with the action as words.
Implies(permission, res, action) == permission.resource = res /\ action \in permission.actions

\* AddPermissions in two steps: the id is read ...
ReadIndex(h) ==
    /\ handler[h].pc = "index"
    /\ handler' = [handler EXCEPT ![h].pc = "assign", ![h].id = permIndex]
    /\ UNCHANGED <<storeVars, answer>>
    /\ UNCHANGED registryVars /\ UNCHANGED roleVars /\ UNCHANGED historyVars

\* ... and the permission is stored under it.
AssignId(h) ==
    /\ handler[h].pc = "assign"
    /\ permissions' = [i \in DOMAIN permissions \cup {handler[h].id} |->
                         IF i = handler[h].id THEN handler[h].permission ELSE permissions[i]]
    /\ permIndex' = handler[h].id + 1
    /\ handler' = [handler EXCEPT ![h].pc = IF handler[h].role = None THEN "append" ELSE "extend"]
    /\ UNCHANGED <<held, answer>>
    /\ UNCHANGED registryVars /\ UNCHANGED roleVars /\ UNCHANGED historyVars

\* AddPrincipalPermissions ends.
AppendIds(h) ==
    /\ handler[h].pc = "append"
    /\ held' = [held EXCEPT ![handler[h].tenant] = Append(@, handler[h].id)]
    /\ granted' = [granted EXCEPT ![handler[h].tenant] = @ \cup {handler[h].permission}]
    /\ grants' = [grants EXCEPT ![handler[h].tenant] = @ + 1]
    /\ handler' = [handler EXCEPT ![h] = Idle]
    /\ answer' = [answer EXCEPT ![h] = "ok"]
    /\ UNCHANGED <<permissions, permIndex, revoked>>
    /\ UNCHANGED registryVars /\ UNCHANGED roleVars

\* RemovePrincipalPermissions reads the permissions and takes the resources out of
\* them; the slices it joins hold every element again.
ReadHeld(h) ==
    /\ handler[h].pc = "held"
    /\ handler' = [handler EXCEPT ![h].pc = "set", ![h].ids =
                     SelectSeq(held[handler[h].tenant], LAMBDA i : i \in DOMAIN permissions)]
    /\ UNCHANGED <<storeVars, answer>>
    /\ UNCHANGED registryVars /\ UNCHANGED roleVars /\ UNCHANGED historyVars

\* Faulty variant: the permission is taken from the tenant and from the adaptor.
SetAndRemovePermissions(h) ==
    LET gone == {i \in DOMAIN permissions : permissions[i] = handler[h].permission} IN
    /\ handler[h].pc = "set"
    /\ held' = [held EXCEPT ![handler[h].tenant] =
                   SelectSeq(handler[h].ids, LAMBDA i : i \notin gone)]
    /\ permissions' = Restrict(permissions, DOMAIN permissions \ gone)
    /\ revoked' = [revoked EXCEPT ![handler[h].tenant] = @ \cup {handler[h].permission}]
    /\ handler' = [handler EXCEPT ![h] = Idle]
    /\ answer' = [answer EXCEPT ![h] = "ok"]
    /\ UNCHANGED <<permIndex, granted, grants>>
    /\ UNCHANGED registryVars /\ UNCHANGED roleVars

\* SetPrincipalPermissions stores what was read under the ids it has.
SetPrincipalPermissions(h) ==
    /\ handler[h].pc = "set"
    /\ held' = IF handler[h].ids = <<>> THEN held
               ELSE [held EXCEPT ![handler[h].tenant] = handler[h].ids]
    /\ revoked' = [revoked EXCEPT ![handler[h].tenant] = @ \cup {handler[h].permission}]
    /\ handler' = [handler EXCEPT ![h] = Idle]
    /\ answer' = [answer EXCEPT ![h] = "ok"]
    /\ UNCHANGED <<permissions, permIndex, granted, grants>>
    /\ UNCHANGED registryVars /\ UNCHANGED roleVars

-----------------------------------------------------------------------------
(* Requests.                                                                  *)

\* GetRequestInfo keeps the parameters of the resource and drops its words.
RequestedResource(p) == IF p = None THEN <<"/">> ELSE <<"/", p, "/">>

\* The realm makes a principal of a registered tenant; the collection hands out its first.
GetPrincipals(t) == IF t \in registered THEN <<t>> ELSE <<>>
Primary(principals) == IF principals = <<>> THEN None ELSE Head(principals)

\* Authorize with the primary principal; the action is "write".
Authorized(t, p) ==
    LET principal == Primary(GetPrincipals(t)) IN
    /\ principal # None
    /\ \E q \in GetPermissions(held[principal]) : Implies(q, RequestedResource(p), "write")

Admitted(t, p) == ~Guarded \/ Authorized(t, p)

Begins(h, pc, t, permission) ==
    handler' = [handler EXCEPT ![h] = [Idle EXCEPT !.pc = pc, !.tenant = t, !.permission = permission]]

Waiting == Cardinality({h \in Handlers : handler[h].pc \in {"index", "assign"}})

RegisterTenant(h, t) ==
    /\ handler[h].pc = "idle" /\ t \notin registered /\ permIndex + Waiting <= MaxPermissions
    /\ registered' = registered \cup {t}
    /\ Begins(h, "index", t, TenantPermission)
    /\ UNCHANGED <<owner, used, answer>> /\ UNCHANGED storeVars
    /\ UNCHANGED roleVars /\ UNCHANGED historyVars

CreateProduct(h, t, p) ==
    /\ handler[h].pc = "idle" /\ p \notin used /\ t \in registered
    /\ permIndex + Waiting <= MaxPermissions
    /\ IF Admitted(t, None)
         THEN /\ owner' = [owner EXCEPT ![p] = t] /\ used' = used \cup {p}
              /\ Begins(h, "index", t, ProductPermission(p)) /\ UNCHANGED answer
         ELSE answer' = [answer EXCEPT ![h] = "refused"] /\ UNCHANGED <<owner, used, handler>>
    /\ UNCHANGED registered /\ UNCHANGED storeVars /\ UNCHANGED roleVars /\ UNCHANGED historyVars

RemoveProduct(h, p) ==
    /\ handler[h].pc = "idle" /\ owner[p] # None
    /\ IF Admitted(owner[p], p)
         THEN /\ owner' = [owner EXCEPT ![p] = None]
              /\ Begins(h, "held", owner[p], ProductPermission(p)) /\ UNCHANGED answer
         ELSE answer' = [answer EXCEPT ![h] = "refused"] /\ UNCHANGED <<owner, handler>>
    /\ UNCHANGED <<registered, used>> /\ UNCHANGED storeVars
    /\ UNCHANGED roleVars /\ UNCHANGED historyVars

\* Login compares the credentials of the principal with those of the token: the
\* password for the console, and nothing for a token of the management API.
Credentials(kind, t) == IF kind = "jwt" THEN t ELSE None

Login(h, kind, t) ==
    /\ handler[h].pc = "idle"
    /\ answer' = [answer EXCEPT ![h] =
         CASE GetPrincipals(t) = <<>> -> "unknown"
           [] GetPrincipals(t) # <<>> /\ Credentials(kind, t) = Primary(GetPrincipals(t)) -> "ok"
           [] OTHER -> "login refused"]
    /\ UNCHANGED handler /\ UNCHANGED registryVars /\ UNCHANGED storeVars
    /\ UNCHANGED roleVars /\ UNCHANGED historyVars

-----------------------------------------------------------------------------
(* Roles.                                                                     *)

RoleStep == UNCHANGED storeVars /\ UNCHANGED registryVars /\ UNCHANGED historyVars

BeginsRole(h, pc, r, ids) ==
    handler' = [handler EXCEPT ![h] = [Idle EXCEPT !.pc = pc, !.role = r, !.ids = ids]]
EndsRole(h) ==
    /\ handler' = [handler EXCEPT ![h] = Idle]
    /\ answer' = [answer EXCEPT ![h] = "ok"]

\* What the adaptor stores when a role is added, and when permissions are added to it:
\* it appends the permissions that the role has, not the new ones.
MergedRole(r, ids) == IF roles[r] = None THEN ids ELSE roles[r] \o ids
ExtendedRole(r) == roles[r] \o roles[r]

\* The cache gets the role that was added, the adaptor the one with all permissions.
AddRole(h, r, ids) ==
    /\ handler[h].pc = "idle" /\ Len(MergedRole(r, ids)) <= MaxRolePermissions
    /\ cached' = [cached EXCEPT ![r] = ids]
    /\ BeginsRole(h, "addRole", r, ids)
    /\ UNCHANGED <<answer, roles, roleGranted>> /\ RoleStep

AdaptorAddRole(h) ==
    LET r == handler[h].role IN
    /\ handler[h].pc = "addRole"
    /\ roles' = [roles EXCEPT ![r] = MergedRole(r, handler[h].ids)]
    /\ EndsRole(h) /\ UNCHANGED <<cached, roleGranted>> /\ RoleStep

RemoveRole(h, r) ==
    /\ handler[h].pc = "idle"
    /\ cached' = [cached EXCEPT ![r] = None]
    /\ BeginsRole(h, "removeRole", r, <<>>)
    /\ UNCHANGED <<answer, roles, roleGranted>> /\ RoleStep

AdaptorRemoveRole(h) ==
    LET r == handler[h].role IN
    /\ handler[h].pc = "removeRole"
    /\ roles' = [roles EXCEPT ![r] = None]
    /\ roleGranted' = [roleGranted EXCEPT ![r] = {}]
    /\ EndsRole(h) /\ UNCHANGED cached /\ RoleStep

\* GetRole asks the cache first, then the adaptor; a role of the adaptor fills the cache.
GetRole(h, r) ==
    /\ handler[h].pc = "idle"
    /\ IF cached[r] = None /\ roles[r] # None
       THEN BeginsRole(h, "fill", r, roles[r]) /\ UNCHANGED answer
       ELSE /\ answer' = [answer EXCEPT ![h] = IF cached[r] = None THEN "no role" ELSE "ok"]
            /\ UNCHANGED handler
    /\ UNCHANGED roleVars /\ RoleStep

FillCache(h) ==
    /\ handler[h].pc = "fill"
    /\ cached' = [cached EXCEPT ![handler[h].role] = handler[h].ids]
    /\ EndsRole(h) /\ UNCHANGED <<roles, roleGranted>> /\ RoleStep

Expire(r) ==
    /\ cached[r] # None
    /\ cached' = [cached EXCEPT ![r] = None]
    /\ UNCHANGED <<handler, answer, roles, roleGranted>> /\ UNCHANGED registryVars
    /\ UNCHANGED storeVars /\ UNCHANGED historyVars

\* The permission gets its id as that of a principal does.
AddRolePermissions(h, r) ==
    /\ handler[h].pc = "idle" /\ permIndex + Waiting <= MaxPermissions
    /\ handler' = [handler EXCEPT ![h] = [Idle EXCEPT !.pc = "index", !.role = r,
                                                      !.permission = TenantPermission]]
    /\ UNCHANGED answer /\ UNCHANGED roleVars /\ RoleStep

ExtendRole(h) ==
    LET r == handler[h].role IN
    /\ handler[h].pc = "extend"
    /\ IF roles[r] # None /\ Len(ExtendedRole(r)) <= MaxRolePermissions
       THEN /\ roles' = [roles EXCEPT ![r] = ExtendedRole(r)]
            /\ roleGranted' = [roleGranted EXCEPT ![r] = @ \cup {handler[h].id}]
       ELSE UNCHANGED <<roles, roleGranted>>
    /\ EndsRole(h) /\ UNCHANGED cached /\ RoleStep

\* RemoveRolePermissions joins the slices before and from the permission, which gives
\* the same again.
ReducedRole(r) == roles[r]

RemoveRoleAllPermissions(h, r) ==
    /\ handler[h].pc = "idle" /\ roles[r] # None
    /\ roles' = [roles EXCEPT ![r] = ReducedRole(r)]
    /\ roleGranted' = [roleGranted EXCEPT ![r] = {}]
    /\ UNCHANGED <<handler, answer, cached>> /\ RoleStep

-----------------------------------------------------------------------------
HandlerStep(h) ==
    \/ ReadIndex(h) \/ AssignId(h) \/ AppendIds(h) \/ ReadHeld(h) \/ SetPrincipalPermissions(h)
    \/ AdaptorAddRole(h) \/ AdaptorRemoveRole(h) \/ FillCache(h) \/ ExtendRole(h)

SecurityNext ==
    \/ \E h \in Handlers :
         \/ HandlerStep(h)
         \/ \E t \in Tenants : \/ RegisterTenant(h, t)
                               \/ \E p \in Products : CreateProduct(h, t, p)
                               \/ \E kind \in {"jwt", "request"} : Login(h, kind, t)
         \/ \E p \in Products : RemoveProduct(h, p)
         \/ \E r \in Roles : \/ AddRole(h, r, <<1>>) \/ RemoveRole(h, r) \/ GetRole(h, r)
                             \/ AddRolePermissions(h, r) \/ RemoveRoleAllPermissions(h, r)
    \/ \E r \in Roles : Expire(r)

SecuritySpec == SecurityInit /\ [][SecurityNext]_secVars

-----------------------------------------------------------------------------
(* Properties.                                                                *)

\* However the goroutines read and write the maps between one another: every id that a
\* tenant holds is that of a permission in the adaptor, so that GetPermissions drops none;
\* a tenant never holds more permissions than AddPrincipalPermissions has given it; and
\* one that was given some is never left without any.
HeldIsStored ==
    \A t \in Tenants :
        /\ ToSet(held[t]) \subseteq DOMAIN permissions
        /\ Len(held[t]) <= grants[t]
        /\ grants[t] > 0 => held[t] # <<>>

-----------------------------------------------------------------------------
(* What the code does not keep: TLC has a counterexample to each, see the   *)
(* known disagreements in the README.                                       *)

Resting == \A h \in Handlers : handler[h] = Idle

\* AddPrincipalPermissions "add permissions for principals": two goroutines may take one
\* id, and what one of them adds may be lost.
HeldAsGranted ==
    Resting => \A t \in Tenants : GetPermissions(held[t]) = granted[t]

\* RemoveRole "remove specified role from realm": GetRole may fill the cache with what it
\* has read before.
RemovedRoleIsGone ==
    Resting => \A r \in Roles : cached[r] # None => roles[r] # None

\* GetRole "return role's detail information".
CachedRoleIsCurrent ==
    Resting => \A r \in Roles : cached[r] # None => cached[r] = roles[r]

\* RemovePrincipalPermissions "remove principals's permissions".
RemovedIsGone ==
    \A t \in Tenants :
        (\A h \in Handlers : handler[h].tenant # t) => GetPermissions(held[t]) \cap revoked[t] = {}

\* Authorize "check wether the subject is authorized with the request": a tenant may
\* create a product with the permission that it gets when it is registered.
TenantIsAuthorized == \A h \in Handlers : answer[h] # "refused"

\* Login "authenticate current user and return subject" for a registered tenant.
TenantLogsIn == \A h \in Handlers : answer[h] # "login refused"

\* AddRolePermission "add permissions to a role": they are among the role's permissions.
RolePermissionsListed == \A r \in Roles : roles[r] # None => roleGranted[r] \subseteq ToSet(roles[r])
=============================================================================
