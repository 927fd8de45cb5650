--------------------------- MODULE RegistryProofs ---------------------------
(* What the registry has and what follows it, for any number of requests,  *)
(* tenants, products and rules: tenants and products are as the API server has *)
(* answered, and the executors of the rule engine have rules of the registry only. *)
EXTENDS ApiCatalog, RuleEngine, FiniteSetTheorems, TLAPS

-----------------------------------------------------------------------------
(* Tenants and products.                                                   *)

\* The documents that requests carry.
Doc ==
    [tenant : Tenants] \cup [tenant : Tenants, by : Requests] \cup [product : ProductIds]
        \cup [product : ProductIds, tenant : Tenants]
        \cup [flavor : Flavors, tenant : Tenants, by : Requests]
        \cup [product : ProductIds, tenant : Tenants \cup {NoTenant}, flavor : Flavors \cup {NoFlavor}]

\* Documents of products, which update requests also carry.
ProductDoc ==
    [product : ProductIds, tenant : Tenants \cup {NoTenant}, flavor : Flavors \cup {NoFlavor}]

\* Requests under way or answered.
Begun ==
    [op : Ops, at : {"insert", "permit", "post", "ok", "error"}, doc : Doc]
        \cup [op : Ops, at : {"save"}, doc : ProductDoc]

\* Types of the state.
CatalogTypeOK ==
    /\ req \in [Requests -> {Waiting} \cup Begun]
    /\ bus \in Seq([op : Ops, doc : Doc])
    /\ lost \in Nat
    /\ products \subseteq ProductDoc
    /\ DOMAIN owner = ProductIds

\* The documents of a tenant, and the requests about it that were answered OK.
DocsOf(t) == {d \in tenants : d.tenant = t}

AnsweredOk(op, t) == {r \in Done(op, t) : req[r].at = "ok"}

\* Registrations that succeeded are deletions that succeeded and the document that
\* is there.
Balanced ==
    \A t \in Tenants :
        Cardinality(Done("RegisterTenant", t))
          = Cardinality(Done("DeleteTenant", t)) + Cardinality(DocsOf(t))

\* The unique index on tenants.
TenantsUnique == \A d, e \in tenants : d.tenant = e.tenant => d = e

\* Every answer about a tenant has left its message.
AnswersPosted ==
    lost = 0 => \A op \in {"RegisterTenant", "DeleteTenant"}, t \in Tenants :
                    Cardinality(Posted(op, t)) = Cardinality(AnsweredOk(op, t))

\* The unique index on products.
ProductsUnique == \A d, e \in products : d.product = e.product => d = e

\* Inductive.
CatalogInv ==
    /\ CatalogTypeOK /\ TenantsUnique /\ ProductsUnique
    /\ Balanced /\ AnswersPosted /\ DeletedStaysDeleted

-----------------------------------------------------------------------------
(* What a step of one request does to the sets that are counted.              *)

\* Only request r takes the step.
OthersStand(r) == \A q \in Requests \ {r} : req'[q] = req[q]

\* The requests are finitely many.
LEMMA DoneFinite ==
    ASSUME NEW op, NEW t
    PROVE  /\ IsFiniteSet(Done(op, t)) /\ IsFiniteSet(AnsweredOk(op, t))
           /\ Done(op, t) \subseteq Requests
<1>1. Done(op, t) \subseteq Requests /\ AnsweredOk(op, t) \subseteq Requests
    BY Zenon DEF Done, AnsweredOk
<1>. QED BY <1>1, CatalogAssumption, FS_Subset, Zenon

\* The requests that succeeded: the others stand still, r counts or not.
LEMMA DoneOthers ==
    ASSUME NEW r \in Requests, NEW op, NEW t, OthersStand(r)
    PROVE  /\ Done(op, t) \subseteq Requests /\ Done(op, t)' \subseteq Requests
           /\ \A q \in Requests \ {r} : q \in Done(op, t) <=> q \in Done(op, t)'
BY Zenon DEF Done, AnsweredOk, OthersStand

\* A request that counts before and after changes no set.
LEMMA DoneSame ==
    ASSUME NEW r \in Requests, NEW op, NEW t, OthersStand(r),
           r \in Done(op, t) <=> r \in Done(op, t)'
    PROVE  Done(op, t)' = Done(op, t)
<1>1. /\ Done(op, t) \subseteq Requests /\ Done(op, t)' \subseteq Requests
      /\ \A q \in Requests \ {r} : q \in Done(op, t) <=> q \in Done(op, t)'
    BY DoneOthers, Zenon
<1>2. \A q \in Requests : q \in Done(op, t) <=> q \in Done(op, t)'
    BY <1>1, Zenon
<1>. QED BY <1>1, <1>2, Zenon

\* A request that takes effect is counted.
LEMMA DoneAdds ==
    ASSUME NEW r \in Requests, NEW op, NEW t, OthersStand(r),
           r \notin Done(op, t), r \in Done(op, t)'
    PROVE  Done(op, t)' = Done(op, t) \cup {r}
<1>1. /\ Done(op, t) \subseteq Requests /\ Done(op, t)' \subseteq Requests
      /\ \A q \in Requests \ {r} : q \in Done(op, t) <=> q \in Done(op, t)'
    BY DoneOthers, Zenon
<1>. QED BY <1>1, Zenon

\* The same for the ones that were answered.
LEMMA AnsweredOthers ==
    ASSUME NEW r \in Requests, NEW op, NEW t, OthersStand(r)
    PROVE  /\ AnsweredOk(op, t) \subseteq Requests /\ AnsweredOk(op, t)' \subseteq Requests
           /\ \A q \in Requests \ {r} : q \in AnsweredOk(op, t) <=> q \in AnsweredOk(op, t)'
BY Zenon DEF Done, AnsweredOk, OthersStand

\* The same for the answered requests.
LEMMA AnsweredSame ==
    ASSUME NEW r \in Requests, NEW op, NEW t, OthersStand(r),
           r \in AnsweredOk(op, t) <=> r \in AnsweredOk(op, t)'
    PROVE  AnsweredOk(op, t)' = AnsweredOk(op, t)
<1>1. /\ AnsweredOk(op, t) \subseteq Requests /\ AnsweredOk(op, t)' \subseteq Requests
      /\ \A q \in Requests \ {r} : q \in AnsweredOk(op, t) <=> q \in AnsweredOk(op, t)'
    BY AnsweredOthers, Zenon
<1>2. \A q \in Requests : q \in AnsweredOk(op, t) <=> q \in AnsweredOk(op, t)'
    BY <1>1, Zenon
<1>. QED BY <1>1, <1>2, Zenon

\* A request answered OK is counted.
LEMMA AnsweredAdds ==
    ASSUME NEW r \in Requests, NEW op, NEW t, OthersStand(r),
           r \notin AnsweredOk(op, t), r \in AnsweredOk(op, t)'
    PROVE  AnsweredOk(op, t)' = AnsweredOk(op, t) \cup {r}
<1>1. /\ AnsweredOk(op, t) \subseteq Requests /\ AnsweredOk(op, t)' \subseteq Requests
      /\ \A q \in Requests \ {r} : q \in AnsweredOk(op, t) <=> q \in AnsweredOk(op, t)'
    BY AnsweredOthers, Zenon
<1>. QED BY <1>1, Zenon

\* A request that does not count changes no set.
LEMMA NotCounted ==
    ASSUME NEW r \in Requests, NEW op, NEW t, OthersStand(r)
    PROVE  /\ (r \notin Done(op, t) /\ r \notin Done(op, t)') => Done(op, t)' = Done(op, t)
           /\ (r \notin AnsweredOk(op, t) /\ r \notin AnsweredOk(op, t)')
                => AnsweredOk(op, t)' = AnsweredOk(op, t)
<1>1. ASSUME r \notin Done(op, t), r \notin Done(op, t)' PROVE Done(op, t)' = Done(op, t)
    <2>1. r \in Done(op, t) <=> r \in Done(op, t)'
        BY <1>1
    <2>. QED BY <2>1, DoneSame, Zenon
<1>2. ASSUME r \notin AnsweredOk(op, t), r \notin AnsweredOk(op, t)'
      PROVE  AnsweredOk(op, t)' = AnsweredOk(op, t)
    <2>1. r \in AnsweredOk(op, t) <=> r \in AnsweredOk(op, t)'
        BY <1>2
    <2>. QED BY <2>1, AnsweredSame, Zenon
<1>. QED BY <1>1, <1>2, Zenon

\* A tenant has one document or none.
LEMMA DocsCount ==
    ASSUME TenantsUnique, NEW t
    PROVE  /\ DocsOf(t) = {} => Cardinality(DocsOf(t)) = 0
           /\ DocsOf(t) # {} => Cardinality(DocsOf(t)) = 1
<1>1. Cardinality({}) = 0
    BY FS_EmptySet, Zenon
<1>2. ASSUME NEW d \in DocsOf(t) PROVE Cardinality(DocsOf(t)) = 1
    <2>1. DocsOf(t) = {d}
        BY <1>2, Zenon DEF DocsOf, TenantsUnique
    <2>2. Cardinality({d}) = 1
        BY FS_Singleton, Zenon
    <2>. QED BY <2>1, <2>2, Zenon
<1>. QED BY <1>1, <1>2, Zenon

\* The same in the next state.
LEMMA DocsCountNext ==
    ASSUME TenantsUnique', NEW t, DocsOf(t)' # {}
    PROVE  Cardinality(DocsOf(t)') = 1
<1>1. ASSUME NEW d \in DocsOf(t)' PROVE Cardinality(DocsOf(t)') = 1
    <2>1. DocsOf(t)' = {d}
        BY <1>1, Zenon DEF DocsOf, TenantsUnique
    <2>2. Cardinality({d}) = 1
        BY FS_Singleton, Zenon
    <2>. QED BY <2>1, <2>2, Zenon
<1>. QED BY <1>1, Zenon

\* What a request carries at a stage.
Stage(at, doc) ==
    \/ at \in {"insert", "permit", "post", "ok", "error"} /\ doc \in Doc
    \/ at = "save" /\ doc \in ProductDoc

\* A request begins.
LEMMA BeginStep ==
    ASSUME CatalogTypeOK, NEW r \in Requests, NEW op, NEW at, NEW doc, Stage(at, doc),
           Begin(r, op, at, doc)
    PROVE  /\ req' \in [Requests -> {Waiting} \cup Begun]
           /\ req[r].at = "waiting" /\ req[r].op = "none"
           /\ req'[r].at = at /\ req'[r].doc = doc /\ req'[r].op = op
           /\ OthersStand(r)
<1>1. /\ op \in Ops /\ req[r].at = "waiting"
      /\ req' = [req EXCEPT ![r] = [op |-> op, at |-> at, doc |-> doc]]
    BY Zenon DEF Begin
<1>2. req \in [Requests -> {Waiting} \cup Begun]
    BY Zenon DEF CatalogTypeOK
<1>3. [op |-> op, at |-> at, doc |-> doc] \in Begun
    BY <1>1 DEF Begun, Stage
<1>4. req[r].op = "none"
    <2>1. req[r] = Waiting \/ req[r] \in Begun
        BY <1>2, Zenon
    <2>2. req[r] \notin Begun
        BY <1>1 DEF Begun
    <2>. QED BY <2>1, <2>2 DEF Waiting
<1>5. req' \in [Requests -> {Waiting} \cup Begun] /\ req'[r] = [op |-> op, at |-> at, doc |-> doc]
      /\ OthersStand(r)
    BY <1>1, <1>2, <1>3, Zenon DEF OthersStand
<1>. QED BY <1>1, <1>4, <1>5

\* A request goes on.
LEMMA GoStep ==
    ASSUME CatalogTypeOK, NEW r \in Requests, req[r].at # "waiting",
           NEW at \in {"permit", "post", "ok", "error"}, Go(r, at)
    PROVE  /\ req' \in [Requests -> {Waiting} \cup Begun]
           /\ req[r] \in Begun
           /\ req'[r].op = req[r].op /\ req'[r].at = at /\ req'[r].doc = req[r].doc
           /\ OthersStand(r)
<1>1. req \in [Requests -> {Waiting} \cup Begun]
    BY Zenon DEF CatalogTypeOK
<1>2. req[r] \in Begun
    <2>1. req[r] = Waiting \/ req[r] \in Begun
        BY <1>1, Zenon
    <2>2. req[r] # Waiting
        BY DEF Waiting
    <2>. QED BY <2>1, <2>2
<1>3. req' = [req EXCEPT ![r] = [req[r] EXCEPT !.at = at]]
    BY Zenon DEF Go
<1>4. [req[r] EXCEPT !.at = at] \in Begun
    <2>1. ProductDoc \subseteq Doc
        BY Zenon DEF ProductDoc, Doc
    <2>. QED BY <1>2, <2>1 DEF Begun
<1>5. [req[r] EXCEPT !.at = at].op = req[r].op /\ [req[r] EXCEPT !.at = at].at = at
      /\ [req[r] EXCEPT !.at = at].doc = req[r].doc
    BY <1>2 DEF Begun
<1>6. req' \in [Requests -> {Waiting} \cup Begun] /\ req'[r] = [req[r] EXCEPT !.at = at]
      /\ OthersStand(r)
    BY <1>1, <1>3, <1>4, Zenon DEF OthersStand
<1>. QED BY <1>2, <1>5, <1>6, Zenon

\* The operations that create and delete tenants.
TenantOps == {"RegisterTenant", "DeleteTenant"}

\* A step that changes no tenant, posts nothing, and succeeds in nothing that is
\* counted keeps the account.
LEMMA QuietStep ==
    ASSUME CatalogInv, NEW r \in Requests, OthersStand(r),
           UNCHANGED <<tenants, bus, lost>>,
           \A op \in TenantOps, t \in Tenants :
               /\ r \in Done(op, t) <=> r \in Done(op, t)'
               /\ r \in AnsweredOk(op, t) <=> r \in AnsweredOk(op, t)'
    PROVE  TenantsUnique' /\ Balanced' /\ AnswersPosted'
<1>1. \A op \in TenantOps, t \in Tenants :
          Done(op, t)' = Done(op, t) /\ AnsweredOk(op, t)' = AnsweredOk(op, t)
    BY DoneSame, AnsweredSame, Zenon
<1>2. \A t : DocsOf(t)' = DocsOf(t)
    BY Zenon DEF DocsOf
<1>3. \A op, t : Posted(op, t)' = Posted(op, t)
    BY Zenon DEF Posted
<1>4. "RegisterTenant" \in TenantOps /\ "DeleteTenant" \in TenantOps
    BY Zenon DEF TenantOps
<1>5. TenantsUnique'
    BY Zenon DEF CatalogInv, TenantsUnique
<1>6. Balanced'
    BY <1>1, <1>2, <1>4, Zenon DEF CatalogInv, Balanced
<1>7. AnswersPosted'
    BY <1>1, <1>3, Zenon DEF CatalogInv, AnswersPosted, TenantOps
<1>. QED BY <1>5, <1>6, <1>7

\* The insertion of a tenant: the index lets it in, and the request has succeeded.
LEMMA InsertStep ==
    ASSUME CatalogInv, NEW r \in Requests, RegisterTenantInsert(r)
    PROVE  TenantsUnique' /\ Balanced' /\ AnswersPosted'
<1>1. /\ req[r].op = "RegisterTenant" /\ req[r].at = "insert" /\ UNCHANGED <<bus, lost>>
      /\ \/ /\ tenants' \in InsertTenant(tenants, req[r].doc) /\ Go(r, "permit")
         \/ Go(r, "error") /\ UNCHANGED tenants
    BY Zenon DEF RegisterTenantInsert, Refuse
<1>2. CatalogTypeOK
    BY Zenon DEF CatalogInv
<1>3. CASE Go(r, "error") /\ UNCHANGED tenants
    <2>1. /\ req'[r].at = "error" /\ OthersStand(r)
        BY <1>1, <1>2, <1>3, GoStep
    <2>2. \A op, t : /\ r \notin Done(op, t) /\ r \notin Done(op, t)'
                     /\ r \notin AnsweredOk(op, t) /\ r \notin AnsweredOk(op, t)'
        BY <1>1, <2>1 DEF Done, AnsweredOk
    <2>. QED BY <1>1, <1>3, <2>1, <2>2, QuietStep, Zenon
<1>4. CASE tenants' \in InsertTenant(tenants, req[r].doc) /\ Go(r, "permit")
    <2>. DEFINE doc == req[r].doc
    <2>1. /\ req'[r].at = "permit" /\ req'[r].op = "RegisterTenant" /\ req'[r].doc = doc
          /\ OthersStand(r)
        BY <1>1, <1>2, <1>4, GoStep
    <2>2. tenants' = tenants \cup {doc} /\ {d \in tenants : d.tenant = doc.tenant} = {}
        BY <1>4 DEF InsertTenant, Insertions, TenantKey
    <2>. HIDE DEF doc
    <2>3. TenantsUnique'
        BY <2>2, Zenon DEF CatalogInv, TenantsUnique
    <2>4. ASSUME NEW t \in Tenants
          PROVE  /\ Cardinality(Done("RegisterTenant", t)')
                      = Cardinality(Done("DeleteTenant", t)') + Cardinality(DocsOf(t)')
                 /\ \A op \in TenantOps : AnsweredOk(op, t)' = AnsweredOk(op, t)
        <3>1. \A op : r \notin Done(op, t) /\ r \notin AnsweredOk(op, t) /\ r \notin AnsweredOk(op, t)'
            BY <1>1, <2>1 DEF Done, AnsweredOk
        <3>2. r \notin Done("DeleteTenant", t)'
            BY <2>1 DEF Done
        <3>3. Done("DeleteTenant", t)' = Done("DeleteTenant", t)
              /\ \A op : AnsweredOk(op, t)' = AnsweredOk(op, t)
            BY <2>1, <3>1, <3>2, NotCounted, Zenon
        <3>4. Cardinality(Done("RegisterTenant", t))
                = Cardinality(Done("DeleteTenant", t)) + Cardinality(DocsOf(t))
            BY Zenon DEF CatalogInv, Balanced
        <3>5. TenantsUnique
            BY Zenon DEF CatalogInv
        <3>6. CASE doc.tenant = t
            <4>1. r \in Done("RegisterTenant", t)'
                BY <2>1, <3>6, Zenon DEF Done
            <4>2. Done("RegisterTenant", t)' = Done("RegisterTenant", t) \cup {r}
                BY <2>1, <3>1, <4>1, DoneAdds, Zenon
            <4>3. Cardinality(Done("RegisterTenant", t)') = Cardinality(Done("RegisterTenant", t)) + 1
                BY <3>1, <4>2, DoneFinite, FS_AddElement, Zenon
            <4>4. DocsOf(t) = {} /\ DocsOf(t)' # {}
                BY <2>2, <3>6, Zenon DEF DocsOf
            <4>5. Cardinality(DocsOf(t)) = 0
                BY <3>5, <4>4, DocsCount, Zenon
            <4>6. Cardinality(DocsOf(t)') = 1
                BY <2>3, <4>4, DocsCountNext, Zenon
            <4>7. Cardinality(Done("DeleteTenant", t)) \in Nat
                BY DoneFinite, FS_CardinalityType, Zenon
            <4>. QED BY <3>3, <3>4, <4>3, <4>5, <4>6, <4>7
        <3>7. CASE doc.tenant # t
            <4>1. r \notin Done("RegisterTenant", t)'
                BY <2>1, <3>7, Zenon DEF Done
            <4>2. Done("RegisterTenant", t)' = Done("RegisterTenant", t)
                BY <2>1, <3>1, <4>1, NotCounted, Zenon
            <4>3. DocsOf(t)' = DocsOf(t)
                BY <2>2, <3>7, Zenon DEF DocsOf
            <4>. QED BY <3>3, <3>4, <4>2, <4>3, Zenon
        <3>. QED BY <3>6, <3>7, Zenon
    <2>5. Balanced'
        BY <2>4, Zenon DEF Balanced
    <2>6. AnswersPosted'
        <3>1. \A op, t : Posted(op, t)' = Posted(op, t)
            BY <1>1, Zenon DEF Posted
        <3>. QED BY <1>1, <2>4, <3>1, Zenon DEF CatalogInv, AnswersPosted, TenantOps
    <2>. QED BY <2>3, <2>5, <2>6
<1>. QED BY <1>1, <1>3, <1>4, Zenon

\* The deletion of a tenant: its document goes, and the request has succeeded.
LEMMA DeleteStep ==
    ASSUME CatalogInv, NEW r \in Requests, NEW u \in Tenants, DeleteTenantRequest(r, u)
    PROVE  TenantsUnique' /\ Balanced' /\ AnswersPosted'
<1>. DEFINE doc == [tenant |-> u]
<1>1. /\ UNCHANGED <<bus, lost>>
      /\ \/ Begin(r, "DeleteTenant", "post", doc) /\ tenants' \in DeleteTenant(tenants, u)
         \/ Begin(r, "DeleteTenant", "error", doc) /\ UNCHANGED tenants
    BY Zenon DEF DeleteTenantRequest
<1>2. CatalogTypeOK
    BY Zenon DEF CatalogInv
<1>3. doc \in Doc /\ doc.tenant = u
    BY DEF Doc
<1>3a. \A at \in {"post", "error"} : Stage(at, doc)
    BY <1>3, Zenon DEF Stage
<1>. HIDE DEF doc
<1>4. CASE Begin(r, "DeleteTenant", "error", doc) /\ UNCHANGED tenants
    <2>1. /\ req[r].at = "waiting" /\ req'[r].at = "error"
          /\ OthersStand(r)
        <3>1. Begin(r, "DeleteTenant", "error", doc) /\ Stage("error", doc)
            BY <1>3a, <1>4, Zenon
        <3>. QED BY <1>2, <3>1, BeginStep, Zenon
    <2>2. \A op, t : /\ r \notin Done(op, t) /\ r \notin Done(op, t)'
                     /\ r \notin AnsweredOk(op, t) /\ r \notin AnsweredOk(op, t)'
        BY <2>1 DEF Done, AnsweredOk
    <2>. QED BY <1>1, <1>4, <2>1, <2>2, QuietStep, Zenon
<1>5. CASE Begin(r, "DeleteTenant", "post", doc) /\ tenants' \in DeleteTenant(tenants, u)
    <2>1. /\ req[r].at = "waiting"
          /\ req'[r].at = "post" /\ req'[r].op = "DeleteTenant" /\ req'[r].doc = doc
          /\ OthersStand(r)
        <3>1. Begin(r, "DeleteTenant", "post", doc) /\ Stage("post", doc)
            BY <1>3a, <1>5, Zenon
        <3>. QED BY <1>2, <3>1, BeginStep, Zenon
    <2>2. PICK gone \in tenants : gone.tenant = u /\ tenants' = tenants \ {gone}
        BY <1>5, Zenon DEF DeleteTenant, Removals
    <2>3. TenantsUnique'
        BY <2>2, Zenon DEF CatalogInv, TenantsUnique
    <2>4. ASSUME NEW t \in Tenants
          PROVE  /\ Cardinality(Done("RegisterTenant", t)')
                      = Cardinality(Done("DeleteTenant", t)') + Cardinality(DocsOf(t)')
                 /\ \A op \in TenantOps : AnsweredOk(op, t)' = AnsweredOk(op, t)
        <3>1. \A op : r \notin Done(op, t) /\ r \notin AnsweredOk(op, t) /\ r \notin AnsweredOk(op, t)'
            BY <2>1 DEF Done, AnsweredOk
        <3>2. r \notin Done("RegisterTenant", t)'
            BY <2>1 DEF Done
        <3>3. Done("RegisterTenant", t)' = Done("RegisterTenant", t)
              /\ \A op : AnsweredOk(op, t)' = AnsweredOk(op, t)
            BY <2>1, <3>1, <3>2, NotCounted, Zenon
        <3>4. Cardinality(Done("RegisterTenant", t))
                = Cardinality(Done("DeleteTenant", t)) + Cardinality(DocsOf(t))
            BY Zenon DEF CatalogInv, Balanced
        <3>5. TenantsUnique
            BY Zenon DEF CatalogInv
        <3>6. CASE u = t
            <4>1. r \in Done("DeleteTenant", t)'
                BY <1>3, <2>1, <3>6, Zenon DEF Done
            <4>2. Done("DeleteTenant", t)' = Done("DeleteTenant", t) \cup {r}
                BY <2>1, <3>1, <4>1, DoneAdds, Zenon
            <4>3. Cardinality(Done("DeleteTenant", t)') = Cardinality(Done("DeleteTenant", t)) + 1
                BY <3>1, <4>2, DoneFinite, FS_AddElement, Zenon
            <4>4. DocsOf(t) # {}
                BY <2>2, <3>6, Zenon DEF DocsOf
            <4>4a. DocsOf(t)' = {}
                BY <2>2, <3>5, <3>6, Zenon DEF DocsOf, TenantsUnique
            <4>5. Cardinality(DocsOf(t)) = 1
                BY <3>5, <4>4, DocsCount, Zenon
            <4>6. Cardinality(DocsOf(t)') = 0
                BY <4>4a, FS_EmptySet, Zenon
            <4>7. Cardinality(Done("DeleteTenant", t)) \in Nat
                BY DoneFinite, FS_CardinalityType, Zenon
            <4>. QED BY <3>3, <3>4, <4>3, <4>5, <4>6, <4>7
        <3>7. CASE u # t
            <4>1. r \notin Done("DeleteTenant", t)'
                BY <1>3, <2>1, <3>7, Zenon DEF Done
            <4>2. Done("DeleteTenant", t)' = Done("DeleteTenant", t)
                BY <2>1, <3>1, <4>1, NotCounted, Zenon
            <4>3. \A d : d \in DocsOf(t)' <=> d \in DocsOf(t)
                <5>1. gone \notin DocsOf(t)
                    BY <2>2, <3>7, Zenon DEF DocsOf
                <5>. QED BY <2>2, <5>1, Zenon DEF DocsOf
            <4>4. DocsOf(t)' = DocsOf(t)
                BY <4>3, Zenon
            <4>. QED BY <3>3, <3>4, <4>2, <4>4, Zenon
        <3>. QED BY <3>6, <3>7, Zenon
    <2>5. Balanced'
        BY <2>4, Zenon DEF Balanced
    <2>6. AnswersPosted'
        <3>1. \A op, t : Posted(op, t)' = Posted(op, t)
            BY <1>1, Zenon DEF Posted
        <3>. QED BY <1>1, <2>4, <3>1, Zenon DEF CatalogInv, AnswersPosted, TenantOps
    <2>. QED BY <2>3, <2>5, <2>6
<1>. QED BY <1>1, <1>4, <1>5, Zenon

\* An update replaces the document of a tenant by another one of the tenant.
LEMMA UpdateStep ==
    ASSUME CatalogInv, NEW r \in Requests, NEW u \in Tenants, UpdateTenantRequest(r, u)
    PROVE  TenantsUnique' /\ Balanced' /\ AnswersPosted'
<1>. DEFINE doc == [tenant |-> u, by |-> r]
<1>1. /\ UNCHANGED <<bus, lost>>
      /\ \/ Begin(r, "UpdateTenant", "post", doc) /\ tenants' \in UpdateTenant(tenants, u, doc)
         \/ Begin(r, "UpdateTenant", "error", doc) /\ UNCHANGED tenants
    BY Zenon DEF UpdateTenantRequest
<1>2. CatalogTypeOK
    BY Zenon DEF CatalogInv
<1>3. doc \in Doc /\ doc.tenant = u
    BY DEF Doc
<1>3a. \A at \in {"post", "error"} : Stage(at, doc)
    BY <1>3, Zenon DEF Stage
<1>. HIDE DEF doc
<1>4. /\ req[r].at = "waiting" /\ req'[r].op = "UpdateTenant"
      /\ OthersStand(r)
    BY <1>1, <1>2, <1>3a, BeginStep, Zenon
<1>5. \A op \in TenantOps : \A t : /\ r \notin Done(op, t) /\ r \notin Done(op, t)'
                                   /\ r \notin AnsweredOk(op, t) /\ r \notin AnsweredOk(op, t)'
    BY <1>4 DEF Done, AnsweredOk, TenantOps
<1>6. CASE UNCHANGED tenants
    BY <1>1, <1>4, <1>5, <1>6, QuietStep, Zenon
<1>7. CASE tenants' \in UpdateTenant(tenants, u, doc)
    <2>1. PICK gone \in tenants : gone.tenant = u /\ tenants' = (tenants \ {gone}) \cup {doc}
        BY <1>7, Zenon DEF UpdateTenant, Replacements
    <2>2. TenantsUnique
        BY Zenon DEF CatalogInv
    <2>3. TenantsUnique'
        BY <1>3, <2>1, <2>2, Zenon DEF TenantsUnique
    <2>4. \A op \in TenantOps, t \in Tenants :
              Done(op, t)' = Done(op, t) /\ AnsweredOk(op, t)' = AnsweredOk(op, t)
        BY <1>4, <1>5, NotCounted, Zenon
    <2>5. \A t \in Tenants : Cardinality(DocsOf(t)') = Cardinality(DocsOf(t))
        <3>1. ASSUME NEW t \in Tenants PROVE Cardinality(DocsOf(t)') = Cardinality(DocsOf(t))
            <4>1. CASE t = u
                <5>1. DocsOf(t) # {} /\ DocsOf(t)' # {}
                    BY <1>3, <2>1, <4>1, Zenon DEF DocsOf
                <5>. QED BY <2>2, <2>3, <5>1, DocsCount, DocsCountNext, Zenon
            <4>2. CASE t # u
                <5>1. DocsOf(t)' = DocsOf(t)
                    BY <1>3, <2>1, <4>2, Zenon DEF DocsOf
                <5>. QED BY <5>1, Zenon
            <4>. QED BY <4>1, <4>2, Zenon
        <3>. QED BY <3>1, Zenon
    <2>6. Balanced'
        BY <2>4, <2>5, Zenon DEF CatalogInv, Balanced, TenantOps
    <2>7. AnswersPosted'
        <3>1. \A op, t : Posted(op, t)' = Posted(op, t)
            BY <1>1, Zenon DEF Posted
        <3>. QED BY <1>1, <2>4, <3>1, Zenon DEF CatalogInv, AnswersPosted, TenantOps
    <2>. QED BY <2>3, <2>6, <2>7
<1>. QED BY <1>1, <1>6, <1>7, Zenon

\* The answer and the message of a request come together.
LEMMA PostStep ==
    ASSUME CatalogInv, NEW r \in Requests, PostMessage(r)
    PROVE  TenantsUnique' /\ Balanced' /\ AnswersPosted'
<1>. DEFINE m == [op |-> req[r].op, doc |-> req[r].doc]
<1>1. /\ req[r].at = "post" /\ Go(r, "ok") /\ UNCHANGED tenants
      /\ \/ bus' = Append(bus, m) /\ UNCHANGED lost
         \/ lost < MaxLost /\ lost' = lost + 1 /\ UNCHANGED bus
    BY Zenon DEF PostMessage
<1>2. CatalogTypeOK
    BY Zenon DEF CatalogInv
<1>3. /\ req[r] \in Begun
      /\ req'[r].op = req[r].op /\ req'[r].at = "ok" /\ req'[r].doc = req[r].doc
      /\ OthersStand(r)
    BY <1>1, <1>2, GoStep
<1>4. m \in [op : Ops, doc : Doc] /\ m.op = req[r].op /\ m.doc = req[r].doc
    BY <1>1, <1>3 DEF Begun
<1>. HIDE DEF m
<1>5. \A op, t : r \in Done(op, t) <=> r \in Done(op, t)'
    BY <1>1, <1>3 DEF Done
<1>6. \A op, t : Done(op, t)' = Done(op, t)
    BY <1>3, <1>5, DoneSame, Zenon
<1>7. TenantsUnique'
    BY <1>1, Zenon DEF CatalogInv, TenantsUnique
<1>8. Balanced'
    <2>1. \A t : DocsOf(t)' = DocsOf(t)
        BY <1>1, Zenon DEF DocsOf
    <2>. QED BY <1>6, <2>1, Zenon DEF CatalogInv, Balanced
<1>9. AnswersPosted'
    <2>1. CASE lost' = lost + 1
        <3>1. lost \in Nat
            BY <1>2, Zenon DEF CatalogTypeOK
        <3>2. lost' # 0
            BY <2>1, <3>1
        <3>. QED BY <3>2, Zenon DEF AnswersPosted
    <2>2. CASE bus' = Append(bus, m) /\ UNCHANGED lost
        <3>. DEFINE n == Len(bus) + 1
        <3>1. bus \in Seq([op : Ops, doc : Doc])
            BY <1>2, Zenon DEF CatalogTypeOK
        <3>2. /\ DOMAIN bus' = DOMAIN bus \cup {n} /\ n \notin DOMAIN bus
              /\ bus'[n] = m /\ \A i \in DOMAIN bus : bus'[i] = bus[i]
            BY <1>4, <2>2, <3>1
        <3>3. DOMAIN bus = 1..Len(bus) /\ Len(bus) \in Nat
            BY <3>1
        <3>. HIDE DEF n
        <3>4. ASSUME lost' = 0, NEW op \in TenantOps, NEW t \in Tenants
              PROVE  Cardinality(Posted(op, t)') = Cardinality(AnsweredOk(op, t)')
            <4>1. Cardinality(Posted(op, t)) = Cardinality(AnsweredOk(op, t))
                BY <2>2, <3>4, Zenon DEF CatalogInv, AnswersPosted, TenantOps
            <4>2. IsFiniteSet(Posted(op, t)) /\ n \notin Posted(op, t)
                <5>1. Posted(op, t) \subseteq 1..Len(bus)
                    BY <3>3, Zenon DEF Posted
                <5>2. IsFiniteSet(1..Len(bus))
                    BY <3>3, FS_Interval
                <5>3. n \notin Posted(op, t)
                    BY <3>2, Zenon DEF Posted
                <5>. QED BY <5>1, <5>2, <5>3, FS_Subset, Zenon
            <4>3. r \notin AnsweredOk(op, t)
                BY <1>1 DEF AnsweredOk
            <4>4. CASE req[r].op = op /\ req[r].doc.tenant = t
                <5>1. Posted(op, t)' = Posted(op, t) \cup {n}
                    BY <1>4, <3>2, <4>4, Zenon DEF Posted
                <5>2. r \in AnsweredOk(op, t)'
                    BY <1>3, <4>4, Zenon DEF AnsweredOk, Done
                <5>3. AnsweredOk(op, t)' = AnsweredOk(op, t) \cup {r}
                    BY <1>3, <4>3, <5>2, AnsweredAdds, Zenon
                <5>4. Cardinality(Posted(op, t)') = Cardinality(Posted(op, t)) + 1
                    BY <4>2, <5>1, FS_AddElement, Zenon
                <5>5. Cardinality(AnsweredOk(op, t)') = Cardinality(AnsweredOk(op, t)) + 1
                    BY <4>3, <5>3, DoneFinite, FS_AddElement, Zenon
                <5>. QED BY <4>1, <5>4, <5>5, Zenon
            <4>5. CASE ~(req[r].op = op /\ req[r].doc.tenant = t)
                <5>1. Posted(op, t)' = Posted(op, t)
                    BY <1>4, <3>2, <4>5, Zenon DEF Posted
                <5>2. r \notin AnsweredOk(op, t)'
                    BY <1>3, <4>5, Zenon DEF AnsweredOk, Done
                <5>3. AnsweredOk(op, t)' = AnsweredOk(op, t)
                    BY <1>3, <4>3, <5>2, NotCounted, Zenon
                <5>. QED BY <4>1, <5>1, <5>3, Zenon
            <4>. QED BY <4>4, <4>5, Zenon
        <3>. QED BY <3>4, Zenon DEF AnswersPosted, TenantOps
    <2>. QED BY <1>1, <2>1, <2>2, Zenon
<1>. QED BY <1>7, <1>8, <1>9

-----------------------------------------------------------------------------
(* Products.                                                                  *)

\* Documents of a product are replaced by one of the same product.
LEMMA ReplacedProduct ==
    ASSUME CatalogInv, NEW doc \in ProductDoc, products' \in UpdateProduct(products, doc),
           UNCHANGED owner
    PROVE  products' \subseteq ProductDoc /\ ProductsUnique' /\ DeletedStaysDeleted'
<1>1. PICK gone \in products : gone.product = doc.product
                               /\ products' = (products \ {gone}) \cup {doc}
    BY Zenon DEF UpdateProduct, Replacements
<1>2. products \subseteq ProductDoc /\ ProductsUnique /\ DeletedStaysDeleted
    BY Zenon DEF CatalogInv, CatalogTypeOK
<1>3. products' \subseteq ProductDoc /\ ProductsUnique'
    BY <1>1, <1>2, Zenon DEF ProductsUnique
<1>4. \A p : GetProduct(products, p) = {} => GetProduct(products, p)' = {}
    BY <1>1, Zenon DEF GetProduct
<1>5. DeletedStaysDeleted'
    BY <1>2, <1>4, Zenon DEF DeletedStaysDeleted
<1>. QED BY <1>3, <1>5

\* The insertion of a product keeps what is said of products.
LEMMA CreatedProduct ==
    ASSUME CatalogInv, NEW doc \in ProductDoc, doc.tenant # NoTenant,
           products' \in RegisterProduct(products, doc),
           owner' = [owner EXCEPT ![doc.product] = doc.tenant]
    PROVE  /\ products' \subseteq ProductDoc /\ ProductsUnique' /\ DeletedStaysDeleted'
           /\ DOMAIN owner' = ProductIds
<1>1. /\ products' = products \cup {doc}
      /\ \A d \in products : d.product # doc.product
    BY DEF RegisterProduct, Insertions, ProductKey
<1>2. products \subseteq ProductDoc /\ ProductsUnique /\ DeletedStaysDeleted /\ DOMAIN owner = ProductIds
    BY Zenon DEF CatalogInv, CatalogTypeOK
<1>3. products' \subseteq ProductDoc /\ ProductsUnique'
    BY <1>1, <1>2, Zenon DEF ProductsUnique
<1>4. DOMAIN owner' = ProductIds
      /\ \A p \in ProductIds : owner'[p] = IF p = doc.product THEN doc.tenant ELSE owner[p]
    BY <1>2, Zenon
<1>5. \A p : p # doc.product => (GetProduct(products, p) = {} => GetProduct(products, p)' = {})
    BY <1>1, Zenon DEF GetProduct
<1>6. DeletedStaysDeleted'
    BY <1>2, <1>4, <1>5, Zenon DEF DeletedStaysDeleted
<1>. QED BY <1>3, <1>4, <1>6

\* The deletion of a product keeps it.
LEMMA RemovedProduct ==
    ASSUME CatalogInv, NEW p \in ProductIds, products' \in DeleteProduct(products, p),
           owner' = [owner EXCEPT ![p] = NoTenant]
    PROVE  /\ products' \subseteq ProductDoc /\ ProductsUnique' /\ DeletedStaysDeleted'
           /\ DOMAIN owner' = ProductIds
<1>1. PICK gone \in products : gone.product = p /\ products' = products \ {gone}
    BY Zenon DEF DeleteProduct, Removals
<1>2. products \subseteq ProductDoc /\ ProductsUnique /\ DeletedStaysDeleted /\ DOMAIN owner = ProductIds
    BY Zenon DEF CatalogInv, CatalogTypeOK
<1>3. products' \subseteq ProductDoc /\ ProductsUnique'
    BY <1>1, <1>2, Zenon DEF ProductsUnique
<1>4. DOMAIN owner' = ProductIds
      /\ \A x \in ProductIds : x # p => owner'[x] = owner[x]
    BY <1>2, Zenon
<1>5. \A x : (x = p \/ GetProduct(products, x) = {}) => GetProduct(products, x)' = {}
    BY <1>1, <1>2, Zenon DEF GetProduct, ProductsUnique
<1>6. DeletedStaysDeleted'
    BY <1>2, <1>4, <1>5, Zenon DEF DeletedStaysDeleted
<1>. QED BY <1>3, <1>4, <1>6

\* A step that leaves products alone.
LEMMA SameProducts ==
    ASSUME CatalogInv, UNCHANGED <<products, owner>>
    PROVE  /\ products' \subseteq ProductDoc /\ ProductsUnique' /\ DeletedStaysDeleted'
           /\ DOMAIN owner' = ProductIds
BY Zenon DEF CatalogInv, CatalogTypeOK, ProductsUnique, DeletedStaysDeleted, GetProduct

-----------------------------------------------------------------------------
(* The steps.                                                                 *)

\* A request that begins and is not about deletions or registrations.
LEMMA OtherBegins ==
    ASSUME CatalogInv, NEW r \in Requests, NEW op, NEW at, NEW doc, Stage(at, doc),
           Begin(r, op, at, doc),
           op \notin TenantOps \/ at \in {"insert", "error"}, UNCHANGED <<tenants, bus, lost>>
    PROVE  /\ req' \in [Requests -> {Waiting} \cup Begun]
           /\ TenantsUnique' /\ Balanced' /\ AnswersPosted'
<1>1. CatalogTypeOK
    BY Zenon DEF CatalogInv
<1>2. /\ req' \in [Requests -> {Waiting} \cup Begun]
      /\ req[r].at = "waiting" /\ req'[r].op = op /\ req'[r].at = at
      /\ OthersStand(r)
    BY <1>1, BeginStep, Zenon
<1>3. \A o \in TenantOps : \A t : /\ r \notin Done(o, t) /\ r \notin Done(o, t)'
                                  /\ r \notin AnsweredOk(o, t) /\ r \notin AnsweredOk(o, t)'
    BY <1>2 DEF Done, AnsweredOk
<1>. QED BY <1>2, <1>3, QuietStep, Zenon

\* A request that goes on and was counted before, or is not counted at all.
LEMMA OtherGoes ==
    ASSUME CatalogInv, NEW r \in Requests, req[r].at # "waiting",
           NEW at \in {"permit", "post", "ok", "error"}, Go(r, at),
           req[r].op \notin TenantOps \/ (req[r].at = "permit" /\ at = "post"),
           UNCHANGED <<tenants, bus, lost>>
    PROVE  /\ req' \in [Requests -> {Waiting} \cup Begun]
           /\ TenantsUnique' /\ Balanced' /\ AnswersPosted'
<1>1. CatalogTypeOK
    BY Zenon DEF CatalogInv
<1>2. /\ req' \in [Requests -> {Waiting} \cup Begun]
      /\ req'[r].op = req[r].op /\ req'[r].at = at /\ req'[r].doc = req[r].doc
      /\ OthersStand(r)
    BY <1>1, GoStep
<1>3. \A o \in TenantOps, t \in Tenants : /\ r \in Done(o, t) <=> r \in Done(o, t)'
                                          /\ r \in AnsweredOk(o, t) <=> r \in AnsweredOk(o, t)'
    BY <1>2 DEF Done, AnsweredOk
<1>. QED BY <1>2, <1>3, QuietStep, Zenon

\* What is said of tenants and messages, and of products, in the next state.
Kept ==
    /\ req' \in [Requests -> {Waiting} \cup Begun]
    /\ bus' \in Seq([op : Ops, doc : Doc]) /\ lost' \in Nat
    /\ TenantsUnique' /\ Balanced' /\ AnswersPosted'

KeptProducts ==
    /\ products' \subseteq ProductDoc /\ ProductsUnique' /\ DeletedStaysDeleted'
    /\ DOMAIN owner' = ProductIds

\* Both together are the invariant.
LEMMA KeptMeans ==
    ASSUME Kept, KeptProducts PROVE CatalogInv'
BY Zenon DEF Kept, KeptProducts, CatalogInv, CatalogTypeOK

\* A step without a message.
LEMMA SameBus ==
    ASSUME CatalogInv, UNCHANGED <<bus, lost>>
    PROVE  bus' \in Seq([op : Ops, doc : Doc]) /\ lost' \in Nat
BY Zenon DEF CatalogInv, CatalogTypeOK

\* The first command of a request about a tenant keeps the invariant.
LEMMA TenantRequestKeepsInv ==
    ASSUME CatalogInv, NEW r \in Requests, TenantRequest(r)
    PROVE  CatalogInv'
<1>1. PICK t \in Tenants :
          RegisterTenant(r, t) \/ DeleteTenantRequest(r, t) \/ UpdateTenantRequest(r, t)
    BY Zenon DEF TenantRequest
<1>2. UNCHANGED <<products, owner, bus, lost>>
    BY <1>1, Zenon DEF RegisterTenant, DeleteTenantRequest, UpdateTenantRequest
<1>3. KeptProducts
    BY <1>2, SameProducts, Zenon DEF KeptProducts
<1>4. [tenant |-> t] \in Doc /\ [tenant |-> t, by |-> r] \in Doc
    BY DEF Doc
<1>5. CatalogTypeOK
    BY Zenon DEF CatalogInv
<1>6. CASE RegisterTenant(r, t)
    <2>1. PICK at \in {"insert", "error"} : Begin(r, "RegisterTenant", at, [tenant |-> t, by |-> r])
        BY <1>6, Zenon DEF RegisterTenant
    <2>2. UNCHANGED tenants
        BY <1>6, Zenon DEF RegisterTenant
    <2>3. Stage(at, [tenant |-> t, by |-> r])
        BY <1>4, <2>1, Zenon DEF Stage
    <2>4. req' \in [Requests -> {Waiting} \cup Begun] /\ TenantsUnique' /\ Balanced' /\ AnswersPosted'
        BY <1>2, <2>1, <2>2, <2>3, OtherBegins, Zenon
    <2>. QED BY <1>2, <1>3, <2>4, SameBus, KeptMeans, Zenon DEF Kept
<1>7. CASE DeleteTenantRequest(r, t)
    <2>1. PICK at \in {"post", "error"} : Begin(r, "DeleteTenant", at, [tenant |-> t])
        BY <1>7, Zenon DEF DeleteTenantRequest
    <2>1a. Stage(at, [tenant |-> t])
        BY <1>4, <2>1, Zenon DEF Stage
    <2>2. req' \in [Requests -> {Waiting} \cup Begun]
        BY <1>5, <2>1, <2>1a, BeginStep, Zenon
    <2>3. TenantsUnique' /\ Balanced' /\ AnswersPosted'
        BY <1>7, DeleteStep, Zenon
    <2>. QED BY <1>2, <1>3, <2>2, <2>3, SameBus, KeptMeans, Zenon DEF Kept
<1>8. CASE UpdateTenantRequest(r, t)
    <2>1. PICK at \in {"post", "error"} : Begin(r, "UpdateTenant", at, [tenant |-> t, by |-> r])
        BY <1>8, Zenon DEF UpdateTenantRequest
    <2>1a. Stage(at, [tenant |-> t, by |-> r])
        BY <1>4, <2>1, Zenon DEF Stage
    <2>2. req' \in [Requests -> {Waiting} \cup Begun]
        BY <1>5, <2>1, <2>1a, BeginStep, Zenon
    <2>3. TenantsUnique' /\ Balanced' /\ AnswersPosted'
        BY <1>8, UpdateStep, Zenon
    <2>. QED BY <1>2, <1>3, <2>2, <2>3, SameBus, KeptMeans, Zenon DEF Kept
<1>. QED BY <1>1, <1>6, <1>7, <1>8

\* The first command of a request about a product keeps it.
LEMMA ProductRequestKeepsInv ==
    ASSUME CatalogInv, NEW r \in Requests, ProductRequest(r)
    PROVE  CatalogInv'
<1>1. ASSUME NEW op, op \notin TenantOps, NEW doc \in Doc,
             NEW at \in {"permit", "post", "error"}, Begin(r, op, at, doc),
             UNCHANGED <<tenants, bus, lost>>
      PROVE  Kept
    <2>1. Stage(at, doc)
        BY <1>1, Zenon DEF Stage
    <2>. QED BY <1>1, <2>1, OtherBegins, SameBus, Zenon DEF Kept
<1>2. ASSUME NEW t \in Tenants, NEW p \in ProductIds, CreateProduct(r, t, p) PROVE CatalogInv'
    <2>. DEFINE doc == [product |-> p, tenant |-> t, flavor |-> NoFlavor]
    <2>1. doc \in Doc /\ doc \in ProductDoc /\ doc.tenant # NoTenant /\ doc.product = p /\ doc.tenant = t
        BY CatalogAssumption DEF Doc, ProductDoc
    <2>2. /\ UNCHANGED <<tenants, bus, lost>>
          /\ \/ /\ Begin(r, "CreateProduct", "permit", doc)
                /\ products' \in RegisterProduct(products, doc)
                /\ owner' = [owner EXCEPT ![p] = t]
             \/ /\ Begin(r, "CreateProduct", "error", doc)
                /\ UNCHANGED <<products, owner>>
        BY <1>2, Zenon DEF CreateProduct
    <2>. HIDE DEF doc
    <2>3. KeptProducts
        BY <2>1, <2>2, CreatedProduct, SameProducts, Zenon DEF KeptProducts
    <2>4. Kept
        BY <1>1, <2>1, <2>2 DEF TenantOps
    <2>. QED BY <2>3, <2>4, KeptMeans
<1>3. ASSUME NEW t \in Tenants, NEW p \in ProductIds, RemoveProduct(r, t, p) PROVE CatalogInv'
    <2>. DEFINE doc == [product |-> p, tenant |-> t]
    <2>1. doc \in Doc
        BY DEF Doc
    <2>2. /\ UNCHANGED <<tenants, bus, lost>>
          /\ \/ /\ Begin(r, "RemoveProduct", "permit", doc)
                /\ products' \in DeleteProduct(products, p)
                /\ owner' = [owner EXCEPT ![p] = NoTenant]
             \/ /\ Begin(r, "RemoveProduct", "error", doc)
                /\ UNCHANGED <<products, owner>>
        BY <1>3, Zenon DEF RemoveProduct
    <2>. HIDE DEF doc
    <2>3. KeptProducts
        BY <2>2, RemovedProduct, SameProducts, Zenon DEF KeptProducts
    <2>4. Kept
        BY <1>1, <2>1, <2>2 DEF TenantOps
    <2>. QED BY <2>3, <2>4, KeptMeans
<1>4. ASSUME NEW p \in ProductIds, UpdateProductRequest(r, p) PROVE CatalogInv'
    <2>. DEFINE doc == [product |-> p, tenant |-> NoTenant, flavor |-> NoFlavor]
    <2>1. doc \in Doc /\ doc \in ProductDoc
        BY DEF Doc, ProductDoc
    <2>2. /\ UNCHANGED <<tenants, bus, lost, owner>>
          /\ \/ /\ Begin(r, "UpdateProduct", "post", doc)
                /\ products' \in UpdateProduct(products, doc)
             \/ /\ Begin(r, "UpdateProduct", "error", doc)
                /\ UNCHANGED products
        BY <1>4, Zenon DEF UpdateProductRequest
    <2>. HIDE DEF doc
    <2>3. DOMAIN owner' = ProductIds
        BY <2>2, Zenon DEF CatalogInv, CatalogTypeOK
    <2>4. KeptProducts
        BY <2>1, <2>2, <2>3, ReplacedProduct, SameProducts, Zenon DEF KeptProducts
    <2>5. Kept
        BY <1>1, <2>1, <2>2 DEF TenantOps
    <2>. QED BY <2>4, <2>5, KeptMeans
<1>. QED BY <1>2, <1>3, <1>4, Zenon DEF ProductRequest

\* The first command of a request about a flavor keeps it.
LEMMA FlavorRequestKeepsInv ==
    ASSUME CatalogInv, NEW r \in Requests, FlavorRequest(r)
    PROVE  CatalogInv'
<1>1. ASSUME NEW op, op \notin TenantOps, NEW at, NEW doc, Stage(at, doc),
             Begin(r, op, at, doc), UNCHANGED <<tenants, bus, lost, products, owner>>
      PROVE  CatalogInv'
    <2>1. Kept
        BY <1>1, OtherBegins, SameBus, Zenon DEF Kept
    <2>2. KeptProducts
        BY <1>1, SameProducts, Zenon DEF KeptProducts
    <2>. QED BY <2>1, <2>2, KeptMeans
<1>2. ASSUME NEW t \in Tenants, NEW f \in Flavors, CreateTopicFlavor(r, t, f) PROVE CatalogInv'
    <2>1. [flavor |-> f, tenant |-> t, by |-> r] \in Doc /\ "CreateTopicFlavor" \notin TenantOps
        BY DEF Doc, TenantOps
    <2>2. UNCHANGED <<tenants, bus, lost, products, owner>>
        BY <1>2, Zenon DEF CreateTopicFlavor
    <2>3. PICK at \in {"ok", "error"} :
              Begin(r, "CreateTopicFlavor", at, [flavor |-> f, tenant |-> t, by |-> r])
        BY <1>2, Zenon DEF CreateTopicFlavor
    <2>4. Stage(at, [flavor |-> f, tenant |-> t, by |-> r])
        BY <2>1, <2>3, Zenon DEF Stage
    <2>. QED BY <1>1, <2>1, <2>2, <2>3, <2>4, Zenon
<1>3. ASSUME NEW p \in ProductIds, NEW f \in Flavors \cup {NoFlavor}, SetProductTopicFlavor(r, p, f)
      PROVE  CatalogInv'
    <2>1. UNCHANGED <<tenants, bus, lost, products, owner>>
        BY <1>3, Zenon DEF SetProductTopicFlavor
    <2>2. CASE Begin(r, "SetProductTopicFlavor", "error", [product |-> p])
        <3>1. [product |-> p] \in Doc /\ "SetProductTopicFlavor" \notin TenantOps
            BY DEF Doc, TenantOps
        <3>2. Stage("error", [product |-> p])
            BY <3>1, Zenon DEF Stage
        <3>. QED BY <1>1, <2>1, <2>2, <3>1, <3>2, Zenon
    <2>3. ASSUME NEW d \in GetProduct(products, p),
                 Begin(r, "SetProductTopicFlavor", "save", [d EXCEPT !.flavor = f])
          PROVE  CatalogInv'
        <3>1. d \in ProductDoc
            BY <2>3, Zenon DEF GetProduct, CatalogInv, CatalogTypeOK
        <3>2. Stage("save", [d EXCEPT !.flavor = f])
            BY <3>1 DEF ProductDoc, Stage
        <3>3. "SetProductTopicFlavor" \notin TenantOps
            BY DEF TenantOps
        <3>. QED BY <1>1, <2>1, <2>3, <3>2, <3>3, Zenon
    <2>. QED BY <1>3, <2>2, <2>3, Zenon DEF SetProductTopicFlavor
<1>. QED BY <1>2, <1>3, Zenon DEF FlavorRequest

\* The later commands of requests keep it.
LEMMA ProceedKeepsInv ==
    ASSUME CatalogInv, NEW r \in Requests, Proceed(r)
    PROVE  CatalogInv'
<1>0. CatalogTypeOK
    BY Zenon DEF CatalogInv
<1>1. CASE RegisterTenantInsert(r)
    <2>1. UNCHANGED <<products, owner, bus, lost>> /\ req[r].at # "waiting"
          /\ \E at \in {"permit", "error"} : Go(r, at)
        BY <1>1, Zenon DEF RegisterTenantInsert, Refuse
    <2>2. req' \in [Requests -> {Waiting} \cup Begun]
        BY <1>0, <2>1, GoStep
    <2>3. TenantsUnique' /\ Balanced' /\ AnswersPosted'
        BY <1>1, InsertStep, Zenon
    <2>4. KeptProducts
        BY <2>1, SameProducts, Zenon DEF KeptProducts
    <2>. QED BY <2>1, <2>2, <2>3, <2>4, SameBus, KeptMeans, Zenon DEF Kept
<1>2. CASE ChangePermissions(r)
    <2>1. UNCHANGED <<tenants, products, owner, bus, lost>> /\ req[r].at = "permit" /\ Go(r, "post")
        BY <1>2, Zenon DEF ChangePermissions
    <2>2. req' \in [Requests -> {Waiting} \cup Begun] /\ TenantsUnique' /\ Balanced' /\ AnswersPosted'
        BY <2>1, OtherGoes
    <2>3. KeptProducts
        BY <2>1, SameProducts, Zenon DEF KeptProducts
    <2>. QED BY <2>1, <2>2, <2>3, SameBus, KeptMeans, Zenon DEF Kept
<1>3. CASE PostMessage(r)
    <2>. DEFINE m == [op |-> req[r].op, doc |-> req[r].doc]
    <2>1. /\ UNCHANGED <<products, owner>> /\ req[r].at = "post" /\ Go(r, "ok")
          /\ \/ bus' = Append(bus, m) /\ UNCHANGED lost
             \/ lost' = lost + 1 /\ UNCHANGED bus
        BY <1>3, Zenon DEF PostMessage
    <2>2. req' \in [Requests -> {Waiting} \cup Begun] /\ req[r] \in Begun
        BY <1>0, <2>1, GoStep
    <2>3. m \in [op : Ops, doc : Doc]
        BY <2>1, <2>2 DEF Begun
    <2>. HIDE DEF m
    <2>4. bus \in Seq([op : Ops, doc : Doc]) /\ lost \in Nat
        BY <1>0, Zenon DEF CatalogTypeOK
    <2>5. bus' \in Seq([op : Ops, doc : Doc]) /\ lost' \in Nat
        <3>1. CASE bus' = Append(bus, m) /\ UNCHANGED lost
            BY <2>3, <2>4, <3>1
        <3>2. CASE lost' = lost + 1 /\ UNCHANGED bus
            BY <2>4, <3>2
        <3>. QED BY <2>1, <3>1, <3>2
    <2>6. TenantsUnique' /\ Balanced' /\ AnswersPosted'
        BY <1>3, PostStep, Zenon
    <2>7. KeptProducts
        BY <2>1, SameProducts, Zenon DEF KeptProducts
    <2>. QED BY <2>2, <2>5, <2>6, <2>7, KeptMeans, Zenon DEF Kept
<1>4. CASE SaveProductFlavor(r)
    <2>1. /\ UNCHANGED <<tenants, owner, bus, lost>>
          /\ req[r].op = "SetProductTopicFlavor" /\ req[r].at = "save"
          /\ \/ products' \in UpdateProduct(products, req[r].doc) /\ Go(r, "ok")
             \/ Go(r, "error") /\ UNCHANGED products
        BY <1>4, Zenon DEF SaveProductFlavor, Refuse
    <2>2. req[r] \in Begun
        BY <1>0, <2>1, GoStep
    <2>3. req[r].doc \in ProductDoc
        BY <2>1, <2>2 DEF Begun
    <2>4. req[r].at # "waiting" /\ req[r].op \notin TenantOps
        BY <2>1 DEF TenantOps
    <2>5. PICK at \in {"permit", "post", "ok", "error"} : Go(r, at)
        BY <2>1, Zenon
    <2>6. req' \in [Requests -> {Waiting} \cup Begun] /\ TenantsUnique' /\ Balanced' /\ AnswersPosted'
        BY <2>1, <2>4, <2>5, OtherGoes, Zenon
    <2>7. DOMAIN owner' = ProductIds
        BY <1>0, <2>1, Zenon DEF CatalogTypeOK
    <2>8. KeptProducts
        BY <2>1, <2>3, <2>7, ReplacedProduct, SameProducts, Zenon DEF KeptProducts
    <2>. QED BY <2>1, <2>6, <2>8, SameBus, KeptMeans, Zenon DEF Kept
<1>. QED BY <1>1, <1>2, <1>3, <1>4, Zenon DEF Proceed

\* An empty registry satisfies the invariant.
LEMMA CatalogInitInv == CatalogInit => CatalogInv
<1>. SUFFICES ASSUME CatalogInit PROVE CatalogInv
    OBVIOUS
<1>1. CatalogTypeOK
    BY DEF CatalogInit, CatalogTypeOK
<1>2. TenantsUnique /\ ProductsUnique /\ DeletedStaysDeleted
    BY Zenon DEF CatalogInit, TenantsUnique, ProductsUnique, DeletedStaysDeleted, GetProduct
<1>3. Cardinality({}) = 0
    BY FS_EmptySet, Zenon
<1>4. \A op, t : Done(op, t) = {} /\ AnsweredOk(op, t) = {}
    BY DEF CatalogInit, Done, AnsweredOk, Waiting
<1>5. \A op, t : Posted(op, t) = {} /\ DocsOf(t) = {}
    BY DEF CatalogInit, Posted, DocsOf
<1>6. Balanced /\ AnswersPosted
    BY <1>3, <1>4, <1>5 DEF Balanced, AnswersPosted
<1>. QED BY <1>1, <1>2, <1>6 DEF CatalogInv

\* Every step keeps the invariant.
LEMMA CatalogStep == CatalogInv /\ [CatalogNext]_catalogVars => CatalogInv'
<1>. SUFFICES ASSUME CatalogInv, [CatalogNext]_catalogVars PROVE CatalogInv'
    OBVIOUS
<1>1. CASE UNCHANGED catalogVars
    <2>1. UNCHANGED <<tenants, products, bus, lost, req, owner>>
        BY <1>1, Zenon DEF catalogVars
    <2>2. KeptProducts
        BY <2>1, SameProducts, Zenon DEF KeptProducts
    <2>3. \A op, t : /\ Done(op, t)' = Done(op, t) /\ AnsweredOk(op, t)' = AnsweredOk(op, t)
                     /\ Posted(op, t)' = Posted(op, t) /\ DocsOf(t)' = DocsOf(t)
        BY <2>1, Zenon DEF Done, AnsweredOk, DocsOf, Posted
    <2>4. TenantsUnique' /\ Balanced' /\ AnswersPosted'
        BY <2>1, <2>3, Zenon DEF CatalogInv, TenantsUnique, Balanced, AnswersPosted
    <2>5. req' \in [Requests -> {Waiting} \cup Begun]
        BY <2>1, Zenon DEF CatalogInv, CatalogTypeOK
    <2>. QED BY <2>1, <2>2, <2>4, <2>5, SameBus, KeptMeans, Zenon DEF Kept
<1>2. CASE CatalogNext
    BY <1>2, TenantRequestKeepsInv, ProductRequestKeepsInv, FlavorRequestKeepsInv,
       ProceedKeepsInv, Zenon DEF CatalogNext
<1>. QED BY <1>1, <1>2

\* The invariant is strong enough.
LEMMA CatalogInvMeans == CatalogInv => CatalogAsAnswered
<1>. SUFFICES ASSUME CatalogInv PROVE CatalogAsAnswered
    OBVIOUS
<1>1. ASSUME NEW t \in Tenants
      PROVE  /\ Cardinality(DocsOf(t)) \in {0, 1}
             /\ Cardinality(Done("DeleteTenant", t)) \in Nat
             /\ Cardinality(Done("RegisterTenant", t))
                  = Cardinality(Done("DeleteTenant", t)) + Cardinality(DocsOf(t))
    <2>1. Cardinality(DocsOf(t)) \in {0, 1}
        BY DocsCount, Zenon DEF CatalogInv
    <2>2. Cardinality(Done("DeleteTenant", t)) \in Nat
        BY DoneFinite, FS_CardinalityType, Zenon
    <2>. QED BY <2>1, <2>2, Zenon DEF CatalogInv, Balanced
<1>2. RegisteredOnce
    <2>1. ASSUME NEW t \in Tenants
          PROVE  /\ Cardinality(DocsOf(t)) <= 1
                 /\ Cardinality(Done("RegisterTenant", t)) <= 1 + Cardinality(Done("DeleteTenant", t))
        BY <1>1
    <2>. QED BY <2>1, Zenon DEF RegisteredOnce, DocsOf
<1>3. MessagesAccount
    <2>. SUFFICES ASSUME lost = 0, \A r \in Requests : req[r].at \in {"waiting", "ok", "error"},
                         NEW t \in Tenants
                  PROVE  Cardinality(Posted("RegisterTenant", t))
                           = Cardinality(Posted("DeleteTenant", t)) + Cardinality(DocsOf(t))
        BY Zenon DEF MessagesAccount, DocsOf
    <2>1. /\ AnsweredOk("RegisterTenant", t) = Done("RegisterTenant", t)
          /\ AnsweredOk("DeleteTenant", t) = Done("DeleteTenant", t)
        BY DEF AnsweredOk, Done
    <2>2. /\ Cardinality(Posted("RegisterTenant", t)) = Cardinality(AnsweredOk("RegisterTenant", t))
          /\ Cardinality(Posted("DeleteTenant", t)) = Cardinality(AnsweredOk("DeleteTenant", t))
        BY Zenon DEF CatalogInv, AnswersPosted
    <2>3. Cardinality(Done("RegisterTenant", t))
            = Cardinality(Done("DeleteTenant", t)) + Cardinality(DocsOf(t))
        BY <1>1, Zenon
    <2>. QED BY <2>1, <2>2, <2>3, Zenon
<1>. QED BY <1>2, <1>3, Zenon DEF CatalogAsAnswered, CatalogInv

\* For any number of concurrent requests, tenants and products, and although the
\* registry and Kafka may fail: a tenant is registered once, and again only
\* after a deletion; when every request has been answered and no message was
\* lost, the messages about a tenant account for its document; a product that
\* was deleted stays deleted, whatever requests have read it before
\* (RegisterTenant, DeleteTenant, UpdateTenant, CreateProduct, RemoveProduct,
\* UpdateProduct of v1api).
THEOREM CatalogIsAsAnswered == CatalogSpec => []CatalogAsAnswered
BY CatalogInitInv, CatalogStep, CatalogInvMeans, PTL DEF CatalogSpec

-----------------------------------------------------------------------------
(* A rule in a table has a goroutine that runs it.                         *)

Actions == ApiOps \cup RestOps \cup {"register", "start"}

\* Messages of the topic of rules.
RuleMessage == [no : Nat, product : Products, rule : Rules, action : ApiOps]

\* What a goroutine has in hand that sends on ruleChan.
Sending == [at : {"send"}, product : Products \cup {NoProduct}, rule : Rules, action : Actions]

\* What such a goroutine may be doing.
CallerState == {Idle, Ended} \cup Sending

\* Entries of the table of an executor.
RuleEntry == [rule : Rules, status : Statuses \cup {"started", "stoped"}, ppline : BOOLEAN]

\* Executors.
Executor == [there : BOOLEAN, running : BOOLEAN, rules : SUBSET RuleEntry]

\* Types of the state of the engine.
EngineTypeOK ==
    /\ rules \subseteq Documents /\ posting \subseteq RuleMessage
    /\ ruleBus \in [Partitions -> Seq(RuleMessage)]
    /\ caller \in [Callers -> CallerState]
    /\ recover \subseteq Documents
    /\ executors \in [Products -> Executor]
    /\ calls \in Nat /\ faults \in Nat

\* A table of rules belongs to an executor, whose goroutine runs while whaler is up.
TablesServed ==
    \A p \in Products :
        /\ executors[p].rules # {} => executors[p].there
        /\ (executors[p].there /\ status \notin {"stopped", "down"}) => executors[p].running

\* The table of the executor of p has rule r.
Has(p, r) == \E x \in executors[p].rules : x.rule = r

-----------------------------------------------------------------------------
(* What dispatchRule does to the table of one executor.                       *)

\* An assignment to an executor.
LEMMA ExecutorSet ==
    ASSUME executors \in [Products -> Executor], NEW p \in Products, NEW e \in Executor,
           executors' = [executors EXCEPT ![p] = e]
    PROVE  /\ executors' \in [Products -> Executor] /\ executors'[p] = e
           /\ \A q \in Products \ {p} : executors'[q] = executors[q]
BY Zenon

\* An assignment to the table of an executor.
LEMMA TableSet ==
    ASSUME executors \in [Products -> Executor], NEW p \in Products, NEW new \in SUBSET RuleEntry,
           executors' = [executors EXCEPT ![p].rules = new]
    PROVE  /\ executors' \in [Products -> Executor]
           /\ executors'[p].rules = new /\ executors'[p].there = executors[p].there
           /\ executors'[p].running = executors[p].running
           /\ \A q \in Products \ {p} : executors'[q] = executors[q]
<1>. DEFINE e == [executors[p] EXCEPT !.rules = new]
<1>1. executors[p] \in Executor
    BY Zenon
<1>2. /\ e \in Executor /\ e.rules = new /\ e.there = executors[p].there
      /\ e.running = executors[p].running
    BY <1>1 DEF Executor
<1>3. executors' = [executors EXCEPT ![p] = e]
    BY Zenon
<1>. HIDE DEF e
<1>4. /\ executors' \in [Products -> Executor] /\ executors'[p] = e
      /\ \A q \in Products \ {p} : executors'[q] = executors[q]
    BY <1>2, <1>3, Zenon
<1>. QED BY <1>2, <1>4, Zenon

\* The effect of a change of rule r on the executor of product p.
Effect(p, r, action) ==
    /\ executors' \in [Products -> Executor]
    /\ \A q \in Products \ {p} : executors'[q] = executors[q]
    /\ \A s : s # r => (Has(p, s)' <=> Has(p, s))
    /\ executors'[p].rules # {} => executors'[p].there
    /\ (executors'[p].there /\ ~executors'[p].running) => (executors[p].there /\ ~executors[p].running)
    /\ action = "remove" => ~Has(p, r)'
    /\ action \notin {"create", "remove"} => (Has(p, r)' <=> Has(p, r))
    /\ (action = "create" /\ Has(p, r)' /\ ~Has(p, r)) => GetRule(rules, p, r) # {}

\* The entry made from a document of the registry.
LEMMA EntryType ==
    ASSUME rules \subseteq Documents, NEW p, NEW r, NEW d \in GetRule(rules, p, r)
    PROVE  /\ Entry(d, TRUE) \in RuleEntry /\ Entry(d, TRUE).rule = r
           /\ Entry(d, FALSE) \in RuleEntry /\ Entry(d, FALSE).rule = r
<1>1. d \in Documents /\ d.product = p /\ d.rule = r
    BY Zenon DEF GetRule
<1>. QED BY <1>1 DEF Entry, RuleEntry, Documents

\* What createRule does.
LEMMA CreateEffect ==
    ASSUME EngineTypeOK, TablesServed, NEW p \in Products, NEW r \in Rules, CreateRule(p, r)
    PROVE  faults' \in Nat /\ faults <= faults' /\ Effect(p, r, "create")
<1>. DEFINE there == IF executors[p].there THEN executors[p] ELSE NewExecutor
            found == {d \in GetRule(rules, p, r) : d.target = "topic"}
<1>1. /\ executors \in [Products -> Executor] /\ executors[p] \in Executor /\ faults \in Nat
      /\ executors[p].rules # {} => executors[p].there
    BY Zenon DEF EngineTypeOK, TablesServed
<1>2. /\ there \in Executor /\ there.rules = executors[p].rules /\ there.there
      /\ ~there.running => (executors[p].there /\ ~executors[p].running)
    BY <1>1 DEF NewExecutor, Executor
<1>3. \/ faults' \in {faults, faults + 1} /\ UNCHANGED executors
      \/ /\ faults' \in {faults, faults + 1}
         /\ executors' = [executors EXCEPT ![p] = there]
      \/ \E d \in found :
         /\ executors' = [executors EXCEPT ![p] = [there EXCEPT !.rules = @ \cup {Entry(d, TRUE)}]]
         /\ faults' = faults
    BY Zenon DEF CreateRule, Fails
<1>. HIDE DEF there
<1>5. CASE faults' \in {faults, faults + 1} /\ UNCHANGED executors
    <2>1. faults' \in Nat /\ faults <= faults'
        BY <1>1, <1>5
    <2>. QED BY <1>1, <1>5, <2>1, Zenon DEF Effect, Has
<1>6. CASE /\ faults' \in {faults, faults + 1}
           /\ executors' = [executors EXCEPT ![p] = there]
    <2>1. /\ executors' \in [Products -> Executor] /\ executors'[p] = there
          /\ \A q \in Products \ {p} : executors'[q] = executors[q]
        BY <1>1, <1>2, <1>6, ExecutorSet, Zenon
    <2>2. \A s : Has(p, s)' <=> Has(p, s)
        BY <1>2, <2>1, Zenon DEF Has
    <2>3. faults' \in Nat /\ faults <= faults'
        BY <1>1, <1>6
    <2>. QED BY <1>2, <2>1, <2>2, <2>3, Zenon DEF Effect
<1>7. CASE \E d \in found :
           /\ executors' = [executors EXCEPT ![p] = [there EXCEPT !.rules = @ \cup {Entry(d, TRUE)}]]
           /\ faults' = faults
    <2>1. PICK d \in found :
           /\ executors' = [executors EXCEPT ![p] = [there EXCEPT !.rules = @ \cup {Entry(d, TRUE)}]]
           /\ faults' = faults
        BY <1>7
    <2>. DEFINE x == Entry(d, TRUE)
                e == [there EXCEPT !.rules = @ \cup {x}]
    <2>2. x \in RuleEntry /\ x.rule = r /\ d \in GetRule(rules, p, r) /\ d.target = "topic"
        <3>1. d \in GetRule(rules, p, r) /\ d.target = "topic"
            BY Zenon
        <3>2. rules \subseteq Documents
            BY Zenon DEF EngineTypeOK
        <3>3. x \in RuleEntry /\ x.rule = r
            BY <3>1, <3>2, EntryType, Zenon
        <3>. QED BY <3>1, <3>3, Zenon
    <2>. HIDE DEF x
    <2>3. /\ e \in Executor /\ e.rules = there.rules \cup {x} /\ e.there = there.there
          /\ e.running = there.running
        BY <1>2, <2>2 DEF Executor
    <2>4. executors' = [executors EXCEPT ![p] = e]
        BY <2>1, Zenon DEF x
    <2>. HIDE DEF e
    <2>5. /\ executors' \in [Products -> Executor] /\ executors'[p] = e
          /\ \A q \in Products \ {p} : executors'[q] = executors[q]
        BY <1>1, <2>3, <2>4, ExecutorSet, Zenon
    <2>6. \A s : s # r => (Has(p, s)' <=> Has(p, s))
        BY <1>2, <2>2, <2>3, <2>5, Zenon DEF Has
    <2>7. Has(p, r)'
        BY <2>2, <2>3, <2>5, Zenon DEF Has
    <2>8. faults' \in Nat /\ faults <= faults'
        BY <1>1, <2>1
    <2>. QED BY <1>2, <2>2, <2>3, <2>5, <2>6, <2>7, <2>8, Zenon DEF Effect
<1>. QED BY <1>3, <1>5, <1>6, <1>7, Zenon

\* What removeRule does.
LEMMA DeleteEffect ==
    ASSUME EngineTypeOK, TablesServed, NEW p \in Products, NEW r \in Rules,
           executors[p].there, DeleteRule(p, r)
    PROVE  UNCHANGED faults /\ Effect(p, r, "remove")
<1>. DEFINE new == executors[p].rules \ Named(p, r)
<1>1. /\ executors \in [Products -> Executor] /\ executors[p] \in Executor
      /\ executors[p].rules # {} => executors[p].there
    BY Zenon DEF EngineTypeOK, TablesServed
<1>2. executors' = [executors EXCEPT ![p].rules = new] /\ UNCHANGED faults
    BY Zenon DEF DeleteRule, SetRules
<1>3. new \in SUBSET RuleEntry
    BY <1>1 DEF Executor
<1>4. \A x : x \in new <=> x \in executors[p].rules /\ x.rule # r
    BY Zenon DEF Named
<1>. HIDE DEF new
<1>5. /\ executors' \in [Products -> Executor]
      /\ executors'[p].rules = new /\ executors'[p].there = executors[p].there
      /\ executors'[p].running = executors[p].running
      /\ \A q \in Products \ {p} : executors'[q] = executors[q]
    BY <1>1, <1>2, <1>3, TableSet, Zenon
<1>6. ~Has(p, r)' /\ \A s : s # r => (Has(p, s)' <=> Has(p, s))
    BY <1>4, <1>5, Zenon DEF Has
<1>. QED BY <1>2, <1>5, <1>6, Zenon DEF Effect

\* What updateRule does.
LEMMA ReplaceEffect ==
    ASSUME EngineTypeOK, TablesServed, NEW p \in Products, NEW r \in Rules,
           executors[p].there, ReplaceRule(p, r)
    PROVE  UNCHANGED faults /\ Effect(p, r, "update")
<1>. DEFINE new == {Entry(d, FALSE) : d \in GetRule(rules, p, r)}
            table == (executors[p].rules \ Named(p, r)) \cup new
<1>1. /\ executors \in [Products -> Executor] /\ executors[p] \in Executor
      /\ executors[p].rules # {} => executors[p].there
      /\ rules \subseteq Documents
    BY Zenon DEF EngineTypeOK, TablesServed
<1>2. /\ UNCHANGED faults
      /\ \/ new # {} /\ Named(p, r) # {} /\ executors' = [executors EXCEPT ![p].rules = table]
         \/ UNCHANGED executors
    BY Zenon DEF ReplaceRule, SetRules, NoChange
<1>3. \A x \in new : x \in RuleEntry /\ x.rule = r
    <2>1. \A d \in GetRule(rules, p, r) : Entry(d, FALSE) \in RuleEntry /\ Entry(d, FALSE).rule = r
        BY <1>1, EntryType
    <2>. QED BY <2>1, Zenon
<1>4. CASE UNCHANGED executors
    BY <1>1, <1>2, <1>4, Zenon DEF Effect, Has
<1>5. CASE new # {} /\ Named(p, r) # {} /\ executors' = [executors EXCEPT ![p].rules = table]
    <2>. HIDE DEF new
    <2>1. table \in SUBSET RuleEntry
        BY <1>1, <1>3 DEF Executor
    <2>2. \A x : x \in table <=> (x \in executors[p].rules /\ x.rule # r) \/ x \in new
        BY Zenon DEF Named
    <2>3. Has(p, r)
        BY <1>5, Zenon DEF Named, Has
    <2>. HIDE DEF table
    <2>4. /\ executors' \in [Products -> Executor]
          /\ executors'[p].rules = table /\ executors'[p].there = executors[p].there
          /\ executors'[p].running = executors[p].running
          /\ \A q \in Products \ {p} : executors'[q] = executors[q]
        BY <1>1, <1>5, <2>1, TableSet, Zenon
    <2>5. Has(p, r)'
        BY <1>3, <1>5, <2>2, <2>4, Zenon DEF Has
    <2>6. \A s : s # r => (Has(p, s)' <=> Has(p, s))
        <3>1. ASSUME NEW s, s # r
              PROVE  (\E x \in table : x.rule = s) <=> (\E x \in executors[p].rules : x.rule = s)
            <4>1. ASSUME NEW x \in table, x.rule = s PROVE x \in executors[p].rules
                BY <1>3, <2>2, <3>1, <4>1, Zenon
            <4>2. ASSUME NEW x \in executors[p].rules, x.rule = s PROVE x \in table
                BY <2>2, <3>1, <4>2, Zenon
            <4>. QED BY <4>1, <4>2, Zenon
        <3>. QED BY <2>4, <3>1, Zenon DEF Has
    <2>. QED BY <1>2, <2>3, <2>4, <2>5, <2>6, Zenon DEF Effect
<1>. QED BY <1>2, <1>4, <1>5, Zenon

\* What startRule and stopRule do.
LEMMA StatusEffect ==
    ASSUME EngineTypeOK, TablesServed, NEW p \in Products, NEW r \in Rules,
           executors[p].there, NEW s \in {"started", "stoped"}, SetStatus(p, r, s)
    PROVE  UNCHANGED faults /\ Effect(p, r, "start")
<1>. DEFINE set(x) == IF x.rule = r THEN [x EXCEPT !.status = s] ELSE x
            table == {set(x) : x \in executors[p].rules}
<1>1. /\ executors \in [Products -> Executor] /\ executors[p] \in Executor
      /\ executors[p].rules # {} => executors[p].there
    BY Zenon DEF EngineTypeOK, TablesServed
<1>2. executors' = [executors EXCEPT ![p].rules = table] /\ UNCHANGED faults
    BY Zenon DEF SetStatus
<1>3. executors[p].rules \subseteq RuleEntry
    BY <1>1 DEF Executor
<1>4. \A x \in RuleEntry : set(x) \in RuleEntry /\ set(x).rule = x.rule
    BY DEF RuleEntry
<1>. HIDE DEF set
<1>5. table \in SUBSET RuleEntry
    BY <1>3, <1>4, Zenon
<1>6. \A t : (\E x \in table : x.rule = t) <=> (\E x \in executors[p].rules : x.rule = t)
    BY <1>3, <1>4, Zenon
<1>. HIDE DEF table
<1>7. /\ executors' \in [Products -> Executor]
      /\ executors'[p].rules = table /\ executors'[p].there = executors[p].there
      /\ executors'[p].running = executors[p].running
      /\ \A q \in Products \ {p} : executors'[q] = executors[q]
    BY <1>1, <1>2, <1>5, TableSet, Zenon
<1>8. \A t : Has(p, t)' <=> Has(p, t)
    BY <1>6, <1>7, Zenon DEF Has
<1>. QED BY <1>2, <1>7, <1>8, Zenon DEF Effect

\* A change refused does nothing.
LEMMA NoEffect ==
    ASSUME EngineTypeOK, TablesServed, NEW p \in Products, NEW r, NEW action, NoChange,
           action # "create", action = "remove" => ~executors[p].there
    PROVE  UNCHANGED faults /\ Effect(p, r, action)
<1>1. /\ executors \in [Products -> Executor]
      /\ executors[p].rules # {} => executors[p].there
    BY Zenon DEF EngineTypeOK, TablesServed
<1>2. UNCHANGED faults /\ UNCHANGED executors
    BY Zenon DEF NoChange
<1>3. action = "remove" => ~Has(p, r)'
    BY <1>1, <1>2, Zenon DEF Has
<1>4. \A s : Has(p, s)' <=> Has(p, s)
    BY <1>2, Zenon DEF Has
<1>. QED BY <1>1, <1>2, <1>3, <1>4, Zenon DEF Effect

\* What dispatchRule does.
LEMMA DispatchEffect ==
    ASSUME EngineTypeOK, TablesServed, NEW p \in Products, NEW r \in Rules, NEW action,
           Dispatch(p, r, action)
    PROVE  faults' \in Nat /\ faults <= faults' /\ Effect(p, r, action)
<1>1. faults \in Nat /\ p # NoProduct
    BY EngineAssumption, Zenon DEF EngineTypeOK
<1>2. CASE action = "create" /\ CreateRule(p, r)
    BY <1>2, CreateEffect, Zenon
<1>3. CASE action = "remove" /\ executors[p].there /\ DeleteRule(p, r)
    <2>1. UNCHANGED faults /\ Effect(p, r, action)
        BY <1>3, DeleteEffect, Zenon
    <2>. QED BY <1>1, <2>1
<1>4. CASE action = "update" /\ executors[p].there /\ ReplaceRule(p, r)
    <2>1. UNCHANGED faults /\ Effect(p, r, action)
        BY <1>4, ReplaceEffect, Zenon
    <2>. QED BY <1>1, <2>1
<1>5. CASE action = "start" /\ executors[p].there /\ SetStatus(p, r, "started")
    <2>1. UNCHANGED faults /\ Effect(p, r, action)
        BY <1>5, StatusEffect, Zenon
    <2>. QED BY <1>1, <2>1
<1>6. CASE action = "stop" /\ executors[p].there /\ SetStatus(p, r, "stoped")
    <2>1. UNCHANGED faults /\ Effect(p, r, "start")
        BY <1>6, StatusEffect, Zenon
    <2>2. Effect(p, r, action)
        BY <1>6, <2>1 DEF Effect
    <2>. QED BY <1>1, <2>1, <2>2
<1>7. CASE NoChange /\ action # "create" /\ (action = "remove" => ~executors[p].there)
    <2>1. UNCHANGED faults /\ Effect(p, r, action)
        BY <1>7, NoEffect, Zenon
    <2>. QED BY <1>1, <2>1
<1>8. \/ action = "create" /\ CreateRule(p, r)
      \/ action = "remove" /\ executors[p].there /\ DeleteRule(p, r)
      \/ action = "update" /\ executors[p].there /\ ReplaceRule(p, r)
      \/ action = "start" /\ executors[p].there /\ SetStatus(p, r, "started")
      \/ action = "stop" /\ executors[p].there /\ SetStatus(p, r, "stoped")
      \/ NoChange /\ action # "create" /\ (action = "remove" => ~executors[p].there)
    BY <1>1 DEF Dispatch
<1>. QED BY <1>2, <1>3, <1>4, <1>5, <1>6, <1>7, <1>8, Zenon

-----------------------------------------------------------------------------
(* Types, and executors that run.                                             *)

\* Inductive.
ServedInv == EngineTypeOK /\ TablesServed

\* A new engine satisfies it.
LEMMA ServedInitInv == EngineInit => ServedInv
<1>. SUFFICES ASSUME EngineInit PROVE ServedInv
    OBVIOUS
<1>1. rules \subseteq Documents /\ posting \subseteq RuleMessage
    BY Zenon DEF EngineInit, Stored
<1>2. ruleBus \in [Partitions -> Seq(RuleMessage)]
    BY DEF EngineInit
<1>3. caller \in [Callers -> CallerState]
    BY Zenon DEF EngineInit, CallerState
<1>4. recover \subseteq Documents
    BY <1>1, Zenon DEF EngineInit, GetRulesWithStatus
<1>5. NoExecutor \in Executor /\ NoExecutor.rules = {} /\ ~NoExecutor.there
    BY DEF NoExecutor, Executor
<1>6. executors = [p \in Products |-> NoExecutor]
    BY Zenon DEF EngineInit
<1>7. executors \in [Products -> Executor] /\ TablesServed
    BY <1>5, <1>6, Zenon DEF TablesServed
<1>8. calls \in Nat /\ faults \in Nat
    BY DEF EngineInit
<1>. QED BY <1>1, <1>2, <1>3, <1>4, <1>7, <1>8, Zenon DEF ServedInv, EngineTypeOK

\* An assignment to a goroutine that sends.
LEMMA CallerSet ==
    ASSUME caller \in [Callers -> CallerState], NEW c \in Callers, NEW e \in CallerState,
           caller' = [caller EXCEPT ![c] = e]
    PROVE  /\ caller' \in [Callers -> CallerState] /\ caller'[c] = e
           /\ \A b \in Callers \ {c} : caller'[b] = caller[b]
BY Zenon

\* A goroutine that waits on ruleChan is sending a well-formed change.
LEMMA SenderType ==
    ASSUME EngineTypeOK, NEW c \in Callers, caller[c].at = "send"
    PROVE  /\ caller[c] \in Sending /\ caller[c].product \in Products \cup {NoProduct}
           /\ caller[c].rule \in Rules /\ caller[c].action \in Actions
<1>1. caller[c] \in {Idle, Ended} \/ caller[c] \in Sending
    BY Zenon DEF EngineTypeOK, CallerState
<1>2. caller[c] \notin {Idle, Ended}
    BY DEF Idle, Ended
<1>. QED BY <1>1, <1>2 DEF Sending

\* The documents of the registry after a request of the API server.
LEMMA ChangedRules ==
    ASSUME rules \subseteq Documents, NEW op, NEW d \in Documents, rules' \in Changed(op, d)
    PROVE  /\ rules' \subseteq Documents
           /\ \A p, r : (GetRule(rules, p, r) # {} /\ (op = "remove" => d.product # p \/ d.rule # r))
                          => GetRule(rules', p, r) # {}
<1>1. \/ op = "create" /\ rules' \in RegisterRule(rules, d)
      \/ op = "remove" /\ rules' \in RemoveRule(rules, d.product, d.rule)
      \/ op = "update" /\ rules' \in UpdateRule(rules, d)
      \/ op # "remove" /\ rules' = rules
    BY DEF Changed
<1>2. CASE rules' = rules /\ op # "remove"
    BY <1>2, Zenon
<1>3. CASE rules' \in RegisterRule(rules, d)
    <2>1. rules' = rules \cup {d}
        BY <1>3 DEF RegisterRule, Insertions
    <2>. QED BY <2>1, Zenon DEF GetRule
<1>4. CASE op = "remove" /\ rules' \in RemoveRule(rules, d.product, d.rule)
    <2>1. PICK x \in rules : x.product = d.product /\ x.rule = d.rule /\ rules' = rules \ {x}
        BY <1>4, Zenon DEF RemoveRule, Removals
    <2>2. ASSUME NEW p, NEW r, GetRule(rules, p, r) # {}, d.product # p \/ d.rule # r
          PROVE  GetRule(rules', p, r) # {}
        <3>1. PICK y \in rules : y.product = p /\ y.rule = r
            BY <2>2, Zenon DEF GetRule
        <3>2. y \in rules'
            BY <2>1, <2>2, <3>1, Zenon
        <3>. QED BY <3>1, <3>2, Zenon DEF GetRule
    <2>. QED BY <1>4, <2>1, <2>2, Zenon
<1>5. CASE rules' \in UpdateRule(rules, d)
    <2>1. PICK x \in rules : RuleKey(x) = RuleKey(d) /\ rules' = (rules \ {x}) \cup {d}
        BY <1>5, Zenon DEF UpdateRule, Replacements
    <2>2. x.product = d.product /\ x.rule = d.rule
        BY <2>1 DEF RuleKey
    <2>3. ASSUME NEW p, NEW r, GetRule(rules, p, r) # {}
          PROVE  GetRule(rules', p, r) # {}
        <3>1. PICK y \in rules : y.product = p /\ y.rule = r
            BY <2>3, Zenon DEF GetRule
        <3>2. y \in rules' \/ (d \in rules' /\ d.product = p /\ d.rule = r)
            BY <2>1, <2>2, <3>1, Zenon
        <3>. QED BY <3>1, <3>2, Zenon DEF GetRule
    <2>. QED BY <2>1, <2>3, Zenon
<1>. QED BY <1>1, <1>2, <1>3, <1>4, <1>5, Zenon

\* The message of a request.
LEMMA ApiMessage ==
    ASSUME EngineTypeOK, NEW op \in ApiOps, NEW d \in Documents, ApiRequest(op, d)
    PROVE  \E m \in RuleMessage :
               /\ m.product = d.product /\ m.rule = d.rule /\ m.action = op
               /\ posting' = posting \cup {m}
<1>. DEFINE m == [no |-> calls, product |-> d.product, rule |-> d.rule, action |-> op]
<1>1. calls \in Nat
    BY DEF EngineTypeOK
<1>2. m \in RuleMessage /\ m.product = d.product /\ m.rule = d.rule /\ m.action = op
    BY <1>1 DEF RuleMessage, Documents
<1>3. posting' = posting \cup {m}
    BY DEF ApiRequest
<1>. QED BY <1>2, <1>3, Zenon

\* Where the message of a request goes.
LEMMA MessagePosted ==
    ASSUME EngineTypeOK, NEW m \in posting, ApiPosts(m)
    PROVE  /\ posting' = posting \ {m} /\ faults' \in Nat /\ (faults' = 0 => faults = 0)
           /\ UNCHANGED <<rules, status, caller, recover, executors, calls>>
           /\ \/ faults' # 0 /\ UNCHANGED ruleBus
              \/ \E k \in Partitions : ruleBus' = [ruleBus EXCEPT ![k] = Append(ruleBus[k], m)]
<1>1. faults \in Nat
    BY DEF EngineTypeOK
<1>2. /\ posting' = posting \ {m}
      /\ UNCHANGED <<rules, status, caller, recover, executors, calls>>
      /\ \/ (\E k \in Partitions : ruleBus' = [ruleBus EXCEPT ![k] = Append(ruleBus[k], m)])
            /\ UNCHANGED faults
         \/ faults' = faults + 1 /\ UNCHANGED ruleBus
    BY Zenon DEF ApiPosts, Fails
<1>3. faults + 1 \in Nat /\ faults + 1 # 0
    BY <1>1
<1>. QED BY <1>1, <1>2, <1>3, Zenon

\* Requests of the API server keep it.
LEMMA ApiTypes ==
    ASSUME ServedInv,
           \/ \E p \in Products : ApiProduct(p)
           \/ \E op \in ApiOps, d \in Documents : ApiRequest(op, d)
           \/ \E m \in posting : ApiPosts(m)
    PROVE  ServedInv'
<1>1. /\ EngineTypeOK /\ rules \subseteq Documents /\ posting \subseteq RuleMessage
      /\ ruleBus \in [Partitions -> Seq(RuleMessage)]
    BY Zenon DEF ServedInv, EngineTypeOK
<1>2. ASSUME NEW p \in Products, ApiProduct(p) PROVE ServedInv'
    <2>1. calls' \in Nat
        BY <1>1, <1>2 DEF EngineTypeOK, ApiProduct
    <2>2. UNCHANGED <<rules, posting, ruleBus, status, caller, recover, executors, faults>>
        BY <1>2, Zenon DEF ApiProduct
    <2>. QED BY <2>1, <2>2, Zenon DEF ServedInv, EngineTypeOK, TablesServed
<1>3. ASSUME NEW op \in ApiOps, NEW d \in Documents, ApiRequest(op, d) PROVE ServedInv'
    <2>1. calls' \in Nat
        BY <1>1, <1>3 DEF EngineTypeOK, ApiRequest
    <2>2. rules' \in Changed(op, d) /\ UNCHANGED <<ruleBus, status, caller, recover, executors, faults>>
        BY <1>3, Zenon DEF ApiRequest
    <2>3. rules' \subseteq Documents
        BY <1>1, <2>2, ChangedRules, Zenon
    <2>4. PICK m \in RuleMessage : posting' = posting \cup {m}
        BY <1>1, <1>3, ApiMessage, Zenon
    <2>5. posting' \subseteq RuleMessage
        BY <1>1, <2>4, Zenon
    <2>. QED BY <2>1, <2>2, <2>3, <2>5, Zenon DEF ServedInv, EngineTypeOK, TablesServed
<1>4. ASSUME NEW m \in posting, ApiPosts(m) PROVE ServedInv'
    <2>1. /\ posting' \subseteq RuleMessage /\ faults' \in Nat
          /\ UNCHANGED <<rules, status, caller, recover, executors, calls>>
          /\ \/ UNCHANGED ruleBus
             \/ \E k \in Partitions : ruleBus' = [ruleBus EXCEPT ![k] = Append(ruleBus[k], m)]
        BY <1>1, <1>4, MessagePosted, Zenon
    <2>2. \A k \in Partitions : Append(ruleBus[k], m) \in Seq(RuleMessage)
        BY <1>1
    <2>3. ruleBus' \in [Partitions -> Seq(RuleMessage)]
        BY <1>1, <2>1, <2>2, Zenon
    <2>. QED BY <2>1, <2>3, Zenon DEF ServedInv, EngineTypeOK, TablesServed
<1>. QED BY <1>2, <1>3, <1>4, Zenon

\* Goroutines that send on ruleChan keep it.
LEMMA SenderTypes ==
    ASSUME ServedInv,
           \/ \E k \in Partitions : Consume(k) \/ ConsumerEnds(k)
           \/ \E op \in RestOps, p \in Products, r \in Rules, h \in RestHandlers :
                  RestRequest(h, op, p, r)
           \/ RecoveryCreate
           \/ \E c \in Callers : SendOnClosed(c)
    PROVE  ServedInv'
<1>1. /\ ruleBus \in [Partitions -> Seq(RuleMessage)] /\ recover \subseteq Documents
      /\ caller \in [Callers -> CallerState]
    BY Zenon DEF ServedInv, EngineTypeOK
<1>2. /\ UNCHANGED <<rules, posting, executors, faults>>
      /\ status' = status \/ status' = "down"
    BY Zenon DEF Consume, ConsumerEnds, RestRequest, RecoveryCreate, SendOnClosed, apiVars
<1>0. calls' \in Nat
    <2>1. calls \in Nat /\ calls' \in {calls, calls + 1}
        BY Zenon DEF ServedInv, EngineTypeOK, Consume, ConsumerEnds, RestRequest, RecoveryCreate,
                     SendOnClosed
    <2>. QED BY <2>1
<1>3. TablesServed'
    BY <1>2, Zenon DEF ServedInv, TablesServed
<1>4. SUFFICES /\ ruleBus' \in [Partitions -> Seq(RuleMessage)] /\ recover' \subseteq Documents
               /\ caller' \in [Callers -> CallerState]
    BY <1>0, <1>2, <1>3, Zenon DEF ServedInv, EngineTypeOK
<1>5. ASSUME NEW k \in Partitions, Consume(k)
      PROVE  /\ ruleBus' \in [Partitions -> Seq(RuleMessage)] /\ UNCHANGED recover
             /\ caller' \in [Callers -> CallerState]
    <2>1. ruleBus[k] \in Seq(RuleMessage) /\ ruleBus[k] # <<>> /\ k \in Callers
        BY <1>1, <1>5, Zenon DEF Consume, Callers
    <2>2. Tail(ruleBus[k]) \in Seq(RuleMessage) /\ Head(ruleBus[k]) \in RuleMessage
        BY <2>1
    <2>3. ASSUME NEW m \in RuleMessage PROVE Sends(m.product, m.rule, m.action) \in CallerState
        BY DEF Sends, Sending, RuleMessage, Actions, CallerState
    <2>4. /\ ruleBus' = [ruleBus EXCEPT ![k] = Tail(ruleBus[k])] /\ UNCHANGED recover
          /\ caller' = [caller EXCEPT ![k] = Sends(Head(ruleBus[k]).product, Head(ruleBus[k]).rule,
                                                   Head(ruleBus[k]).action)]
        BY <1>5, Zenon DEF Consume
    <2>. QED BY <1>1, <2>1, <2>2, <2>3, <2>4, Zenon
<1>6. ASSUME NEW op \in RestOps, NEW p \in Products, NEW r \in Rules, NEW h \in RestHandlers,
             RestRequest(h, op, p, r)
      PROVE  UNCHANGED <<ruleBus, recover>> /\ caller' \in [Callers -> CallerState]
    <2>. DEFINE q == IF op \in {"start", "stop"} THEN NoProduct ELSE p
    <2>1. Sends(q, r, op) \in CallerState
        BY DEF Sends, Sending, Actions, CallerState
    <2>2. caller' = [caller EXCEPT ![h] = Sends(q, r, op)] /\ UNCHANGED <<ruleBus, recover>>
        BY <1>6, Zenon DEF RestRequest
    <2>3. h \in Callers
        BY Zenon DEF Callers
    <2>. QED BY <1>1, <2>1, <2>2, <2>3, Zenon
<1>7. ASSUME RecoveryCreate
      PROVE  /\ UNCHANGED ruleBus /\ recover' \subseteq Documents
             /\ caller' \in [Callers -> CallerState]
    <2>1. PICK d \in recover :
              /\ recover' = recover \ {d}
              /\ caller' = [caller EXCEPT !["recovery"] = Sends(d.product, d.rule, "register")]
        BY <1>7, Zenon DEF RecoveryCreate
    <2>2. d \in Documents
        BY <1>1, Zenon
    <2>3. Sends(d.product, d.rule, "register") \in CallerState
        BY <2>2 DEF Sends, Sending, Actions, Documents, CallerState
    <2>4. "recovery" \in Callers
        BY Zenon DEF Callers
    <2>5. UNCHANGED ruleBus
        BY <1>7, Zenon DEF RecoveryCreate
    <2>. QED BY <1>1, <2>1, <2>3, <2>4, <2>5, Zenon
<1>8. ASSUME NEW c \in Callers, SendOnClosed(c)
      PROVE  UNCHANGED <<ruleBus, recover>> /\ caller' \in [Callers -> CallerState]
    BY <1>1, <1>8, Zenon DEF SendOnClosed, CallerState
<1>9. ASSUME NEW k \in Partitions, ConsumerEnds(k)
      PROVE  UNCHANGED <<ruleBus, recover>> /\ caller' \in [Callers -> CallerState]
    BY <1>1, <1>9, Zenon DEF ConsumerEnds, CallerState
<1>. QED BY <1>1, <1>5, <1>6, <1>7, <1>8, <1>9, Zenon

\* The engine answers the goroutine whose change it has handled.
LEMMA HandleCaller ==
    ASSUME EngineTypeOK, NEW c \in Callers, HandleRule(c)
    PROVE  /\ caller' \in [Callers -> CallerState]
           /\ \A b \in Callers \ {c} : caller'[b] = caller[b]
           /\ c # "recovery" => caller'[c] = Idle
<1>1. caller[c].at = "send" /\ caller' = Answered(c) /\ caller \in [Callers -> CallerState]
    BY Zenon DEF HandleRule, EngineTypeOK
<1>2. caller[c] \in Sending
    BY <1>1, SenderType, Zenon
<1>3. CASE c = "recovery" /\ caller[c].action = "register"
    <2>. DEFINE e == [caller[c] EXCEPT !.action = "start"]
    <2>1. e \in CallerState
        BY <1>2 DEF Sending, Actions, CallerState
    <2>2. caller' = [caller EXCEPT ![c] = e]
        BY <1>1, <1>3, Zenon DEF Answered
    <2>. HIDE DEF e
    <2>. QED BY <1>1, <1>3, <2>1, <2>2, CallerSet, Zenon
<1>4. CASE ~(c = "recovery" /\ caller[c].action = "register")
    <2>1. caller' = [caller EXCEPT ![c] = Idle]
        BY <1>1, <1>4, Zenon DEF Answered
    <2>2. Idle \in CallerState
        BY Zenon DEF CallerState
    <2>. QED BY <1>1, <2>1, <2>2, CallerSet, Zenon
<1>. QED BY <1>3, <1>4, Zenon

\* The loop of the engine keeps it.
LEMMA HandleTypes ==
    ASSUME ServedInv, NEW c \in Callers, HandleRule(c)
    PROVE  ServedInv'
<1>1. EngineTypeOK /\ TablesServed
    BY Zenon DEF ServedInv
<1>2. /\ caller[c].at = "send" /\ status \in {"up", "stopping"}
      /\ UNCHANGED <<rules, posting, ruleBus, status, recover, calls>>
      /\ Dispatch(caller[c].product, caller[c].rule, caller[c].action)
    BY Zenon DEF HandleRule, apiVars
<1>3. PICK p \in Products \cup {NoProduct}, r \in Rules, action \in Actions :
          p = caller[c].product /\ r = caller[c].rule /\ action = caller[c].action
    BY <1>1, <1>2, SenderType, Zenon
<1>4. caller' \in [Callers -> CallerState]
    BY <1>1, HandleCaller, Zenon
<1>5. SUFFICES executors' \in [Products -> Executor] /\ faults' \in Nat /\ TablesServed'
    BY <1>1, <1>2, <1>4, Zenon DEF ServedInv, EngineTypeOK
<1>6. Dispatch(p, r, action)
    BY <1>2, <1>3, Zenon
<1>7. CASE p = NoProduct
    <2>1. UNCHANGED <<executors, faults>>
        BY <1>6, <1>7, Zenon DEF Dispatch, NoChange
    <2>. QED BY <1>1, <1>2, <2>1, Zenon DEF EngineTypeOK, TablesServed
<1>8. CASE p \in Products
    <2>1. faults' \in Nat /\ Effect(p, r, action)
        BY <1>1, <1>6, <1>8, DispatchEffect, Zenon
    <2>2. /\ executors' \in [Products -> Executor]
          /\ \A q \in Products \ {p} : executors'[q] = executors[q]
          /\ executors'[p].rules # {} => executors'[p].there
          /\ (executors'[p].there /\ ~executors'[p].running)
                => (executors[p].there /\ ~executors[p].running)
        BY <2>1, Zenon DEF Effect
    <2>3. TablesServed'
        BY <1>1, <1>2, <1>8, <2>2, Zenon DEF TablesServed
    <2>. QED BY <2>1, <2>2, <2>3, Zenon
<1>. QED BY <1>3, <1>7, <1>8, Zenon

\* Clean-up, executors, stop and restart keep it.
LEMMA OtherTypes ==
    ASSUME ServedInv,
           \/ CleanExecutors
           \/ \E p \in Products : TakeEvent(p) \/ \E r \in Rules : ExecuteRule(p, r)
           \/ StopService \/ QuitLoop \/ StopExecutors \/ Restart
    PROVE  ServedInv'
<1>1. EngineTypeOK /\ TablesServed /\ executors \in [Products -> Executor]
    BY Zenon DEF ServedInv, EngineTypeOK
<1>2. NoExecutor \in Executor /\ NoExecutor.rules = {} /\ ~NoExecutor.there
    BY DEF NoExecutor, Executor
<1>3. ASSUME CleanExecutors PROVE ServedInv'
    <2>. DEFINE empty == {p \in Products : executors[p].there /\ executors[p].rules = {}}
    <2>1. /\ executors' = [p \in Products |-> IF p \in empty THEN NoExecutor ELSE executors[p]]
          /\ UNCHANGED <<rules, posting, ruleBus, caller, recover, calls, faults>>
          /\ status' = status \/ status' = "down"
        BY <1>3, Zenon DEF CleanExecutors, apiVars
    <2>. HIDE DEF empty
    <2>2. executors' \in [Products -> Executor] /\ TablesServed'
        BY <1>1, <1>2, <2>1, Zenon DEF TablesServed
    <2>. QED BY <1>1, <2>1, <2>2, Zenon DEF ServedInv, EngineTypeOK
<1>4. ASSUME NEW p \in Products, TakeEvent(p) PROVE ServedInv'
    BY <1>1, <1>4, Zenon DEF TakeEvent, apiVars, ServedInv, EngineTypeOK, TablesServed
<1>5. ASSUME NEW p \in Products, NEW r \in Rules, ExecuteRule(p, r) PROVE ServedInv'
    <2>1. /\ UNCHANGED <<rules, posting, ruleBus, caller, recover, executors, calls, faults>>
          /\ status' = status \/ status' = "down"
        BY <1>5, Zenon DEF ExecuteRule, apiVars
    <2>. QED BY <1>1, <2>1, Zenon DEF ServedInv, EngineTypeOK, TablesServed
<1>6. ASSUME StopService \/ QuitLoop PROVE ServedInv'
    <2>1. /\ UNCHANGED <<rules, posting, ruleBus, caller, recover, executors, calls, faults>>
          /\ status \in {"up", "stopping"}
        BY <1>6, Zenon DEF StopService, QuitLoop, apiVars
    <2>2. status \notin {"stopped", "down"}
        BY <2>1
    <2>. QED BY <1>1, <2>1, <2>2, Zenon DEF ServedInv, EngineTypeOK, TablesServed
<1>7. ASSUME StopExecutors PROVE ServedInv'
    <2>1. /\ executors' = [p \in Products |-> [executors[p] EXCEPT !.running = FALSE]]
          /\ status' \in {"stopped", "down"}
          /\ UNCHANGED <<rules, posting, ruleBus, caller, recover, calls, faults>>
        BY <1>7, Zenon DEF StopExecutors, apiVars
    <2>2. \A e \in Executor : /\ [e EXCEPT !.running = FALSE] \in Executor
                              /\ [e EXCEPT !.running = FALSE].rules = e.rules
                              /\ [e EXCEPT !.running = FALSE].there = e.there
        BY DEF Executor
    <2>3. /\ executors' \in [Products -> Executor]
          /\ \A p \in Products : executors'[p].rules = executors[p].rules
                                 /\ executors'[p].there = executors[p].there
        BY <1>1, <2>1, <2>2, Zenon
    <2>4. TablesServed'
        BY <1>1, <2>1, <2>3, Zenon DEF TablesServed
    <2>. QED BY <1>1, <2>1, <2>3, <2>4, Zenon DEF ServedInv, EngineTypeOK
<1>8. ASSUME Restart PROVE ServedInv'
    <2>1. /\ executors' = [p \in Products |-> NoExecutor]
          /\ caller' = [c \in Callers |-> Idle]
          /\ recover' = GetRulesWithStatus(rules, "started")
          /\ ruleBus' = [k \in Partitions |-> <<>>]
          /\ UNCHANGED <<rules, posting, calls, faults>>
        BY <1>8, Zenon DEF Restart, apiVars
    <2>2. executors' \in [Products -> Executor] /\ TablesServed'
        BY <1>2, <2>1, Zenon DEF TablesServed
    <2>3. recover' \subseteq Documents /\ caller' \in [Callers -> CallerState]
        BY <1>1, <2>1, Zenon DEF EngineTypeOK, GetRulesWithStatus, CallerState
    <2>4. ruleBus' \in [Partitions -> Seq(RuleMessage)]
        BY <2>1
    <2>. QED BY <1>1, <2>1, <2>2, <2>3, <2>4, Zenon DEF ServedInv, EngineTypeOK
<1>. QED BY <1>3, <1>4, <1>5, <1>6, <1>7, <1>8, Zenon

\* Every step keeps it.
LEMMA ServedStep == ServedInv /\ [EngineNext]_engineVars => ServedInv'
<1>. SUFFICES ASSUME ServedInv, [EngineNext]_engineVars PROVE ServedInv'
    OBVIOUS
<1>1. CASE UNCHANGED engineVars
    BY <1>1, Zenon DEF engineVars, apiVars, ServedInv, EngineTypeOK, TablesServed
<1>2. CASE EngineNext
    BY <1>2, ApiTypes, SenderTypes, HandleTypes, OtherTypes, Zenon DEF EngineNext, RuleRequests
<1>. QED BY <1>1, <1>2

\* It is strong enough.
LEMMA ServedMeans == ServedInv => RulesAreServed
<1>. SUFFICES ASSUME TablesServed, status = "up"
              PROVE  \A p \in Products : executors[p].rules # {} => executors[p].running
    BY Zenon DEF ServedInv, RulesAreServed
<1>1. status \notin {"stopped", "down"}
    OBVIOUS
<1>. QED BY <1>1, Zenon DEF TablesServed

\* For any rules, products, requests, failures and restarts: while whaler is up,
\* an executor with rules has the goroutine that runs them, however
\* cleanExecutors falls between the messages that create and remove rules.
THEOREM ExecutorsServe == EngineSpec => []RulesAreServed
BY ServedInitInv, ServedStep, ServedMeans, PTL DEF EngineSpec

-----------------------------------------------------------------------------
(* The rules an executor has are in the registry, or about to be removed.  *)

\* m is the message that removes rule r of p.
Removal(m, p, r) == m.action = "remove" /\ m.product = p /\ m.rule = r

\* Such a message is on its way: not yet posted, in a partition, or with a goroutine of
\* the consumer.
UnderWay(p, r) ==
    \/ \E m \in posting : Removal(m, p, r)
    \/ \E k \in Partitions : \E i \in 1 .. Len(ruleBus[k]) : Removal(ruleBus[k][i], p, r)
    \/ \E k \in Partitions : caller[k].at = "send" /\ Removal(caller[k], p, r)

\* What justifies rule r in the table of p.
Justified(p, r) == GetRule(rules, p, r) # {} \/ UnderWay(p, r)

\* The invariant.
NoStrays ==
    (faults = 0 /\ status \in {"up", "stopping"}) =>
        \A p \in Products, r \in Rules : Has(p, r) => Justified(p, r)

\* Tables that do not grow and justifications that stay.
LEMMA StraysKept ==
    ASSUME NoStrays, faults' = 0 => faults = 0,
           status' \in {"up", "stopping"} => status \in {"up", "stopping"},
           \A p \in Products, r \in Rules : Has(p, r)' => Has(p, r),
           \A p \in Products, r \in Rules : (faults' = 0 /\ Has(p, r)' /\ Justified(p, r))
                                            => Justified(p, r)'
    PROVE  NoStrays'
BY Zenon DEF NoStrays

\* Requests of the API server keep it: what leaves the registry is announced.
LEMMA ApiStrays ==
    ASSUME EngineTypeOK, NoStrays,
           \/ \E p \in Products : ApiProduct(p)
           \/ \E op \in ApiOps, d \in Documents : ApiRequest(op, d)
    PROVE  NoStrays'
<1>1. UNCHANGED <<ruleBus, status, caller, executors, faults>> /\ rules \subseteq Documents
    BY Zenon DEF ApiProduct, ApiRequest, EngineTypeOK
<1>2. \A p, r : Has(p, r)' => Has(p, r)
    BY <1>1, Zenon DEF Has
<1>3. \A p, r : posting \subseteq posting' => (UnderWay(p, r) => UnderWay(p, r)')
    BY <1>1, Zenon DEF UnderWay
<1>4. ASSUME NEW q \in Products, ApiProduct(q) PROVE \A p, r : Justified(p, r) => Justified(p, r)'
    BY <1>3, <1>4, Zenon DEF ApiProduct, Justified
<1>5. ASSUME NEW op \in ApiOps, NEW d \in Documents, ApiRequest(op, d)
      PROVE  \A p, r : Justified(p, r) => Justified(p, r)'
    <2>1. PICK m \in RuleMessage :
              /\ m.product = d.product /\ m.rule = d.rule /\ m.action = op
              /\ posting' = posting \cup {m}
        BY <1>5, ApiMessage, Zenon
    <2>2. rules' \in Changed(op, d)
        BY <1>5, Zenon DEF ApiRequest
    <2>3. ASSUME NEW p, NEW r, GetRule(rules, p, r) # {},
                 ~(op = "remove" => d.product # p \/ d.rule # r)
          PROVE  UnderWay(p, r)'
        BY <2>1, <2>3, Zenon DEF UnderWay, Removal
    <2>4. ASSUME NEW p, NEW r, GetRule(rules, p, r) # {},
                 op = "remove" => d.product # p \/ d.rule # r
          PROVE  GetRule(rules', p, r) # {}
        BY <1>1, <2>2, <2>4, ChangedRules, Zenon
    <2>5. posting \subseteq posting'
        BY <2>1, Zenon
    <2>. QED BY <1>3, <2>3, <2>4, <2>5, Zenon DEF Justified
<1>6. \A p, r : Justified(p, r) => Justified(p, r)'
    BY <1>4, <1>5, Zenon
<1>. QED BY <1>1, <1>2, <1>6, StraysKept, Zenon

\* Posting a message keeps it: the message is in a partition, or Kafka has failed.
LEMMA PostStrays ==
    ASSUME EngineTypeOK, NoStrays, NEW m \in posting, ApiPosts(m)
    PROVE  NoStrays'
<1>1. /\ posting' = posting \ {m} /\ (faults' = 0 => faults = 0)
      /\ UNCHANGED <<rules, status, caller, executors>>
      /\ \/ faults' # 0 /\ UNCHANGED ruleBus
         \/ \E k \in Partitions : ruleBus' = [ruleBus EXCEPT ![k] = Append(ruleBus[k], m)]
    BY MessagePosted, Zenon
<1>2. ruleBus \in [Partitions -> Seq(RuleMessage)] /\ m \in RuleMessage
    BY Zenon DEF EngineTypeOK
<1>3. \A p, r : Has(p, r)' => Has(p, r)
    BY <1>1, Zenon DEF Has
<1>4. ASSUME NEW p, NEW r, NEW k \in Partitions,
             ruleBus' = [ruleBus EXCEPT ![k] = Append(ruleBus[k], m)], UnderWay(p, r)
      PROVE  UnderWay(p, r)'
    <2>. DEFINE n == Len(ruleBus[k]) + 1
    <2>1. /\ n \in 1 .. Len(ruleBus'[k]) /\ ruleBus'[k][n] = m
          /\ \A i \in 1 .. Len(ruleBus[k]) :
                 i \in 1 .. Len(ruleBus'[k]) /\ ruleBus'[k][i] = ruleBus[k][i]
          /\ \A j \in Partitions \ {k} : ruleBus'[j] = ruleBus[j]
        BY <1>2, <1>4
    <2>. HIDE DEF n
    <2>2. ASSUME NEW x \in posting, Removal(x, p, r) PROVE UnderWay(p, r)'
        <3>1. CASE x = m
            BY <2>1, <2>2, <3>1, Zenon DEF UnderWay
        <3>2. CASE x # m
            BY <1>1, <2>2, <3>2, Zenon DEF UnderWay
        <3>. QED BY <3>1, <3>2
    <2>3. ASSUME NEW j \in Partitions, NEW i \in 1 .. Len(ruleBus[j]), Removal(ruleBus[j][i], p, r)
          PROVE  UnderWay(p, r)'
        <3>1. i \in 1 .. Len(ruleBus'[j]) /\ ruleBus'[j][i] = ruleBus[j][i]
            BY <2>1, <2>3, Zenon
        <3>. QED BY <2>3, <3>1, Zenon DEF UnderWay
    <2>4. ASSUME NEW j \in Partitions, caller[j].at = "send", Removal(caller[j], p, r)
          PROVE  UnderWay(p, r)'
        BY <1>1, <2>4, Zenon DEF UnderWay
    <2>. QED BY <1>4, <2>2, <2>3, <2>4, Zenon DEF UnderWay
<1>5. \A p, r : (faults' = 0 /\ Justified(p, r)) => Justified(p, r)'
    BY <1>1, <1>4, Zenon DEF Justified
<1>. QED BY <1>1, <1>3, <1>5, StraysKept, Zenon

\* The consumer keeps it: the message is in the hands of its goroutine.
LEMMA ConsumeStrays ==
    ASSUME EngineTypeOK, NoStrays, NEW k \in Partitions, Consume(k)
    PROVE  NoStrays'
<1>1. /\ caller[k] = Idle /\ ruleBus[k] # <<>>
      /\ UNCHANGED <<rules, posting, status, executors, faults>>
      /\ caller' = [caller EXCEPT ![k] = Sends(Head(ruleBus[k]).product, Head(ruleBus[k]).rule,
                                               Head(ruleBus[k]).action)]
      /\ ruleBus' = [ruleBus EXCEPT ![k] = Tail(ruleBus[k])]
    BY Zenon DEF Consume, apiVars
<1>2. /\ ruleBus \in [Partitions -> Seq(RuleMessage)] /\ caller \in [Callers -> CallerState]
      /\ Partitions \subseteq Callers
    BY Zenon DEF EngineTypeOK, Callers
<1>3. \A p, r : Has(p, r)' => Has(p, r)
    BY <1>1, Zenon DEF Has
<1>4. ASSUME NEW p, NEW r, UnderWay(p, r) PROVE UnderWay(p, r)'
    <2>1. ASSUME NEW j \in Partitions, NEW i \in 1 .. Len(ruleBus[j]), Removal(ruleBus[j][i], p, r)
          PROVE  UnderWay(p, r)'
        <3>1. CASE j # k
            <4>1. ruleBus'[j] = ruleBus[j]
                BY <1>1, <1>2, <3>1, Zenon
            <4>. QED BY <2>1, <4>1, Zenon DEF UnderWay
        <3>2. CASE j = k /\ i = 1
            <4>1. Head(ruleBus[k]) = ruleBus[j][i]
                BY <1>1, <1>2, <3>2
            <4>2. caller'[k] = Sends(Head(ruleBus[k]).product, Head(ruleBus[k]).rule,
                                     Head(ruleBus[k]).action)
                BY <1>1, <1>2, Zenon
            <4>3. caller'[k].at = "send" /\ Removal(caller'[k], p, r)
                BY <2>1, <4>1, <4>2 DEF Sends, Removal
            <4>. QED BY <4>3, Zenon DEF UnderWay
        <3>3. CASE j = k /\ i # 1
            <4>1. ruleBus'[k] = Tail(ruleBus[k])
                BY <1>1, <1>2, Zenon
            <4>2. i - 1 \in 1 .. Len(ruleBus'[k]) /\ ruleBus'[k][i - 1] = ruleBus[k][i]
                BY <1>1, <1>2, <3>3, <4>1
            <4>. QED BY <2>1, <3>3, <4>2, Zenon DEF UnderWay
        <3>. QED BY <3>1, <3>2, <3>3
    <2>2. ASSUME NEW j \in Partitions, caller[j].at = "send", Removal(caller[j], p, r)
          PROVE  UnderWay(p, r)'
        <3>1. j # k
            BY <1>1, <2>2 DEF Idle
        <3>2. caller'[j] = caller[j]
            BY <1>1, <1>2, <3>1, Zenon
        <3>. QED BY <2>2, <3>2, Zenon DEF UnderWay
    <2>3. ASSUME NEW m \in posting, Removal(m, p, r) PROVE UnderWay(p, r)'
        BY <1>1, <2>3, Zenon DEF UnderWay
    <2>. QED BY <1>4, <2>1, <2>2, <2>3, Zenon DEF UnderWay
<1>5. \A p, r : Justified(p, r) => Justified(p, r)'
    BY <1>1, <1>4, Zenon DEF Justified
<1>. QED BY <1>1, <1>3, <1>5, StraysKept, Zenon

\* A caller that is no partition does not matter.
LEMMA OtherCallers ==
    ASSUME NEW c, c \notin Partitions, UNCHANGED <<posting, ruleBus>>,
           \A b \in Callers \ {c} : caller'[b] = caller[b]
    PROVE  \A p, r : UnderWay(p, r) => UnderWay(p, r)'
<1>1. \A k \in Partitions : caller'[k] = caller[k]
    BY Zenon DEF Callers
<1>. QED BY <1>1, Zenon DEF UnderWay

\* The loop of the engine keeps it: a removal that has been handled has emptied the
\* table, and a creation reads the registry.
LEMMA HandleStrays ==
    ASSUME ServedInv, NoStrays, NEW c \in Callers, HandleRule(c)
    PROVE  NoStrays'
<1>1. EngineTypeOK /\ TablesServed
    BY Zenon DEF ServedInv
<1>2. /\ caller[c].at = "send" /\ status \in {"up", "stopping"}
      /\ UNCHANGED <<rules, posting, ruleBus, status>>
      /\ Dispatch(caller[c].product, caller[c].rule, caller[c].action)
    BY Zenon DEF HandleRule, apiVars
<1>3. PICK p \in Products \cup {NoProduct}, r \in Rules, action \in Actions :
          p = caller[c].product /\ r = caller[c].rule /\ action = caller[c].action
    BY <1>1, <1>2, SenderType, Zenon
<1>4. \A b \in Callers \ {c} : caller'[b] = caller[b]
    BY <1>1, HandleCaller, Zenon
<1>5. Dispatch(p, r, action)
    BY <1>2, <1>3, Zenon
<1>6. \A q, s : UnderWay(q, s) => UnderWay(q, s)' \/ (action = "remove" /\ q = p /\ s = r)
    <2>1. ASSUME NEW q, NEW s, NEW k \in Partitions, caller[k].at = "send", Removal(caller[k], q, s),
                 ~(action = "remove" /\ q = p /\ s = r)
          PROVE  UnderWay(q, s)'
        <3>1. k # c
            BY <1>3, <2>1, Zenon DEF Removal
        <3>2. caller'[k] = caller[k]
            BY <1>4, <3>1, Zenon DEF Callers
        <3>. QED BY <2>1, <3>2, Zenon DEF UnderWay
    <2>. QED BY <1>2, <2>1, Zenon DEF UnderWay
<1>7. \A q, s : GetRule(rules, q, s) # {} => GetRule(rules', q, s) # {}
    BY <1>2, Zenon
<1>8. CASE p = NoProduct
    <2>1. UNCHANGED <<executors, faults>>
        BY <1>5, <1>8, Zenon DEF Dispatch, NoChange
    <2>2. \A q, s : Has(q, s)' => Has(q, s)
        BY <2>1, Zenon DEF Has
    <2>3. \A q \in Products : \A s : Justified(q, s) => Justified(q, s)'
        BY <1>6, <1>7, <1>8, EngineAssumption, Zenon DEF Justified
    <2>. QED BY <1>2, <2>1, <2>2, <2>3, StraysKept, Zenon
<1>9. CASE p \in Products
    <2>1. /\ faults \in Nat /\ faults' \in Nat /\ faults <= faults'
          /\ Effect(p, r, action)
        BY <1>1, <1>5, <1>9, DispatchEffect, Zenon DEF EngineTypeOK
    <2>2. faults' = 0 => faults = 0
        BY <2>1
    <2>3. ASSUME NEW q \in Products, NEW s \in Rules, Has(q, s)', q # p \/ s # r
          PROVE  Has(q, s)
        BY <1>9, <2>1, <2>3, Zenon DEF Effect, Has
    <2>4. Has(p, r)' => action # "remove" /\ (Has(p, r) \/ GetRule(rules, p, r) # {})
        BY <2>1, Zenon DEF Effect
    <2>5. ASSUME NEW q \in Products, NEW s \in Rules, Has(q, s)', faults' = 0
          PROVE  Justified(q, s)'
        <3>1. Justified(q, s)
            BY <1>2, <2>2, <2>3, <2>4, <2>5, Zenon DEF NoStrays, Justified
        <3>2. ~(action = "remove" /\ q = p /\ s = r)
            BY <2>4, <2>5, Zenon
        <3>. QED BY <1>6, <1>7, <3>1, <3>2, Zenon DEF Justified
    <2>. QED BY <2>5, Zenon DEF NoStrays
<1>. QED BY <1>8, <1>9

\* Callers that are no goroutines of the consumer keep it, and so do the ends of those.
LEMMA CallerStrays ==
    ASSUME EngineTypeOK, NoStrays,
           \/ \E op \in RestOps, p \in Products, r \in Rules, h \in RestHandlers :
                  RestRequest(h, op, p, r)
           \/ RecoveryCreate
           \/ \E k \in Partitions : ConsumerEnds(k)
           \/ \E c \in Callers : SendOnClosed(c)
    PROVE  NoStrays'
<1>1. UNCHANGED <<rules, posting, ruleBus, executors, faults>>
    BY Zenon DEF RestRequest, RecoveryCreate, ConsumerEnds, SendOnClosed, apiVars
<1>2. \A p, r : Has(p, r)' => Has(p, r)
    BY <1>1, Zenon DEF Has
<1>3. CASE (\E k \in Partitions : ConsumerEnds(k)) \/ (\E c \in Callers : SendOnClosed(c))
    <2>1. status \in {"closed", "stopped"} /\ status' \in {status, "down"}
        BY <1>3, Zenon DEF ConsumerEnds, SendOnClosed
    <2>2. status' \notin {"up", "stopping"}
        BY <2>1
    <2>. QED BY <2>2, Zenon DEF NoStrays
<1>4. ASSUME NEW c, c \notin Partitions, UNCHANGED status,
             \A b \in Callers \ {c} : caller'[b] = caller[b]
      PROVE  NoStrays'
    <2>1. \A p, r : Justified(p, r) => Justified(p, r)'
        BY <1>1, <1>4, OtherCallers, Zenon DEF Justified
    <2>. QED BY <1>1, <1>2, <1>4, <2>1, StraysKept, Zenon
<1>5. caller \in [Callers -> CallerState]
    BY Zenon DEF EngineTypeOK
<1>6. ASSUME NEW op \in RestOps, NEW p \in Products, NEW r \in Rules, NEW h \in RestHandlers,
             RestRequest(h, op, p, r)
      PROVE  NoStrays'
    <2>1. h \notin Partitions /\ UNCHANGED status
        BY <1>6, EngineAssumption, Zenon DEF RestRequest
    <2>2. \A b \in Callers \ {h} : caller'[b] = caller[b]
        BY <1>5, <1>6, Zenon DEF RestRequest
    <2>. QED BY <1>4, <2>1, <2>2, Zenon
<1>7. ASSUME RecoveryCreate PROVE NoStrays'
    <2>1. "recovery" \notin Partitions /\ UNCHANGED status
        BY <1>7, EngineAssumption, Zenon DEF RecoveryCreate
    <2>2. \A b \in Callers \ {"recovery"} : caller'[b] = caller[b]
        BY <1>5, <1>7, Zenon DEF RecoveryCreate
    <2>. QED BY <1>4, <2>1, <2>2, Zenon
<1>. QED BY <1>3, <1>6, <1>7, Zenon

\* Clean-up, executors, stop and restart keep it: a new process has no rules.
LEMMA OtherStrays ==
    ASSUME EngineTypeOK, NoStrays,
           \/ CleanExecutors
           \/ \E p \in Products : TakeEvent(p) \/ \E r \in Rules : ExecuteRule(p, r)
           \/ StopService \/ QuitLoop \/ StopExecutors \/ Restart
    PROVE  NoStrays'
<1>1. NoExecutor.rules = {}
    BY DEF NoExecutor
<1>2. CASE QuitLoop \/ StopExecutors
    <2>1. status' \in {"closed", "stopped", "down"}
        BY <1>2, Zenon DEF QuitLoop, StopExecutors
    <2>2. status' \notin {"up", "stopping"}
        BY <2>1
    <2>. QED BY <2>2, Zenon DEF NoStrays
<1>3. CASE Restart
    <2>1. \A p \in Products : executors'[p].rules = {}
        BY <1>1, <1>3, Zenon DEF Restart
    <2>. QED BY <2>1, Zenon DEF NoStrays, Has
<1>4. ASSUME UNCHANGED <<rules, posting, ruleBus, caller, faults>>,
             status' \in {"up", "stopping"} => status \in {"up", "stopping"},
             \A p \in Products : executors'[p].rules = executors[p].rules
      PROVE  NoStrays'
    <2>1. \A p \in Products : \A r : Has(p, r)' => Has(p, r)
        BY <1>4, Zenon DEF Has
    <2>2. \A p, r : UnderWay(p, r) => UnderWay(p, r)'
        BY <1>4, Zenon DEF UnderWay
    <2>3. \A p, r : Justified(p, r) => Justified(p, r)'
        BY <1>4, <2>2, Zenon DEF Justified
    <2>. QED BY <1>4, <2>1, <2>3, StraysKept, Zenon
<1>5. CASE CleanExecutors
    <2>1. /\ UNCHANGED <<rules, posting, ruleBus, caller, faults>>
          /\ status \in {"up", "stopping"}
        BY <1>5, Zenon DEF CleanExecutors, apiVars
    <2>2. executors' = [p \in Products |->
              IF p \in {q \in Products : executors[q].there /\ executors[q].rules = {}}
              THEN NoExecutor ELSE executors[p]]
        BY <1>5, Zenon DEF CleanExecutors
    <2>3. \A p \in Products : executors'[p].rules = executors[p].rules
        BY <1>1, <2>2, Zenon
    <2>. QED BY <1>4, <2>1, <2>3, Zenon
<1>6. CASE \/ StopService
           \/ \E p \in Products : TakeEvent(p) \/ \E r \in Rules : ExecuteRule(p, r)
    <2>1. /\ UNCHANGED <<rules, posting, ruleBus, caller, faults, executors>>
          /\ status' = status \/ status' = "down" \/ status \in {"up"}
        BY <1>6, Zenon DEF StopService, TakeEvent, ExecuteRule, apiVars
    <2>2. status' \in {"up", "stopping"} => status \in {"up", "stopping"}
        BY <2>1
    <2>. QED BY <1>4, <2>1, <2>2, Zenon
<1>. QED BY <1>2, <1>3, <1>5, <1>6, Zenon

\* Every step keeps it.
LEMMA StraysStep == ServedInv /\ NoStrays /\ [EngineNext]_engineVars => NoStrays'
<1>. SUFFICES ASSUME ServedInv, NoStrays, [EngineNext]_engineVars PROVE NoStrays'
    OBVIOUS
<1>1. EngineTypeOK
    BY Zenon DEF ServedInv
<1>2. CASE UNCHANGED engineVars
    BY <1>2, Zenon DEF engineVars, apiVars, NoStrays, Has, Justified, UnderWay
<1>3. CASE EngineNext
    BY <1>1, <1>3, ApiStrays, PostStrays, ConsumeStrays, HandleStrays, CallerStrays, OtherStrays, Zenon
       DEF EngineNext, RuleRequests
<1>. QED BY <1>2, <1>3

\* It holds at the start, when no executor has a rule.
LEMMA StraysInit == EngineInit => NoStrays
<1>. SUFFICES ASSUME EngineInit PROVE NoStrays
    OBVIOUS
<1>1. \A p \in Products : executors[p].rules = {}
    BY DEF EngineInit, NoExecutor
<1>. QED BY <1>1, Zenon DEF NoStrays, Has

\* It is strong enough: when all is quiet, nothing is under way.
LEMMA StraysMeans == ServedInv /\ NoStrays => RulesFollow
<1>. SUFFICES ASSUME ServedInv, NoStrays PROVE RulesFollow
    OBVIOUS
<1>1. RulesAreServed
    BY ServedMeans
<1>2. ASSUME Quiet, faults = 0, NEW p \in Products, NEW x \in executors[p].rules
      PROVE  GetRule(rules, p, x.rule) # {}
    <2>1. x \in RuleEntry
        <3>1. executors[p] \in Executor
            BY Zenon DEF ServedInv, EngineTypeOK
        <3>. QED BY <3>1 DEF Executor
    <2>2. x.rule \in Rules /\ Has(p, x.rule)
        BY <2>1 DEF RuleEntry, Has
    <2>3. status \in {"up", "stopping"} /\ posting = {}
        BY <1>2 DEF Quiet
    <2>4. \A k \in Partitions : Len(ruleBus[k]) = 0 /\ caller[k].at # "send"
        BY <1>2 DEF Quiet, Callers, Idle
    <2>5. \A k \in Partitions : 1 .. Len(ruleBus[k]) = {}
        BY <2>4
    <2>6. ~UnderWay(p, x.rule)
        BY <2>3, <2>4, <2>5, Zenon DEF UnderWay
    <2>. QED BY <1>2, <2>2, <2>3, <2>6, Zenon DEF NoStrays, Justified
<1>. QED BY <1>1, <1>2, Zenon DEF RulesFollow, RemovedRulesEnd

\* For any rules, products, partitions, requests, failures and restarts: once every message
\* has been handled, the executors have no rule that the registry has not, in whatever order
\* handlers of the API server, the goroutines of the consumer, the REST interface and the
\* recovery got to dispatchRule; and an executor with rules has the goroutine that runs them.
THEOREM EngineFollowsRegistry == EngineSpec => []RulesFollow
BY ServedInitInv, ServedStep, StraysInit, StraysStep, StraysMeans, PTL DEF EngineSpec
=============================================================================
