------------------------------ MODULE Registry ------------------------------
(* pkg/registry: the documents of the platform in MongoDB.  A collection is a *)
(* set of documents; a command of the database is atomic, and a function of   *)
(* the registry that issues two commands is two steps of its caller.          *)
(* A command is given by the set of collections it may lead to: the empty set *)
(* means that it answers with an error and changes nothing.                   *)
EXTENDS Naturals, FiniteSets

\* Collection.Insert: a unique index refuses a document whose key others have.
Insertions(coll, others, doc) == IF others = {} THEN {coll \cup {doc}} ELSE {}

\* Collection.Remove: one of the documents found goes; none is an error.
Removals(coll, found) == {coll \ {d} : d \in found}

\* Collection.Update without an operator replaces the whole document.
Replacements(coll, found, doc) == {(coll \ {d}) \cup {doc} : d \in found}

-----------------------------------------------------------------------------
(* The unique indexes that Initialize ensures.                                *)

TenantKey(d) == d.tenant

ProductKey(d) == d.product

DeviceKey(d) == d.device

RuleKey(d) == <<d.product, d.rule>>

-----------------------------------------------------------------------------
(* Tenants.                                                                   *)

TenantExists(tenants, t) == \E d \in tenants : d.tenant = t

\* RegisterTenant, after its look-up.
InsertTenant(tenants, doc) ==
    Insertions(tenants, {d \in tenants : TenantKey(d) = TenantKey(doc)}, doc)

DeleteTenant(tenants, t) == Removals(tenants, {d \in tenants : d.tenant = t})

UpdateTenant(tenants, t, doc) == Replacements(tenants, {d \in tenants : d.tenant = t}, doc)

-----------------------------------------------------------------------------
(* Products.                                                                  *)

RegisterProduct(products, doc) ==
    IF \E d \in products : d.tenant = doc.tenant /\ d.product = doc.product
    THEN {}
    ELSE Insertions(products, {d \in products : ProductKey(d) = ProductKey(doc)}, doc)

\* Only the document of the product goes: its devices and rules stay.
DeleteProduct(products, p) == Removals(products, {d \in products : d.product = p})

GetProduct(products, p) == {d \in products : d.product = p}

GetProducts(products, t) == {d \in products : d.tenant = t}

UpdateProduct(products, doc) ==
    Replacements(products, {d \in products : d.product = doc.product}, doc)

-----------------------------------------------------------------------------
(* Devices.                                                                   *)

RegisterDevice(devices, doc) ==
    Insertions(devices, {x \in devices : DeviceKey(x) = DeviceKey(doc)}, doc)

GetDevice(devices, p, d) ==
    {x \in devices : x.product = p /\ x.device = d}

GetDevicesByName(devices, p, n) ==
    {x \in devices : x.product = p /\ x.name = n}

GetProductDevices(devices, p) == {x \in devices : x.product = p}

DeleteDevice(devices, p, d) ==
    Removals(devices, {x \in devices : x.product = p /\ x.device = d})

UpdateDevice(devices, doc) ==
    Replacements(devices, {x \in devices : x.product = doc.product /\ x.device = doc.device}, doc)

-----------------------------------------------------------------------------
(* Rules.                                                                     *)

\* Find is not run here, so only the index refuses a rule that exists.
RegisterRule(rules, doc) == Insertions(rules, {x \in rules : RuleKey(x) = RuleKey(doc)}, doc)

GetRule(rules, p, n) == {x \in rules : x.product = p /\ x.rule = n}

RemoveRule(rules, p, n) ==
    Removals(rules, {x \in rules : x.product = p /\ x.rule = n})

UpdateRule(rules, doc) ==
    Replacements(rules, {x \in rules : RuleKey(x) = RuleKey(doc)}, doc)

GetRulesWithStatus(rules, s) == {x \in rules : x.status = s}
-----------------------------------------------------------------------------
(* Topic flavors.                                                             *)

\* The query of CreateTopicFlavor names fields that no document has, so it finds
\* nothing; the collection has no index.
InsertTopicFlavor(flavors, doc) == {flavors \cup {doc}}

GetTenantTopicFlavors(flavors, t) == {x \in flavors : x.tenant = t}

\* The flavor is looked for under the identifier of the product, not its tenant.
GetProductTopicFlavors(products, flavors, p) ==
    UNION {{x \in flavors : x.tenant = d.product /\ x.flavor = d.flavor} :
              d \in GetProduct(products, p)}
=============================================================================
