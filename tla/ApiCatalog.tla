----------------------------- MODULE ApiCatalog -----------------------------
(* apiserver/v1api: tenants, products and topic flavors.  Every HTTP request  *)
(* runs its handler in a goroutine of its own; a handler is a sequence of     *)
(* database commands, a change of permissions and a message to Kafka, and the *)
(* handlers of different requests interleave between them.                    *)
EXTENDS Registry, Sequences

CONSTANTS
    Requests,       \* requests, each served once
    Tenants, ProductIds, Flavors,
    NoTenant, NoFlavor,     \* the empty string in a document
    Ops,            \* the routes that are exercised
    MaxLost         \* bound: messages that Kafka does not take

\* The empty string is no tenant.
ASSUME CatalogAssumption == IsFiniteSet(Requests) /\ NoTenant \notin Tenants

VARIABLES
    tenants, products, flavors,     \* collections of the registry
    granted,        \* permissions on products in the security manager
    bus,            \* messages in the topics "tenant" and "product"
    lost,           \* messages that were not accepted
    req,            \* what each request is doing
    owner           \* history: the tenant that created a product, while it exists

catalogVars == <<tenants, products, flavors, granted, bus, lost, req, owner>>

Waiting == [op |-> "none", at |-> "waiting"]

CatalogInit ==
    /\ tenants = {} /\ products = {} /\ flavors = {}
    /\ granted = {}
    /\ bus = <<>> /\ lost = 0
    /\ req = [r \in Requests |-> Waiting]
    /\ owner = [p \in ProductIds |-> NoTenant]

Begin(r, op, at, doc) ==
    /\ op \in Ops /\ req[r].at = "waiting"
    /\ req' = [req EXCEPT ![r] = [op |-> op, at |-> at, doc |-> doc]]

Go(r, at) == req' = [req EXCEPT ![r].at = at]

\* The handler answers with an error as soon as the registry does: because
\* nothing matches, because the index refuses, or because MongoDB is not there.
Refuse(r) == Go(r, "error")

-----------------------------------------------------------------------------
(* Tenants.                                                                   *)

\* RegisterTenant: the look-up.  A look-up that fails counts as not found.
RegisterTenant(r, t) ==
    /\ \/ /\ TenantExists(tenants, t)
          /\ Begin(r, "RegisterTenant", "error", [tenant |-> t, by |-> r])
       \/ Begin(r, "RegisterTenant", "insert", [tenant |-> t, by |-> r])
    /\ UNCHANGED <<tenants, products, flavors, granted, bus, lost, owner>>

RegisterTenantInsert(r) ==
    /\ req[r].op = "RegisterTenant" /\ req[r].at = "insert"
    /\ \/ \E c \in InsertTenant(tenants, req[r].doc) : tenants' = c /\ Go(r, "permit")
       \/ Refuse(r) /\ UNCHANGED tenants
    /\ UNCHANGED <<products, flavors, granted, bus, lost, owner>>

\* Faulty variant: the error of the registry is not looked at.
DeleteTenantBlindly(r, t) ==
    /\ Begin(r, "DeleteTenant", "post", [tenant |-> t])
    /\ tenants' = {d \in tenants : d.tenant # t}
    /\ UNCHANGED <<products, flavors, granted, bus, lost, owner>>

DeleteTenantRequest(r, t) ==
    /\ \/ /\ Begin(r, "DeleteTenant", "post", [tenant |-> t])
          /\ tenants' \in DeleteTenant(tenants, t)
       \/ /\ Begin(r, "DeleteTenant", "error", [tenant |-> t])
          /\ UNCHANGED tenants
    /\ UNCHANGED <<products, flavors, granted, bus, lost, owner>>

UpdateTenantRequest(r, t) ==
    LET doc == [tenant |-> t, by |-> r] IN
    /\ \/ /\ Begin(r, "UpdateTenant", "post", doc)
          /\ tenants' \in UpdateTenant(tenants, t, doc)
       \/ /\ Begin(r, "UpdateTenant", "error", doc)
          /\ UNCHANGED tenants
    /\ UNCHANGED <<products, flavors, granted, bus, lost, owner>>

-----------------------------------------------------------------------------
(* Products.  A client names the products that its tenant created.            *)

\* CreateProduct: util.NewObjectId never repeats an identifier.
CreateProduct(r, t, p) ==
    LET doc == [product |-> p, tenant |-> t, flavor |-> NoFlavor] IN
    /\ \A q \in Requests : req[q].op = "CreateProduct" => req[q].doc.product # p
    /\ \/ /\ Begin(r, "CreateProduct", "permit", doc)
          /\ products' \in RegisterProduct(products, doc)
          /\ owner' = [owner EXCEPT ![p] = t]
       \/ /\ Begin(r, "CreateProduct", "error", doc)
          /\ UNCHANGED <<products, owner>>
    /\ UNCHANGED <<tenants, flavors, granted, bus, lost>>

RemoveProduct(r, t, p) ==
    LET doc == [product |-> p, tenant |-> t] IN
    /\ owner[p] \in {t, NoTenant}
    /\ \/ /\ Begin(r, "RemoveProduct", "permit", doc)
          /\ products' \in DeleteProduct(products, p)
          /\ owner' = [owner EXCEPT ![p] = NoTenant]
       \/ /\ Begin(r, "RemoveProduct", "error", doc)
          /\ UNCHANGED <<products, owner>>
    /\ UNCHANGED <<tenants, flavors, granted, bus, lost>>

\* AddPrincipalPermissions and RemovePrincipalPermissions; errors are ignored.
\* The permission of a new tenant covers all products and flavors.
ChangePermissions(r) ==
    LET resource == IF req[r].op = "RegisterTenant" THEN "all" ELSE req[r].doc.product
        pair == <<req[r].doc.tenant, resource>>
    IN
    /\ req[r].at = "permit"
    /\ granted' = IF req[r].op = "RemoveProduct"
                  THEN granted \ {pair} ELSE granted \cup {pair}
    /\ Go(r, "post")
    /\ UNCHANGED <<tenants, products, flavors, bus, lost, owner>>

\* UpdateProduct builds the new document from the request alone: it has the
\* product's identifier and texts, and neither a tenant nor a flavor.
UpdateProductRequest(r, p) ==
    LET doc == [product |-> p, tenant |-> NoTenant, flavor |-> NoFlavor] IN
    /\ \/ /\ Begin(r, "UpdateProduct", "post", doc)
          /\ products' \in UpdateProduct(products, doc)
       \/ /\ Begin(r, "UpdateProduct", "error", doc)
          /\ UNCHANGED products
    /\ UNCHANGED <<tenants, flavors, granted, bus, lost, owner>>

\* asyncProduceMessage: its error is ignored and the answer is OK.
PostMessage(r) ==
    /\ req[r].at = "post"
    /\ \/ /\ bus' = Append(bus, [op |-> req[r].op, doc |-> req[r].doc])
          /\ UNCHANGED lost
       \/ lost < MaxLost /\ lost' = lost + 1 /\ UNCHANGED bus
    /\ Go(r, "ok")
    /\ UNCHANGED <<tenants, products, flavors, granted, owner>>

-----------------------------------------------------------------------------
(* Topic flavors.                                                             *)

\* CreateTopicFlavor inserts, whatever the collection holds already.
CreateTopicFlavor(r, t, f) ==
    LET doc == [flavor |-> f, tenant |-> t, by |-> r] IN
    /\ \/ Begin(r, "CreateTopicFlavor", "ok", doc) /\ flavors' \in InsertTopicFlavor(flavors, doc)
       \/ Begin(r, "CreateTopicFlavor", "error", doc) /\ UNCHANGED flavors
    /\ UNCHANGED <<tenants, products, granted, bus, lost, owner>>

\* SetProductTopicFlavor and RemoveProductTopicFlavor read the product, and
\* write it back with the other flavor.
SetProductTopicFlavor(r, p, f) ==
    /\ \/ \E d \in GetProduct(products, p) :
             Begin(r, "SetProductTopicFlavor", "save", [d EXCEPT !.flavor = f])
       \/ Begin(r, "SetProductTopicFlavor", "error", [product |-> p])
    /\ UNCHANGED <<tenants, products, flavors, granted, bus, lost, owner>>

SaveProductFlavor(r) ==
    /\ req[r].op = "SetProductTopicFlavor" /\ req[r].at = "save"
    /\ \/ products' \in UpdateProduct(products, req[r].doc) /\ Go(r, "ok")
       \/ Refuse(r) /\ UNCHANGED products
    /\ UNCHANGED <<tenants, flavors, granted, bus, lost, owner>>

-----------------------------------------------------------------------------
TenantRequest(r) ==
    \E t \in Tenants :
        RegisterTenant(r, t) \/ DeleteTenantRequest(r, t) \/ UpdateTenantRequest(r, t)

ProductRequest(r) ==
    \/ \E t \in Tenants, p \in ProductIds : CreateProduct(r, t, p) \/ RemoveProduct(r, t, p)
    \/ \E p \in ProductIds : UpdateProductRequest(r, p)

FlavorRequest(r) ==
    \/ \E t \in Tenants, f \in Flavors : CreateTopicFlavor(r, t, f)
    \/ \E p \in ProductIds, f \in Flavors \cup {NoFlavor} : SetProductTopicFlavor(r, p, f)

Proceed(r) ==
    RegisterTenantInsert(r) \/ ChangePermissions(r) \/ PostMessage(r) \/ SaveProductFlavor(r)

CatalogNext ==
    \E r \in Requests : TenantRequest(r) \/ ProductRequest(r) \/ FlavorRequest(r) \/ Proceed(r)

CatalogSpec == CatalogInit /\ [][CatalogNext]_catalogVars

-----------------------------------------------------------------------------
(* Properties.                                                                *)

Done(op, t) == {r \in Requests : req[r].op = op /\ req[r].at \in {"permit", "post", "ok"}
                                 /\ req[r].doc.tenant = t}

\* Registrations of one tenant that look for it at the same time: the unique
\* index lets one of them through, and another only after a deletion.
RegisteredOnce ==
    \A t \in Tenants :
        /\ Cardinality({d \in tenants : d.tenant = t}) <= 1
        /\ Cardinality(Done("RegisterTenant", t)) <= 1 + Cardinality(Done("DeleteTenant", t))

Posted(op, t) == {i \in DOMAIN bus : bus[i].op = op /\ bus[i].doc.tenant = t}

\* When every request has been answered and Kafka took every message, the
\* messages about a tenant account for its document: one creation more than
\* removals when it exists, as many when it does not.
MessagesAccount ==
    (lost = 0 /\ \A r \in Requests : req[r].at \in {"waiting", "ok", "error"}) =>
        \A t \in Tenants :
            Cardinality(Posted("RegisterTenant", t))
              = Cardinality(Posted("DeleteTenant", t))
                + Cardinality({d \in tenants : d.tenant = t})

\* A product that was deleted does not come back, although handlers write back
\* documents that they have read before.
DeletedStaysDeleted ==
    \A p \in ProductIds : owner[p] = NoTenant => GetProduct(products, p) = {}

\* All of it: tenants and products are in the registry as the answers and the
\* messages to the other services say.
CatalogAsAnswered == RegisteredOnce /\ MessagesAccount /\ DeletedStaysDeleted

-----------------------------------------------------------------------------
(* What the code does not keep: TLC has a counterexample to each, see the   *)
(* known disagreements in the README.                                       *)

\* A product is in the list of the tenant that created it until it is deleted.
CreatedIsListed ==
    \A p \in ProductIds : owner[p] # NoTenant =>
        \E d \in GetProducts(products, owner[p]) : d.product = p

\* A tenant has one flavor of a name: a second one "already exist"s.
FlavorsDistinct ==
    \A d, e \in flavors : (d.flavor = e.flavor /\ d.tenant = e.tenant) => d = e

\* The flavor that was set for a product is the one that is retrieved for it,
\* by the console and by a broker that starts, when its tenant has that flavor.
FlavorIsRetrieved ==
    \A d \in products : \A f \in GetTenantTopicFlavors(flavors, d.tenant) :
        d.flavor = f.flavor =>
            \E e \in GetProductTopicFlavors(products, flavors, d.product) : e.flavor = f.flavor
=============================================================================
