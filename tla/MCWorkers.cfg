\* Tenants and products, the rule engine, the hub and the client of the message service.
CONSTANTS
    None = None
    Services = {"a", "b"}
    MaxRemovals = 1
    Outages = 0
    Requests = {1, 2, 3, 4}
    Tenants = {"t1"}
    ProductIds = {"p1", "p2"}
    Flavors = {"f1"}
    NoTenant = None
    NoFlavor = None
    Ops = {"RegisterTenant", "DeleteTenant", "UpdateTenant"}
    MaxLost = 1
    Products = {"p1"}
    NoProduct = None
    Rules = {"r1"}
    Targets = {"topic", "es"}
    Statuses = {"idle"}
    Partitions = {"k1", "k2"}
    RestHandlers = {"h1"}
    ApiOps = {"create", "remove", "update"}
    RestOps = {"create", "remove"}
    MaxCalls = 4
    MaxEvents = 1
    MaxFaults = 1
    MaxStarts = 1
    MaxStored = 0
SPECIFICATION Spec
INVARIANTS
    CatalogAsAnswered
    RulesFollow
    ListIsRecent
PROPERTIES
    
    WorkersStop
CHECK_DEADLOCK FALSE
