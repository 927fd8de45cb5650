\* The API server, the IoT manager and the configuration.
CONSTANTS
    None = None
    t1 = t1
    t2 = t2
    Requests = {1, 2, 3}
    ProductIds = {"p1"}
    DeviceIds = {"d1", "d2"}
    Names = {"n1"}
    Keys = {"k1", "k2"}
    BulkSize = 2
    Routes = {"RemoveProduct", "CreateDevice", "BulkRegisterDevices", "RemoveDevice",
              "UpdateDevice", "SaveDeviceProps", "SaveDevicePropsByName",
              "RemoveDevicePropsByName"}
    Tenants = {t1, t2}
    Products = {"p1"}
    NoTenant = NoTenant
    Handlers = {"h1", "h2"}
    Vias = {"rest"}
    MaxCalls = 5
    MaxFaults = 1
    MaxCrashes = 0
    NoName = NoName
    MaxPort = 1
    Clients = {"c1", "c2"}
    Nodes = {"n1"}
    Partitions = {1, 2}
    Null = Null
    MaxReports = 3
    Outages = 1
    Kinds = {"session_update", "metric_update"}
    Questions = {"session"}
SPECIFICATION Spec
INVARIANTS
    DevicesAsAnswered
    
    TenantsStored
    MutexGuards
    DocumentsFollow
    
CHECK_DEADLOCK FALSE
