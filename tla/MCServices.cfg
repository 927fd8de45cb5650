\* The services of the broker, its start and stop, the message bus.
CONSTANTS
    None = None
    Service = Service
    Brokers = {"b1", "b2"}
    Clients = {"c1"}
    MaxEvents = 3
    Partitions = {0, 1}
    Messages = {"m1", "m2"}
    MaxErrors = 1
    Notifiers = {"c1", "c2"}
    RemoteEvents = 2
    MaxSignals = 2
    MetricConfigured = TRUE
SPECIFICATION Spec
INVARIANTS
    PublishDeliveredOnce
    InPartitionOrder
    ReportWithinTotals
    StopIsClean
PROPERTIES
    ServicePublishArrives
    StopsReturn
CHECK_DEADLOCK FALSE
