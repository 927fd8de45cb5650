\* The topic tree, the queues, the in-flight window, the codec and the caches.
CONSTANTS
    None = None
    Poppers = {"p1", "p2", "p3"}
    Items = {1, 2, 3, 4}
    Messages = {1, 2, 3}
    Outages = 2
    Crashes = 1
    Nil = Nil
    MinQueueLen = 2
    MaxPacketID = 5
    Nibble = 3
    MaxMessages = 6
    MaxRetained = 5
    Devices <- SlashedDevices
    Sessions = {"s1", "s2"}
    MaxSecrets = 2
    Failures = 1
    Loaded = {{}}
    Posts = {}
    TopicLens = {0, 3}
    PayloadLens <- BoundaryPayloads
    Pids = {0, 1, 255, 256, 65535}
    CopyBuffer = 32768
    NoMsg = NoMsg
    CacheKeys = {"k1", "k2", "k3"}
    Values = {1, 2}
    Capacity = 2
    MaxCalls = 5
SPECIFICATION Spec
INVARIANTS
    RetainListHolds
    RoundTrip
    CacheIsLru
    
    KeyFitsName
PROPERTIES
    RoutedToMatching
    ImplementsTable
    ImplementsFifo
    ItemsTaken
    
CHECK_DEADLOCK FALSE
