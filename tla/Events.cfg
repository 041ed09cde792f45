SPECIFICATION MCSpec
CONSTANTS
    None = None
    Tasks = {t1, t2, t3, t4}
    Cancellable = {t3, t4}
    Fingerprints = {"f", "g"}
    Handlers = {"h1", "h2"}
    Loops = {"l1", "l2"}
    MaxDeliveries = 3
    MaxQueue = 1
    MaxRetries = 1
    MaxSwitches = 1
    Calls = {"c1", "c2", "c3"}
    Requests = {"c1", "c2", "c3"}
    MaxConcurrent = 2
    Objects = {"o1", "o2", "o3"}
    Defaults <- MCDefaults
    Settings <- MCSettings
    Emitters = {"e"}
    MaxHookChanges = 4
    Devices = {"a", "b"}
    Nodes = {"n1", "n2", "n3"}
    Senders = {"t", "u"}
    MaxNodes = 2
    MaxNodeChanges = 1
INVARIANTS
    EventsAreHandled
PROPERTIES
    IsFair
    EventsEnd
CHECK_DEADLOCK FALSE
