SPECIFICATION Spec
CONSTANTS
    t1 = t1
    t2 = t2
    None = None
    Tasks = {t1, t2}
    Priority <- MCPriority
    Workers = {w1}
    Operations = {"cancel"}
    Before <- OneBefore
    MaxInterrupts = 1
    MaxExits = 1
    MaxRetries = 1
PROPERTIES
    CancelledStays
