SPECIFICATION FairSpec
CONSTANTS
    t1 = t1
    t2 = t2
    None = None
    Tasks = {t1, t2}
    Priority <- MCPriority
    Workers = {w1}
    Operations = {"cancel", "retry"}
    Before <- OneBefore
    MaxInterrupts = 1
    MaxExits = 2
    MaxRetries = 1
INVARIANTS
    CopyIsCurrent
    InterruptsAreExits
    RunningIsHeld
PROPERTIES
    CompletedIsNotRerun
    QueuedIsFinished
    IsBacklog
CHECK_DEADLOCK FALSE
