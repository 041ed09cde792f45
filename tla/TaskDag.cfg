SPECIFICATION FairSpec
CONSTANTS
    Nodes <- MCNodes
    Planned = 2
    Deps <- MCDeps
    Priority <- MCPriority
    Ghost = ghost
    None = none
    MaxAttempts = 2
    MaxCrashes = 1
    MaxStrays = 1
INVARIANTS
    NextIsWorkable
    FinishedInOrder
    NoFakeProgress
PROPERTIES
    NoFakeCompletion
    PlanFinishes
CHECK_DEADLOCK FALSE
