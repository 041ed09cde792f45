SPECIFICATION MCSpec
CONSTANTS
    None = None
    Tasks = {"t1", "t2"}
    Keys = {1, 2}
    Models = 2
    MaxRetries = 3
    MaxRateRetries = 2
    DeepThinkers = {2}
    MaxSteps = 2
    MaxNarrations = 1
    MaxGateNudges = 1
    MaxBatch = 2
    MaxPrompts = 2
    MaxCommands = 1
    MaxKills = 1
    MaxMessages = 6
    MaxTokens = 6
    KeepLast = 3
    MaxToolRetries = 2
    MaxAnswers = 2
    MaxFaults = 2
    Threads = {"runner", "user", "sender"}
    Calls <- MCCalls
    MaxCalls <- MCMaxCalls
    MaxCrashes = 1
    Runs = {"r1", "r2"}
    Ids = {"s1", "s2"}
    Homes = {"server", "shell", "detachedByServer", "detachedByShell"}
    Flags = {"continue", "auto"}
    MaxBoots = 1
    MaxLosses = 1
INVARIANTS
    RequestsAreBounded
    LosesAtMostAStep
    RequestIsValid
    MemoryIsKept
    ConversationIsKept
    RegistryIsExplained
PROPERTY
    VerdictIsEarned
CHECK_DEADLOCK FALSE
