SPECIFICATION FairSpec
CONSTANTS
    Runs = {"a", "b"}
    Jobs = {"a1", "a2", "a3", "a4", "b1"}
    Run <- MCRun
    Title <- MCTitle
    Needs <- MCNeeds
    Files <- MCFiles
    Worker <- MCWorker
    None = none
    Start = 1
    Hi = 2
    MaxWorkers = 2
    MaxRetries = 1
    Cancellable = {"a", "b"}
INVARIANTS
    OneAtAFile
    WavesInOrder
    SlotsAreCounted
    OnlyCancelledLeaks
PROPERTY EveryRunEnds
CHECK_DEADLOCK FALSE
