SPECIFICATION MCSpec
CONSTANTS
    c1 = c1
    c2 = c2
    c3 = c3
    Keys = {1, 2}
    Users = {c1, c2, c3}
    NoUser = NoUser
    Batch <- MCBatch
    Decl <- CrossedDecl
    Timed = {}
    MaxWorkers = 3
    MaxAttempts = 2
    Impatient = {c3}
    Coroutines <- MCCoroutines
    CoroutineDecl <- MCCoroutineDecl
    Sync = {"b"}
    Hurried = {"b"}
    MaxConcurrency = 2
    MaxTaskAttempts = 2
    Threads = {"t1", "t2"}
    NoJob <- MCNoJob
    Commands = {"a", "b"}
    Deadlines = {"a"}
    MaxShells = 2
    MaxCancels = 2
    Requests = {"a", "b"}
    MaxLines = 2
    MaxNoise = 2
    MaxRequestCancels = 1
    NoRequest = "nobody"
INVARIANTS
    ConflictsSerialised
    NothingHeldAfterEnd
    ToolsAreSafe
PROPERTIES
    ToolsAnswer
