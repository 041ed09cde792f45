SPECIFICATION MCSpec
CONSTANTS
    None = None
    Threads = {t1, t2, t3}
    Timed = {t3}
    NoOwner = NoOwner
    Plans <- MCPlans
    MaxFaults = 2
    Caller = "c1"
    Rpm = 2
    Window = 5
    BaseBlock = 1
    MaxBlock = 3
    MaxPressure = 3
    RetryAfters = {0, 2}
    Procs = {"p1", "p2", "p3"}
    Jobs = {"j1", "j2"}
    Commands = {"c1", "c2"}
    Scheduler = "scheduler"
    Together = FALSE
    TornFiles = FALSE
    MaxTime = 3
    MaxKills = 2
    Callers = {"c1", "c2"}
    Sockets = {"s1", "s2", "s3"}
    Patient = TRUE
    Polite = TRUE
    MaxAttempts = 3
INVARIANTS
    QueueSound
    NoStrandedWaiter
    LinkIsKept
PROPERTIES
    WhatBeginsEnds
    PipelineIsSound
    WindowIsFair
    GuardIsKept
    JobsRunOnce
