SPECIFICATION FairSpec
CONSTANTS
    NProc = 3
    MaxPid = 3
    MaxSleep = 0
    MaxJobs = 0
    MaxNest = 0
    Calls = {"fork", "exit", "wait", "kill", "sleep"}
    Sendable = {15}
    Targets <- ToGroups
    WaitOptions <- WaitOrAsk
    ForeStates = {}
    MemoryFails = FALSE
INVARIANTS NoneLost ForegroundAlive
PROPERTIES ReadyRuns OrphansCollected ShutdownHalts ImplementsFamily
