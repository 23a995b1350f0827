SPECIFICATION Spec
CONSTANTS
    NProc = 3
    MaxPid = 3
    MaxSleep = 0
    MaxJobs = 2
    MaxNest = 0
    Calls = {"fork", "exit", "wait", "kill"}
    Sendable = {18, 20}
    Targets <- NoGroups
    WaitOptions <- NoOptions
    ForeStates = {}
    MemoryFails = FALSE
INVARIANTS NoLostWakeup
