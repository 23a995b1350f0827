SPECIFICATION Spec
CONSTANTS
    NProc = 4
    MaxPid = 4
    MaxSleep = 0
    MaxJobs = 2
    MaxNest = 1
    Calls = {"fork", "exec", "exit", "signal", "bg", "kill"}
    Sendable = {20}
    Targets <- NoGroups
    WaitOptions <- NoOptions
    ForeStates = {}
    MemoryFails = TRUE
INVARIANTS JobsDistinct
PROPERTIES SignalsBeforeRun
CONSTRAINT OneCatcher
