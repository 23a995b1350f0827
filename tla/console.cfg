SPECIFICATION ConsoleSpec
CONSTANTS
    NProc = 3
    MaxPid = 3
    MaxSleep = 0
    MaxJobs = 1
    MaxNest = 1
    Calls = {"fork", "exec", "exit", "read", "signal"}
    Sendable = {20}
    Targets <- NoGroups
    WaitOptions <- NoOptions
    ForeStates = {}
    MemoryFails = TRUE
    KeyBufSize = 3
    Keys = {"char", "ctrl-Z"}
    MaxBurst = 3
INVARIANTS ConsoleTypeOK ReadersAwake
PROPERTIES NoEmptyRead OnlyForegroundReads
