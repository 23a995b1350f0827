SPECIFICATION SessionSpec
CONSTANTS
    NProc = 4
    MaxPid = 5
    MaxSleep = 1
    MaxJobs = 2
    MaxNest = 1
    Calls = {"fork", "exit", "exec", "sleep", "wait", "kill", "fg", "bg", "read", "signal"}
    Sendable = {1, 15, 18, 20}
    Targets <- ToAll
    WaitOptions <- StopOptions
    ForeStates = {"READY", "STOPPED", "SLEEP"}
    MemoryFails = FALSE
    KeyBufSize = 2
    Keys = {"char", "ctrl-Z"}
    MaxBurst = 1
    MaxAttempts = 1
    Commands = {"job &", "fg", "exit"}
PROPERTIES DeadStayDead
