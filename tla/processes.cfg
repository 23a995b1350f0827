SPECIFICATION SwitchSpec
CONSTANTS
    NProc = 3
    MaxPid = 3
    MaxSleep = 1
    MaxJobs = 1
    MaxNest = 0
    Calls = {"fork", "exit", "sleep", "wait", "kill", "fg", "bg"}
    Sendable = {9, 20}
    Targets <- NoGroups
    WaitOptions <- StopOptions
    ForeStates = {"READY", "STOPPED"}
    MemoryFails = FALSE
INVARIANTS TypeOK ListedInState NoneLost NoLostWakeup
PROPERTIES DeadStayDead StayStopped OthersResume
