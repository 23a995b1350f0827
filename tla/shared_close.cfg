SPECIFICATION Spec
CONSTANTS
    NProc = 3
    MaxFds = 2
    MaxEntries = 5
    File = {init, empty}
    InitFile = init
    NoFile = NoFile
    FileSize <- Sizes
    MaxRead = 0
    CloseShared = TRUE
    RogueFiles = FALSE
CHECK_DEADLOCK FALSE
INVARIANTS InodeCounts
