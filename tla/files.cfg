SPECIFICATION Spec
CONSTANTS
    NProc = 3
    MaxFds = 2
    MaxEntries = 5
    File = {init, empty}
    InitFile = init
    NoFile = NoFile
    FileSize <- Sizes
    MaxRead = 2
    CloseShared = FALSE
    RogueFiles = FALSE
INVARIANTS FilesTypeOK EntryCounts InodeCounts OffsetInFile NeverHalts
PROPERTIES FileStays
