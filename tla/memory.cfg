SPECIFICATION Spec
CONSTANTS
    NProc = 4
    NPages = 10
    Queued = {"READY", "KILLED"}
INVARIANTS TypeOK PagesApart NoPageLost HaltsOnlyWhenFull LoadedNotFree
PROPERTIES PagesKept
