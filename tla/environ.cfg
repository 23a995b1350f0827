SPECIFICATION EnvSpec
CONSTANTS
    NProc = 3
    MaxPid = 4
    HangUps = FALSE
    Key = {k1, k2, k3}
    Value = {v1}
    NoKey = NoKey
    NoText = NoText
    Size = 2
INVARIANTS PidsUnique ParentAlive ParentOlder NoDuplicates
PROPERTIES TablesKept ImplementsEnvMap
