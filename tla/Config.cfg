CONSTANTS
    Program = {t1, t2}
    Executor = x
    Tokens = {k1, k2}
    Values = {v1, v2}
    Default = v1
    Initial = v1
    None = None
    MaxSets = 2
    MaxCommits = 1
SPECIFICATION Spec
INVARIANTS
    TypeOK
    SilentAfterDrop
    LastChangeSeen
    ChangesReachTheFile
PROPERTIES
    EveryCallReturns
CHECK_DEADLOCK FALSE
