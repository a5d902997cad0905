CONSTANTS
    Threads = {t1, t2}
    Roots = {A}
    Nested = {L}
    None = None
    MaxHosts = 3
    MaxInfos = 3
    MaxPromises = 2
SYMMETRY Symmetry
SPECIFICATION Spec
INVARIANTS
    TypeOK
    PromisesKept
    CountsExplained
    NothingKeptInVain
    PromiseMeansItsHost
    OneInfoPerHost
CHECK_DEADLOCK FALSE
