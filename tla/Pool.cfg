CONSTANTS
    Main = Main
    Ops = {o1, o2, o3}
    Unqueued = {o3}
    Askers = {o1}
    Limits = {0, 2}
    MaxStops = 1
    MaxChanges = 1
SPECIFICATION Spec
INVARIANTS
    TypeOK
    ListedOnce
    NoneForgotten
    LiveJobsListed
    NoStall
PROPERTIES
    ConcurrencyLimit
CHECK_DEADLOCK FALSE
