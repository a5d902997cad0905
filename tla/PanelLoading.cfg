CONSTANTS
    Places = {"home", "docs", "docs on ftp"}
    Home = "home"
    First = "docs"
    Path <- MCPath
    Above <- MCAbove
    MaxRequests = 1
    MaxChanges = 2
SPECIFICATION Spec
INVARIANTS
    TypeOK
    LoadsAlone
    LoweredWhenDry
    FreshWhenSettled
PROPERTIES
    GoToEnds
CHECK_DEADLOCK FALSE
