CONSTANTS
    N = 6
    Parent <- MCParent
    Directories <- MCDirectories
    Slot <- MCSlot
    Setups <- MCSetups
    MaxExternals = 1
SPECIFICATION Spec
INVARIANTS
    TypeOK
    SourcesNotLost
    DestinationsNotLost
    NoTornFiles
    CompleteMove
CHECK_DEADLOCK FALSE
