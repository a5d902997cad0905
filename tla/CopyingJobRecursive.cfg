CONSTANTS
    N = 6
    Parent <- MCParent
    Directories <- MCDirectories
    Slot <- MCSlot
    Setups <- MCRecursiveSetups
    MaxExternals = 0
SPECIFICATION Spec
INVARIANTS
    SourcesNotLost
CHECK_DEADLOCK FALSE
