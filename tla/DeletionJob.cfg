CONSTANTS
    Items <- MCItems
    Directories <- MCDirectories
    Listing <- MCListing
    Up <- MCUp
    Setups <- MCSetups
    MaxRetries = 1
SPECIFICATION Spec
INVARIANTS
    TypeOK
    OnlySelection
    ErasedByConsent
    NothingForgotten
    StopsSoon
    UnlockedByConsent
CHECK_DEADLOCK FALSE
