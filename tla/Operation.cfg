CONSTANTS
    Items = 2
    MaxCalls = 3
SPECIFICATION Spec
INVARIANTS
    TypeOK
    OneOutcome
    FinishNotLost
    WaitReturnsAfterPerform
PROPERTIES
    StopEndsTheJob
    ImplementsContract
CHECK_DEADLOCK FALSE
