CONSTANTS
    Items = 1
    MaxCalls = 0
SPECIFICATION Spec
PROPERTIES
    WaitReturns
CHECK_DEADLOCK FALSE
