CONSTANTS
    Threads = {t1}
    Roots = {A}
    Nested = {L}
    None = None
    MaxHosts = 2
    MaxInfos = 2
    MaxPromises = 1
SPECIFICATION Spec
PROPERTY RetrieveReturns
CHECK_DEADLOCK FALSE
