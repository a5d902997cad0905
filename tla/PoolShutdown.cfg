CONSTANTS
    Main = Main
    Ops = {o1, o2}
    Unqueued = {}
    Askers = {}
    Limits = {0, 2}
    MaxStops = 1
    MaxChanges = 1
SPECIFICATION Spec
PROPERTIES
    ShutdownCompletes
CHECK_DEADLOCK FALSE
