CONSTANTS
    Main = Main
    Ops = {o1, o2}
    Unqueued = {}
    Askers = {o1}
    Limits = {0, 2}
    MaxStops = 1
    MaxChanges = 1
SPECIFICATION Spec
PROPERTIES
    QueueAdvances
CHECK_DEADLOCK FALSE
