SPECIFICATION Spec
CONSTANTS
    MaxReconnects = 1
    MaxSockets = 4
    MaxDrops = 3
    MaxCommands = 2
    MaxFaults = 0
INVARIANT LostSessionReconnects
CHECK_DEADLOCK FALSE
