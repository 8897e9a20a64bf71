SPECIFICATION Spec
CONSTANTS
    MaxReconnects = 2
    MaxSockets = 5
    MaxDrops = 4
    MaxCommands = 2
    MaxFaults = 1
INVARIANT DeadSessionExplained
INVARIANT ReconnectsBounded
CHECK_DEADLOCK FALSE
