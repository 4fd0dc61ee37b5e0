CONSTANTS
    Capacity = 1
    MaxPrompts = 2
    MaxTurns = 2
    MaxStops = 1
    MaxFaults = 2
SPECIFICATION Spec
CHECK_DEADLOCK FALSE
INVARIANT StaleClosePreserves
