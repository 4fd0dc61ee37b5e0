CONSTANTS
    Capacity = 1
    MaxPrompts = 2
    MaxTurns = 2
    MaxStops = 1
    MaxFaults = 2
SPECIFICATION FairSpec
CHECK_DEADLOCK FALSE
INVARIANTS TypeOK StopHasCause WithinCapacity NoOrphans QuietNotBusy
PROPERTIES RowsInOrder TurnsEnd
