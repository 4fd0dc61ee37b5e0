SPECIFICATION Spec
CONSTANTS
    Table = {tasks, messages}
    NoTable = NoTable
    BatchSize = 2
    History = 1
    May = {"reorder"}
    MaxWrites = 2
    MaxFaults = 0
INVARIANT LagZeroMeansDelivered
CHECK_DEADLOCK FALSE
