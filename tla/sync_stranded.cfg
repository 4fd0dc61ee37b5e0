SPECIFICATION FairSpec
CONSTANTS
    Table = {tasks, messages}
    NoTable = NoTable
    BatchSize = 2
    History = 1
    May = {"fail"}
    MaxWrites = 3
    MaxFaults = 1
PROPERTY QueuedIsRefreshed
CHECK_DEADLOCK FALSE
