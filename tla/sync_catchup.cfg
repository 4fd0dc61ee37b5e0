SPECIFICATION FairSpec
CONSTANTS
    Table = {tasks, messages}
    NoTable = NoTable
    BatchSize = 2
    History = 1
    May = {"drop", "restart", "fail"}
    MaxWrites = 3
    MaxFaults = 2
INVARIANTS TypeOK ExactlyOnce IdleMeansDrained QuietMeansCurrent
PROPERTY CachesCatchUp
CHECK_DEADLOCK FALSE
