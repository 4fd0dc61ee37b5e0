CONSTANTS
    n1 = n1
    n2 = n2
    k1 = k1
    Node = {n1, n2}
    NoNode = NoNode
    Item = {1}
    NoItem = NoItem
    NoWorker = NoWorker
    Key <- NoKeys
    NoKey = NoKey
    WithTaskRun = {1}
    MaxRetries = 1
    TTL = 1
    RenewalsTimely = TRUE
    TurnsTimely = FALSE
    May = {}
    Users = {n1}
    Homes = {n1, n2}
    Sweepers = {n2}
    Listeners = {}
    MaxCrashes = 0
    MaxMoves = 2
SPECIFICATION Spec
CHECK_DEADLOCK FALSE
PROPERTY SweepTakesOrphans
