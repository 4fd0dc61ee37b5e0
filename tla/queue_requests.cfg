CONSTANTS
    n1 = n1
    n2 = n2
    k1 = k1
    Node = {n1}
    NoNode = NoNode
    Item = {1, 2}
    NoItem = NoItem
    NoWorker = NoWorker
    Key <- SameKeys
    NoKey = NoKey
    WithTaskRun = {1}
    MaxRetries = 1
    TTL = 1
    RenewalsTimely = TRUE
    TurnsTimely = TRUE
    May = {"obstacle", "leave", "reopen", "remove", "expire"}
    Users = {n1}
    Homes = {n1}
    Sweepers = {n1}
    Listeners = {n1}
    MaxCrashes = 0
    MaxMoves = 2
SPECIFICATION Spec
CHECK_DEADLOCK FALSE
INVARIANTS DoneWasStarted MutualExclusion
