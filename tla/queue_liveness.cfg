CONSTANTS
    n1 = n1
    n2 = n2
    k1 = k1
    Node = {n1, n2}
    NoNode = NoNode
    Item = {1}
    NoItem = NoItem
    NoWorker = NoWorker
    Key <- NoKeys
    NoKey = NoKey
    WithTaskRun = {1}
    MaxRetries = 0
    TTL = 0
    RenewalsTimely = TRUE
    TurnsTimely = TRUE
    May = {}
    Users = {n1}
    Homes = {n2}
    Sweepers = {n2}
    Listeners = {n2}
    MaxCrashes = 1
    MaxMoves = 2
SPECIFICATION FairSpec
CHECK_DEADLOCK FALSE
PROPERTIES ClaimsRecover LeasesRecover DrainsReturn MirrorConverges
