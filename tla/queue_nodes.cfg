CONSTANTS
    n1 = n1
    n2 = n2
    k1 = k1
    Node = {n1, n2}
    NoNode = NoNode
    Item = {1, 2}
    NoItem = NoItem
    NoWorker = NoWorker
    Key <- NoKeys
    NoKey = NoKey
    WithTaskRun = {1}
    MaxRetries = 1
    TTL = 1
    RenewalsTimely = TRUE
    TurnsTimely = TRUE
    May = {}
    Users = {n1, n2}
    Homes = {n1, n2}
    Sweepers = {n2}
    Listeners = {}
    MaxCrashes = 1
    MaxMoves = 1
SPECIFICATION Spec
CHECK_DEADLOCK FALSE
INVARIANTS TypeOK MutualExclusion TurnsBounded SlotHasOwner
PROPERTIES  LeaseFencing OnlyClaimerCharges ServesSession
