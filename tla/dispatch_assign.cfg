CONSTANTS
    a = a
    b = b
    Executor = {a, b}
    First = a
    Fragile = {}
    Outcome = {"completed"}
    SyncCap = 2
    MaxRequests = 1
    MaxStarts = 1
    MaxFaults = 0
    MaxTrouble = 1
    Prompt = TRUE
SPECIFICATION Spec
CHECK_DEADLOCK FALSE
PROPERTIES AssignTakesEffect
