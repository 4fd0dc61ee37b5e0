CONSTANTS
    a = a
    b = b
    Executor = {a}
    First = a
    Fragile = {a}
    Outcome = {"completed"}
    SyncCap = 2
    MaxRequests = 1
    MaxStarts = 2
    MaxFaults = 1
    MaxTrouble = 1
    Prompt = TRUE
SPECIFICATION FairSpec
CHECK_DEADLOCK FALSE
INVARIANTS TypeOK OneExecution ResultFromRun Attended
PROPERTIES Settles KeepsPromise
