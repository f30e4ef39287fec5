SPECIFICATION Spec
CONSTANTS
    w1 = w1
    w2 = w2
    w3 = w3
    p1 = p1
    p2 = p2
    Keys = {"r1"}
    Processes = {p1}
    Workers = {w1}
    ProcessOf <- OneProcess
    Calls <- AnyCall
    SyncInterval = 2
    LockExpire = 3
    PingInterval = 1
    HistoryLimit = 2
    MaxDelay = 1
    MaxFaults = 0
    MaxCrashes = 1
    MayPanic = FALSE
PROPERTY SkipJustified
