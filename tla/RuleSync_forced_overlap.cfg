SPECIFICATION Spec
CONSTANTS
    w1 = w1
    w2 = w2
    w3 = w3
    p1 = p1
    p2 = p2
    Keys = {"r1"}
    Processes = {p1}
    Workers = {w1, w2}
    ProcessOf <- OneProcess
    Calls <- LiveRules
    SyncInterval = 4
    LockExpire = 4
    PingInterval = 1
    HistoryLimit = 1
    MaxDelay = 1
    MaxFaults = 0
    MaxCrashes = 0
    MayPanic = FALSE
INVARIANT NonForcedExclusive
