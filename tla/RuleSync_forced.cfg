SPECIFICATION Spec
CONSTANTS
    w1 = w1
    w2 = w2
    w3 = w3
    p1 = p1
    p2 = p2
    Keys = {"r1"}
    Processes = {p1, p2}
    Workers = {w1, w2}
    ProcessOf <- TwoProcesses
    Calls <- LiveRules
    SyncInterval = 7
    LockExpire = 7
    PingInterval = 1
    HistoryLimit = 1
    MaxDelay = 1
    MaxFaults = 1
    MaxCrashes = 1
    MayPanic = TRUE
INVARIANT NonForcedExclusive
PROPERTY UnforcedStartsAlone
