SPECIFICATION Spec
CONSTANTS
    w1 = w1
    w2 = w2
    r1 = r1
    Rules = {r1}
    Workers = {w1, w2}
    Skew <- AlmostMinuteSkew
    MaxSkew = 2
    Second = 2
    Minute = 3
    MaxNow = 5
    MaxVersion = 2
    MayPanic = TRUE
CHECK_DEADLOCK FALSE
INVARIANT TypeOK
PROPERTIES LastMinuteIsEnough TriggerReachesOperator
