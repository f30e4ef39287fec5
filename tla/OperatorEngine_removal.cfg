SPECIFICATION Spec
CONSTANTS
    w1 = w1
    w2 = w2
    r1 = r1
    Rules = {r1}
    Workers = {w1}
    Skew <- NoSkew
    MaxSkew = 0
    Second = 2
    Minute = 4
    MaxNow = 6
    MaxVersion = 2
    MayPanic = FALSE
CHECK_DEADLOCK FALSE
PROPERTY RemovalReachesOperator
