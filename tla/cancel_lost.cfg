CONSTANTS
    w1 = w1
    w2 = w2
    k1 = k1
    k2 = k2
    Web = {w1, w2}
    Worker = {k1}
    Cancellers = {w2}
    Pollers = {}
    MaxFaults = 0
SPECIFICATION FairSpec
INVARIANT NoCancelFallsThrough
CHECK_DEADLOCK FALSE
