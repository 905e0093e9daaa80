CONSTANTS
    u1 = u1
    u2 = u2
    t1 = t1
    t2 = t2
    Nobody = Nobody
    User = {u1, u2}
    Tab = {t1, t2}
    Lifetime = 1
    MaxTime = 2
    MaxTokens = 3
    MaxFaults = 1
SYMMETRY Same
SPECIFICATION Spec
INVARIANTS
    OneDeadline
    SessionSurvives
    JarIsLive
    SafeOneAtATime
    LastWordCounts
CHECK_DEADLOCK FALSE
