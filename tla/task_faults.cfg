\* One web process and two workers, with one failed call, crash or loss.
CONSTANTS
    w1 = w1
    w2 = w2
    k1 = k1
    k2 = k2
    Web = {w1}
    Worker = {k1, k2}
    Cancellers = {w1}
    Pollers = {}
    MaxFaults = 1
SPECIFICATION FairSpec
INVARIANTS
    DoneIsDurable
PROPERTIES
    ImplementsChunk
    EventuallySettled
CHECK_DEADLOCK FALSE
