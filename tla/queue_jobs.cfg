CONSTANTS
    t1 = t1
    t2 = t2
    t3 = t3
    k1 = k1
    k2 = k2
    NoJob = NoJob
    Task = {t1, t2}
    Worker = {k1, k2}
    Slots = 1
    MaxLen = 1
    MaxFaults = 1
    MaxRestarts = 1
SPECIFICATION FairSpec
INVARIANTS
    NoJobVanishes
    NoSecondRun
PROPERTIES
    NoLossBelowTheCap
    EveryJobStarts
CHECK_DEADLOCK FALSE
