CONSTANTS
    u1 = u1
    u2 = u2
    Nobody = Nobody
    User = {u1, u2}
    Me = u1
    Job = {1, 2}
    Earlier <- Before
    Later = {1}
    NumChunks = 2
    MaxTasks = 3
    MaxFaults = 1
    FreshJob = {1, 2}
    Attempts = 2
SPECIFICATION Spec
INVARIANTS
    DetailAgrees
    ChunksAreTheOwners
    ReadyIsInHistory
PROPERTIES
    WorkIsNotRepeated
CHECK_DEADLOCK FALSE
