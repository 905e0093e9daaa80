CONSTANTS
    u1 = u1
    u2 = u2
    Nobody = Nobody
    User = {u1, u2}
    Me = u1
    Job = {1, 2, 3, 4, 5, 6, 7, 8}
    Earlier <- Before
    Later = {0, 1}
    NumChunks = 1
    MaxTasks = 0
    MaxFaults = 1
    PageSize = 2
    Zone = 0
    Fetch = {1, 2}
SPECIFICATION ModalSpec
INVARIANTS
    PagesMissNothing
CHECK_DEADLOCK FALSE
