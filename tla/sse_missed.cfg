CONSTANTS
    v1 = v1
    v2 = v2
    n1 = n1
    n2 = n2
    Viewer = {v1, v2}
    Notifier = {n1}
    Buffer = 1
    MaxOpens = 2
    MaxFaults = 0
SPECIFICATION FairSpec
PROPERTIES EveryStreamEnds
CHECK_DEADLOCK FALSE
