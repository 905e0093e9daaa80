CONSTANTS
    v1 = v1
    v2 = v2
    n1 = n1
    n2 = n2
    Viewer = {v1, v2}
    Notifier = {n1, n2}
    Buffer = 1
    MaxOpens = 2
    MaxFaults = 1
SPECIFICATION FairSpec
INVARIANTS
    OneSubscription
    NoOldNews
    LatecomersSeeTheEnd
PROPERTIES
    EndComesThrough
CHECK_DEADLOCK FALSE
