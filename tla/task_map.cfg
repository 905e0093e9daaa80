CONSTANTS
    g1 = g1
    g2 = g2
    r1 = r1
    Nobody = Nobody
    MaxItems = 3
    Lookup = {g1, g2}
    Run = {r1}
    Retention = 0
    Lifetime = 1
    MaxTime = 2
    MaxFaults = 1
SPECIFICATION FairSpec
INVARIANTS
    CopiesHaveACause
    GetFindsItsItem
    LateLookupsSeeTheEnd
PROPERTIES
    LookupsEnd
CHECK_DEADLOCK FALSE
