CONSTANTS
    new = new
    r1 = r1
    r2 = r2
    r3 = r3
    p2 = p2
    p1 = p1
    a1 = a1
    a2 = a2
    a3 = a3
    Nobody = Nobody
    User = {new}
    Veteran = {}
    Request = {r1, r2, r3}
    Proc = {p1, p2}
    At <- MCAt
    Address = {a1, a2, a3}
    Proxies = {{a2, a3}}
    MaxSlots = 1
    Limit = 1
    Window = 2
    Skew = 1
    MaxTime = 2
    MaxCalls = 3
    MaxRestarts = 1
SPECIFICATION FairSpec
INVARIANTS
    EveryWindowHolds
    RefusedOnlyWhenFull
    ActiveIsServed
    ForgedHopsAreIgnored
PROPERTIES
    WaitersGetThrough
CHECK_DEADLOCK FALSE
