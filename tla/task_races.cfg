\* Two web processes and a worker, no failure: one task submitted at one of
\* them, both of them serving a cancel, the second one polled meanwhile.
CONSTANTS
    w1 = w1
    w2 = w2
    k1 = k1
    k2 = k2
    Web = {w1, w2}
    Worker = {k1}
    Cancellers = {w1, w2}
    Pollers = {w2}
    MaxFaults = 0
SPECIFICATION Spec
INVARIANTS
    DoneIsInHistory
    EndIsVisible
    StoresAgree
    OnlyTheGapsLoseCancel
CHECK_DEADLOCK FALSE
