\* Three articles of one or two domains, two at a time from one.
SPECIFICATION FairSpec
CONSTANTS
    Records = {r1, r2, r3}
    Domains = {d1, d2}
    PerDomain = 2
INVARIANTS
    NoneLeftBehind
    ReturnedTaskIsStored
PROPERTIES
    CallEnds
CHECK_DEADLOCK FALSE
