SPECIFICATION FairSpec
CONSTANTS
    e1 = e1
    e2 = e2
    e3 = e3
    t1 = t1
    t2 = t2
    None = None
    Events = {e1, e2, e3}
    Threads = {t1, t2}
    ThreadOf <- TwoThreads
    Limit = 2
    MaxPosts = 5
    MaxClears = 2
    MaxFaults = 1
INVARIANTS
    OneContextPerSession
PROPERTIES
    SlotIsKept
    NoRepeat
    LocksAreReleased
CHECK_DEADLOCK FALSE
