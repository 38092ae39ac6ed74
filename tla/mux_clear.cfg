SPECIFICATION FairSpec
CONSTANTS
    e1 = e1
    e2 = e2
    e3 = e3
    th1 = th1
    th2 = th2
    p1 = p1
    p2 = p2
    p3 = p3
    None = None
    Events = {e1, e2, e3}
    Threads = {th1, th2}
    ThreadOf <- TwoThreads
    ParentOf <- RootThreads
    Actionable = {e1, e3}
    Interrupting = {e3}
    Processors = {p1, p2, p3}
    MaxAttempts = 2
    MaxBatch = 2
    MaxDeliveries = 3
    MaxClears = 2
    MaxRestarts = 0
    Stops = {"all"}
INVARIANTS
    DispatchInContext
PROPERTIES
    HandledIsSettled
CHECK_DEADLOCK FALSE
