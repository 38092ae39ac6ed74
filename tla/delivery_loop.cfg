SPECIFICATION FairSpec
CONSTANTS
    a1 = a1
    a2 = a2
    e1 = e1
    e2 = e2
    Agents = {a1, a2}
    Runtimes = {a1}
    Events = {e1, e2}
    To <- OneForA1
    Limit = 1
    RetryBase = 1
    RetryMax = 2
    MaxExponent = 2
    Lease = 2
    HeartbeatEvery = 1
    Latency = 1
    MaxFaults = 2
INVARIANTS
    TypeOK
    BeatingIsOnline
    RedeliveryIsBounded
PROPERTIES
    KeepsPromise
    OnlineIsServed
CHECK_DEADLOCK FALSE
