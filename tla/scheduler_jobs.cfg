SPECIFICATION FairSpec
CONSTANTS
    b1 = b1
    d1 = d1
    d2 = d2
    None = None
    Jobs = {b1, d1, d2}
    Name <- NameOf
    Builtin = {b1}
    Dates = {d1, d2}
    AutoDelete = {d1}
    Coalesced = {d1}
    Unparsable = {d2}
    ListLimit = 1
    MaxFires = 2
    MaxEvents = 3
INVARIANTS
    OnceIsOnce
    RunsAreCounted
    RunsWereEnabled
PROPERTIES
    EnabledIsScheduled
CHECK_DEADLOCK FALSE
