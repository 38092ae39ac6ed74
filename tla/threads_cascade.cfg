SPECIFICATION Spec
CONSTANTS
    a1 = a1
    a2 = a2
    t1 = t1
    t2 = t2
    t3 = t3
    a3 = a3
    Hub = a1
    None = None
    Agents = {a1, a2, a3}
    ThreadIds = {t1, t2, t3}
    Keys = {}
    AllowedPeers <- HubPeers
    Loops = {}
    Notices = {"done", "closed"}
    KeyReuse = FALSE
    MaxSeq = 2
    MaxRetries = 0
    MaxFaults = 0
SYMMETRY HubSymmetric
INVARIANTS
    CascadeCoversChildren
    OneLiveThreadPerPair
    StopOnlyWhenClosing
CHECK_DEADLOCK FALSE
