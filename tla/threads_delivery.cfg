SPECIFICATION Spec
CONSTANTS
    a1 = a1
    a2 = a2
    t1 = t1
    t2 = t2
    Keys = {}
    Hub = a1
    None = None
    Agents = {a1, a2}
    ThreadIds = {t1, t2}
    AllowedPeers <- EveryPeer
    Loops = {"delivery"}
    Notices = {"closed"}
    KeyReuse = FALSE
    MaxSeq = 2
    MaxRetries = 0
    MaxFaults = 1
SYMMETRY Symmetric
INVARIANTS
    NoEventLost
    TerminalHasNoPending
PROPERTIES
    KeepsPromise
CHECK_DEADLOCK FALSE
