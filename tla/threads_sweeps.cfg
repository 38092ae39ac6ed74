SPECIFICATION Spec
CONSTANTS
    a1 = a1
    a2 = a2
    t1 = t1
    t2 = t2
    k1 = k1
    Keys = {k1}
    Hub = a1
    None = None
    Agents = {a1, a2}
    ThreadIds = {t1, t2}
    AllowedPeers <- HubOnly
    Loops = {"inactivity"}
    Notices = {"closed"}
    KeyReuse = FALSE
    MaxSeq = 3
    MaxRetries = 1
    MaxFaults = 1
SYMMETRY HubSymmetric
INVARIANTS
    InactiveToASender
    OneAppendPerKey
PROPERTIES
    TerminalIsFinal
    ClosedOnlyUnderTerminalParent
CHECK_DEADLOCK FALSE
