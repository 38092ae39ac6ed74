SPECIFICATION FairSpec
CONSTANTS
    a1 = a1
    a2 = a2
    t1 = t1
    t2 = t2
    t3 = t3
    Keys = {}
    Hub = a1
    None = None
    Agents = {a1, a2}
    ThreadIds = {t1, t2, t3}
    AllowedPeers <- HubOnly
    Loops = {}
    Notices = {"in_progress", "done", "closed"}
    KeyReuse = FALSE
    MaxSeq = 2
    MaxRetries = 0
    MaxFaults = 0
PROPERTIES
    CascadeCompletes
CHECK_DEADLOCK FALSE
