SPECIFICATION FairSpec
CONSTANTS
    a1 = a1
    a2 = a2
    a3 = a3
    u1 = u1
    u2 = u2
    chat1 = chat1
    Agents = {a1, a2, a3}
    Contacts = {a1, a2}
    Accounts = {u1, u2}
    None = None
    Wanted <- Moving
    Inputs <- OneChat
    RecentLimit = 2
    QueueLimit = 2
    MaxUpdates = 3
    MaxTroubles = 3
INVARIANTS
    ForwardedInOrder
PROPERTIES
    RecentIsForwarded
CHECK_DEADLOCK FALSE
