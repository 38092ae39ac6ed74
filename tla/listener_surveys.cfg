SPECIFICATION FairSpec
CONSTANTS
    u1 = u1
    u2 = u2
    s1 = s1
    s2 = s2
    o1 = o1
    o2 = o2
    None = None
    Users = {u1, u2}
    Allowed = {u1}
    Sessions = {s1, s2}
    UserOf <- BothAskTheUser
    Options = {o1}
    MultiSelect = TRUE
    Inputs <- UserInputs
    MaxUpdates = 4
    MaxCrashes = 1
    MaxFailures = 1
INVARIANTS
    HandledOnce
PROPERTIES
    KeepsSurveys
    HealthyIsServed
CHECK_DEADLOCK FALSE
