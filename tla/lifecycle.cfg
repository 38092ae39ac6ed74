SPECIFICATION FairSpec
CONSTANTS
    None = None
    Slugs = {1, 2}
    AutoStart = {1, 2}
    Asked = {1}
    MaxQueue = 2
    MaxEdits = 1
    MaxCrashes = 1
INVARIANTS
    StaysStoppable
    AnswersAreTrue
PROPERTIES
    NoRollback
    AutoStartCovers
