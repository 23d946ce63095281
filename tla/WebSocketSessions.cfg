SPECIFICATION FairSpec
CONSTANTS
    Ids = {a, b}
    MaxJobs = 3
    MaxConcurrent = 1
    Timeout = 1
    None = None
INVARIANTS
    TypeOK
    OneVerdict
    RunningIsListed
PROPERTIES
    EveryJobEnds
    EntryLeaves
CHECK_DEADLOCK FALSE
