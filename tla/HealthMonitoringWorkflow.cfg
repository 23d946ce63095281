SPECIFICATION Spec
CONSTANTS
    Runs = {1, 2, 3}
    a = a  b = b
    SourceNames = {a, b}
    SourcesOf <- Lists
    MaxSources = 2
    Silent = {}
    FailureThreshold = 3
    MaxHistory = 2
    MaxBusy = 2
    MaxEvents = 8
    MaxFaults = 2
    None = None
INVARIANTS
    AlertEarned
    QuietRecords
    EventsKept
    EventsOnce
    EndIsLogged
CHECK_DEADLOCK FALSE
