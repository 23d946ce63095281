SPECIFICATION FairSpec
CONSTANTS
    a = a
    b = b
    Sources = {a, b}
    Includes <- CircularIncludes
    Configured = {a}
    Callers = {c1, c2}
    MaxIncludeDepth = 1
    MaxRetries = 1
    MaxRecent = 1
    MaxCalls = 3
    MaxFaults = 1
    None = None
INVARIANTS
    OnceWhenAlone
    CachedIsWhole
    CacheMatchesSnapshot
    HealthIsHistory
    NeverOvercounted
PROPERTY
    EveryCallEnds
CHECK_DEADLOCK FALSE
