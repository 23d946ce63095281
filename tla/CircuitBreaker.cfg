SPECIFICATION FairSpec
CONSTANTS
    Callers = {c1, c2, c3}
    Threshold = 2
    Timeout = 2
    MaxFailures = 3
    NoFailure = NoFailure
INVARIANTS
    CountMatchesState
    ProbeOutstanding
    RecoveryWaited
PROPERTY RecoversWhenHealthy
