SPECIFICATION FallbackSpec
CONSTANTS
    Requests = {r1, r2}
    Limits = {1, 2}
    Window = 1
    Grace = 1
    MaxTime = 3
    MaxGrants = 2
    None = None
    Unlimited = Unlimited
SYMMETRY Symmetry
INVARIANTS
    CountHonest
    NoFalseRefusal
PROPERTY LiveWindowKept
CHECK_DEADLOCK FALSE
