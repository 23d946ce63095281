SPECIFICATION Spec
CONSTANTS
    Requests = {r1, r2, r3}
    MaxPolls = 2
    Faults = {"evict", "lose", "die"}
    None = None
INVARIANTS
    SingleHolder
    NoOrphanedWaiter
    ReportIsFresh
CHECK_DEADLOCK FALSE
