SPECIFICATION Spec
CONSTANTS
    Requests = {r1, r2, r3}
    MaxPolls = 2
    Faults = {}
    None = None
PROPERTY WaitersGetResult
CHECK_DEADLOCK FALSE
