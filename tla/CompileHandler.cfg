SPECIFICATION HFairSpec
CONSTANTS
    r1 = r1  r2 = r2  r3 = r3  w1 = w1  w2 = w2
    Requests = {r1, r2, r3}
    Isolates = {w1, w2}
    IsolateOf <- TwoIsolates
    MaxPolls = 1
    Faults = {"evict", "die"}
    Coordinated = TRUE
    None = None
INVARIANT NoStalePending
PROPERTY EveryoneAnswered
CHECK_DEADLOCK FALSE
