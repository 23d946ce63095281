SPECIFICATION Spec
CONSTANTS
    Limits = {1, 2, 3}
    Window = 2
    AlarmDelay = 1
    MaxTime = 7
    MayCrash = FALSE
    None = None
INVARIANTS
    MemoryOnDisk
    WindowHasAlarm
PROPERTY ImplementsFixedWindow
CHECK_DEADLOCK FALSE
