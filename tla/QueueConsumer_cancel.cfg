SPECIFICATION Spec
CONSTANTS
    m1 = m1  i1 = i1  i2 = i2  i3 = i3
    Messages = {m1}
    Items = {i1, i2, i3}
    ItemsOf <- OneBatch
    PreFetched = {i3}
    Cancellable = {m1}
    ChunkSize = 2
    MaxDeliveries = 2
    None = None
PROPERTY CancelledNotCompiled
CHECK_DEADLOCK FALSE
