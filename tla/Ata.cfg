SPECIFICATION FairSpec
CONSTANTS
    t1 = t1
    t2 = t2
    v0 = v0
    v1 = v1
    Task = {t1, t2}
    NoTask = NoTask
    LastSector = 1
    Entries = 1
    Values = {v0, v1}
    MaxCount = 2
    Chunk = 1
    FastDevice = TRUE
    SignalsSent = TRUE
INVARIANTS CacheCoherent SuccessIsReal ChannelOwned NoLostWakeup
PROPERTY ChannelFreed
