SPECIFICATION LogSpec
CONSTANTS
    Ids = {1, 2, 3}
    LogCapacity = 2
    PruneEvery = 2
    BufferCapacity = 1
    RingCapacity = 1
    MaxCrashes = 1
    MaxSessions = 2
INVARIANTS OffsetWasDelivered NeverSkipped
CHECK_DEADLOCK FALSE
