SPECIFICATION FairSpec
CONSTANTS
    MaxPendingWrites = 2
    BurstLimit = 2
    Window = 3
    MaxData = 8
    WriteSizes = {1, 3}
    MaxWrites = 4
    MaxReads = 2
    MaxQueued = 2
INVARIANTS ClosedToldOnce ReadsAnswered
PROPERTY QueueDrains
CHECK_DEADLOCK FALSE
