SPECIFICATION FairSpec
CONSTANTS
    p1 = p1
    c1 = c1
    c2 = c2
    e1 = e1
    e2 = e2
    Partitions <- OnePartition
    Consumers <- TwoConsumers
    Events <- TwoEvents
    MaxLog = 3
    MaxMoves = 2
    Faults <- AllFaults
INVARIANT TypeOK
INVARIANT SkippedOnlyByFailure
PROPERTY EventuallyAttempted
CHECK_DEADLOCK FALSE
