SPECIFICATION FairSpec
CONSTANTS
    Tx = {t1, t2}
    Grace = 3
    Batch = 1
    PollTimeout = 1
    StampLag = 1
    HoldLag = 1
    PollLag = 1
    LastWrite = 2
    Horizon = 6
    MaxRestarts = 1
INVARIANTS
    TypeOK
    AtMostOnce
    DedupAgreesWithCursor
    NothingPassedOver
PROPERTIES
    CursorMonotone
    ImplementsFeed
    FeedEventuallyHeard
    MemoryIsReleased
