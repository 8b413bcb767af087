SPECIFICATION Spec
CONSTANTS
    h1 = h1
    h2 = h2
    h3 = h3
    procA = procA
    procB = procB
    Handlers = {h1, h2, h3}
    Processes = {procA, procB}
    ProcessOf <- MCProcessOf
    MarkEvery = 4
    LiveWithin = 6
    BeatEvery = 1
    WriteLag = 1
    MaxFails = 1
    Horizon = 16
CHECK_DEADLOCK FALSE
INVARIANTS
    TypeOK
    MarkGapBounded
    QuietWorldIsNotLive
PROPERTY OneWritePerThrottle
