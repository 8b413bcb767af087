SPECIFICATION Spec
CONSTANTS
    Tx = {t1}
    Grace = 1
    Batch = 1
    PollTimeout = 2
    StampLag = 0
    HoldLag = 0
    PollLag = 1
    LastWrite = 1
    Horizon = 4
    MaxRestarts = 1
INVARIANT NeverReplayed
