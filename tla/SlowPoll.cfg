SPECIFICATION Spec
CONSTANTS
    Tx = {t1, t2}
    Grace = 2
    Batch = 2
    PollTimeout = 4
    StampLag = 0
    HoldLag = 1
    PollLag = 4
    LastWrite = 2
    Horizon = 5
    MaxRestarts = 0
INVARIANT CommitWithinGraceIsNotMissed
