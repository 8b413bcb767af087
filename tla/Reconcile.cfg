SPECIFICATION FairSpec
CONSTANTS
    gm = gm
    pl = pl
    t1 = t1
    c1 = c1
    c2 = c2
    Clients = {gm, pl}
    GameMasters = {gm}
    Tokens = {t1}
    Changes = {c1, c2}
    Casts <- MCCasts
    TokenOf <- MCTokenOf
    KeyOf <- MCKeyOf
    MaxPasses = 2
    MaxFaults = 1
    None = None
CHECK_DEADLOCK FALSE
INVARIANTS
    TypeOK
    NothingLost
    AppliedIsTrue
    GameMasterStands
    ResentMoveIsNotRepeated
PROPERTY
    OfflineWorkIsAnswered
