SPECIFICATION Spec
CONSTANTS
    gm = gm
    pl = pl
    t1 = t1
    c1 = c1
    c2 = c2
    Clients = {pl}
    GameMasters = {}
    Tokens = {t1}
    Changes = {c1, c2}
    Casts <- MCCasts
    TokenOf <- MCTokenOf
    KeyOf <- MCKeyOf
    MaxPasses = 2
    MaxFaults = 0
    None = None
CHECK_DEADLOCK FALSE
INVARIANT
    OwnWorkStands
