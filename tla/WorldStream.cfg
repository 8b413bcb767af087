SPECIFICATION FairSpec
CONSTANTS
    s1 = s1
    s2 = s2
    Ids = {1, 2}
    Rolls = {2}
    Consumers = {s1}
    Capacity = 1
    CatchUpLimit = 1
    Times = {1, 2}
    MaxDrops = 1
INVARIANTS
    TypeOK
    SecretsStayHidden
    ClearedRollsStayHidden
    CaughtUpIsComplete
PROPERTIES
    StreamsEnd
