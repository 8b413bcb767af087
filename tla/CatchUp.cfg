SPECIFICATION Spec
CONSTANTS
    s1 = s1
    s2 = s2
    Ids = {1, 2}
    Rolls = {}
    Consumers = {s1}
    Capacity = 2
    CatchUpLimit = 2
    Times = {1}
    MaxDrops = 1
INVARIANT
    DropsOnlyWhatItHandled
