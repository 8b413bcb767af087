SPECIFICATION Spec
CONSTANTS
    p1 = p1
    p2 = p2
    l1 = l1
    l2 = l2
    r1 = r1
    r2 = r2
    r3 = r3
    a1 = a1
    d1 = d1
    act1 = act1
    act2 = act2
    Pausers = {}
    Lifters = {}
    Raisers = {r1, r3}
    Approvers = {}
    Decliners = {d1}
    Actions = {act1, act2}
    ActionOf <- MCActionOf
    NoAction = NoAction
    None = None
CHECK_DEADLOCK FALSE
PROPERTY GathersOnlyWhileItWaits
