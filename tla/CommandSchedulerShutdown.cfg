SPECIFICATION FairSpec
CONSTANTS
    a = a
    b = b
    Ops <- TwoOps
    NestedOps = {}
    GrowStep = 2
    MaxTick = 2
PROPERTIES ShutdownFinishes
CHECK_DEADLOCK FALSE
