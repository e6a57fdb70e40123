SPECIFICATION FairFlagSpec
CONSTANTS
    t1 = t1
    t2 = t2
    t3 = t3
    FlagThreads <- ThreeThreads
    Bits = {1, 2}
    Masks <- NoMask
    Waits <- OneWait
PROPERTIES CancelReleases
CHECK_DEADLOCK FALSE
