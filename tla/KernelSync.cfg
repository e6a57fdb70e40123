SPECIFICATION BothSpec
CONSTANTS
    high1 = high1
    high2 = high2
    low = low
    Threads <- ThreeThreads
    FifoOrder = FALSE
    InitCount = 1
    MaxCount = 2
    Priority <- ThreePriorities
    Needs = {1, 2}
    Counts <- SomeCounts
    Timeouts = {"none", "finite"}
    Callers = {"c1", "c2"}
    Slots = {1, 2}
    MaxStacks = 1
    MaxLives = 3
INVARIANTS PermitsReachWaiters ThreadsExclusive
PROPERTIES NoOvertaking WaitsEnd ThreadsAreFreed
CHECK_DEADLOCK FALSE
