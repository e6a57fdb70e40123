SPECIFICATION BothSpec
CONSTANTS
    a = a
    b = b
    Ops <- TwoOps
    NestedOps <- TwoOps
    GrowStep = 2
    MaxTick = 3
    t1 = t1
    t2 = t2
    t3 = t3
    FlagThreads <- ThreeThreads
    Bits = {1, 2}
    Masks <- SomeMasks
    Waits <- SomeWaits
INVARIANTS NoReuseInFlight CallbacksInOrder ShutdownIsClean WaitersCounted
PROPERTIES ImplementsCompletion CallsAndCallbacksFinish NoMissedEvent WaitsEnd
CHECK_DEADLOCK FALSE
