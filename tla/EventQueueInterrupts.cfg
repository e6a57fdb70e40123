SPECIFICATION Spec
CONSTANTS
    Threads = {"t1"}
    Ports = {}
    Mixes <- InterruptMix
    Rooms = {1}
    MaxCalls = 3
    MaxTriggers = 1
INVARIANTS RegisteredEventsReached
CHECK_DEADLOCK FALSE
