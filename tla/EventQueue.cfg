SPECIFICATION Spec
CONSTANTS
    Threads = {"t1", "t2"}
    Ports = {"main", "aux"}
    Mixes <- MCMixes
    Rooms = {1, 2}
    MaxCalls = 5
    MaxTriggers = 3
INVARIANTS DeliveredInOrder TablesAgree
PROPERTIES CallsEnd EventsReached
CHECK_DEADLOCK FALSE
