SPECIFICATION Spec
CONSTANTS
    Ports = {"main", "aux"}
    Surfaces = {"b0"}
    Capacity = 2
    Rates = {1}
    MaxCalls = 4
INVARIANTS RequestsKept PortsTellTheTruth
PROPERTIES FlipsAndClosesEnd
CHECK_DEADLOCK FALSE
