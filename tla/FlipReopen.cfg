SPECIFICATION Spec
CONSTANTS
    Ports = {"main"}
    Surfaces = {"b0"}
    Capacity = 2
    Rates = {1}
    MaxCalls = 4
INVARIANT PortsAreReset
CHECK_DEADLOCK FALSE
