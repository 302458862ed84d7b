SPECIFICATION Spec
CONSTANTS
    N = 2
    MaxLen = 1
    MaxWritten = 3
    MaxFailures = 1
    MaxRefs = 1
    Strays = {2}
    Disturbers = {"exception", "reset", "sleep", "exit"}
INVARIANTS
    TypeOK
    RingIntact
    WorkHoldsPower
PROPERTIES
    InOrder
    Served
CHECK_DEADLOCK FALSE
