SPECIFICATION Spec
CONSTANTS
    N = 4
    Threshold = 2
    M = 2
    PitThreshold = 1
    MaxStops = 1
    MaxFailures = 1
    Disturbers = {"stop", "sleep", "bad", "nomem", "timeout"}
INVARIANTS TypeOK BufferIntact
PROPERTIES Supplied
CHECK_DEADLOCK FALSE
