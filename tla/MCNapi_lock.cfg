SPECIFICATION Spec
CONSTANTS
    c1 = c1
    c2 = c2
    CPUs <- OneCpu
    Budget = 1
    MaxPackets = 1
    MaxRefs = 1
    MaxDisturbances = 0
    Disturbers = {}
INVARIANT LockCounts
CHECK_DEADLOCK FALSE
