SPECIFICATION Spec
CONSTANTS
    c1 = c1
    c2 = c2
    CPUs <- TwoCpus
    Budget = 1
    MaxPackets = 1
    MaxRefs = 1
    MaxDisturbances = 2
    Disturbers = {"stop", "system"}
SYMMETRY Swaps
INVARIANTS PollHoldsPower AwakeWhenUsed
CHECK_DEADLOCK FALSE
