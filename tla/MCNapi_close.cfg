SPECIFICATION Spec
CONSTANTS
    c1 = c1
    c2 = c2
    CPUs <- OneCpu
    Budget = 1
    MaxPackets = 2
    MaxRefs = 1
    MaxDisturbances = 1
    Disturbers = {"close", "bad"}
INVARIANT TypeOK
PROPERTY RxServed
CHECK_DEADLOCK FALSE
