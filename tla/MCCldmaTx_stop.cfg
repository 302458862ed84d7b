SPECIFICATION Spec
CONSTANTS
    s1 = s1
    s2 = s2
    Senders <- Pair
    N = 2
    MaxSends = 2
    Disturbers = {"exception", "stop", "sleep", "reset"}
SYMMETRY SenderSymmetry
INVARIANTS
    TypeOK
    RingIntact
    OwnedAreKept
    InterruptLive
    WorkHoldsPower
PROPERTY
    InOrder
CHECK_DEADLOCK FALSE
