SPECIFICATION Spec
CONSTANTS
    N = 5
    Largest = 3
    WakeAbove = 3
    Burst = 2
    MaxPackets = 2
    DrbCnt <- Halves
    MaxStops = 1
    Disturbers = {"runtime", "system", "timeout", "nomem"}
INVARIANTS TypeOK WindowIntact BudgetMatches DoneServed
PROPERTIES InOrder Released
CHECK_DEADLOCK FALSE
