SPECIFICATION Spec
CONSTANTS
    Resetters = {}
    FailingEntities = {"CTRL2"}
    ResumeStates = {"L1", "L2", "L3", "INIT", "INIT_LOST", "EXP", "L2_EXP", "OTHER"}
    Kinds = {"runtime", "system", "hibernate"}
    BootsUnasked = FALSE
    MaxReprobes = 2
    MaxResets = 0
    MaxQueue = 0
INVARIANT TypeOK
PROPERTIES CallbackReturns RetriesEnd
CHECK_DEADLOCK FALSE
