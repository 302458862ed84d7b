SPECIFICATION Spec
CONSTANTS
    Resetters = {"rgu", "sysfs"}
    FailingEntities = {}
    ResumeStates = {"L1", "L3"}
    Kinds = {"system"}
    BootsUnasked = TRUE
    MaxReprobes = 0
    MaxResets = 1
    MaxQueue = 0
INVARIANTS InterruptsBack EntitiesMatch BootUndisturbed
CHECK_DEADLOCK FALSE
