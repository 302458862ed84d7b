SPECIFICATION Spec
CONSTANTS
    Resetters = {r1}
    MaxResets = 0
    MaxExceptions = 0
    BootStages = {"LINUX"}
    Bursts <- JointInts
    MayExit = TRUE
PROPERTY ExitEnds
CHECK_DEADLOCK FALSE
