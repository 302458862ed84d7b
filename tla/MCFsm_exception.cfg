SPECIFICATION Spec
CONSTANTS
    Resetters = {r1}
    MaxResets = 0
    MaxExceptions = 1
    BootStages = {"LINUX"}
    Bursts <- JointInts
    MayExit = TRUE
PROPERTIES ExceptionHandled FsmSettles ExitJoins
CHECK_DEADLOCK FALSE
