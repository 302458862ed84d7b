SPECIFICATION Spec
CONSTANTS
    Resetters = {r1}
    MaxResets = 1
    MaxExceptions = 0
    BootStages = {"LINUX", "LK_NORMAL", "LK_DL", "LK_DUMP"}
    Bursts <- JointInts
    MayExit = TRUE
INVARIANTS TypeOK ReadyBroadcast MdReadyUsable WaiterNotForgotten
CHECK_DEADLOCK FALSE
