SPECIFICATION UnhurriedKernelSpec
CONSTANTS
    MaxTasks = 2
    BOOT = BOOT
    VOID = VOID
    None = None
    Popped = Popped
    Kinds = {"write", "spin"}
PROPERTY CalibrationEnds
CHECK_DEADLOCK FALSE
