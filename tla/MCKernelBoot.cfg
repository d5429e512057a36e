SPECIFICATION KernelSpec
CONSTANTS
    MaxTasks = 2
    BOOT = BOOT
    VOID = VOID
    None = None
    Popped = Popped
    Kinds = {"write", "spin"}
INVARIANT BootNotPreempted
CHECK_DEADLOCK FALSE
