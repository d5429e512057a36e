SPECIFICATION FairKernelSpec
CONSTANTS
    MaxTasks = 2
    BOOT = BOOT
    VOID = VOID
    None = None
    Popped = Popped
    Kinds = {"write", "badfd", "nosys", "fault", "panic", "print", "spin"}
INVARIANTS KernelTypeOK OnlyBootBlocks TickComing InterruptsComeBack
           HandlersRunMasked NestingBounded PicServiceEnds
PROPERTIES TasksRun WedgedForGood
\* A panic or a lock that kernel_main took with it stops the machine.
CHECK_DEADLOCK FALSE
