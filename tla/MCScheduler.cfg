SPECIFICATION FairSchedSpec
CONSTANTS
    MaxTasks = 6
    BOOT = BOOT
    VOID = VOID
    None = None
    Popped = Popped
INVARIANTS SchedTypeOK TasksConserved CpuAgreesWithTask FramesAreOwn
PROPERTIES RoundRobinOrder IdleOnlyWhenAlone BoundedWait ImplementsDispatcher
