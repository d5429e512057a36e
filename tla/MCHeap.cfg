SPECIFICATION HeapSpec
CONSTANTS
    MemoryMaps <- MCMaps
    HeapPages = 2
    PageSize = 3
    HeapSize = 6
    BLOCK_SIZES <- MCBlockSizes
    Layouts <- MCLayouts
    None = None
    Null = Null
    Junk = Junk
INVARIANTS MemoryTypeOK FramesExclusive ReadyHeapIsMapped FailsOnlyWithCause
           BlocksMapped FreeBlocksListed
PROPERTIES ImplementsGlobalAlloc
\* setup panics when it runs out of frames or finds a page in use.
CHECK_DEADLOCK FALSE
