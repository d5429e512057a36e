--------------------------------- MODULE Heap ---------------------------------
(***************************************************************************)
(* The heap from boot to use: memory::setup maps its pages (module Memory) *)
(* and initialises the allocator with the whole range, HEAP_START to       *)
(* HEAP_START + HEAP_SIZE; from then on blocks are allocated and freed     *)
(* (module FixedSizeBlock).  Before, the allocator is empty and every      *)
(* request fails.                                                          *)
(***************************************************************************)
EXTENDS Memory, FixedSizeBlock

CONSTANT PageSize   \* the words of a page

ASSUME HeapAssumption == PageSize \in Nat \ {0} /\ HeapSize = HeapPages * PageSize

HeapInit == Init /\ BlocksInit

\* memory::setup is still running, or has just handed the heap over.
SetupStep == Next /\ UNCHANGED blockVars

UseHeap ==
    /\ heap = "ready"
    /\ BlocksNext
    /\ UNCHANGED vars

HeapNext == SetupStep \/ UseHeap

HeapSpec == HeapInit /\ [][HeapNext]_<<vars, blockVars>>
-----------------------------------------------------------------------------
\* As long as the fallback heap is right, whoever writes to a block it was given
\* touches a mapped page, and one that no page table lies in: init_heap maps all
\* the range it then hands to the allocator, and the last block ends within it.
BlocksMapped ==
    sound => \A b \in live : \A a \in Extent(b.ptr, b.layout.size) :
        entry[a \div PageSize] \notin tables \cup {None}
=============================================================================
