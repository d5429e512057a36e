----------------------------- MODULE GlobalAlloc -----------------------------
(***************************************************************************)
(* What code that allocates relies on: a block it is handed lies in the    *)
(* heap, is aligned as its layout asks, and shares no word with any other  *)
(* block that is in use.  A request may also fail.  Module FixedSizeBlock  *)
(* implements it as long as the heap below it does.                        *)
(***************************************************************************)
EXTENDS Integers

CONSTANTS HeapSize,   \* the words of the heap
          Layouts     \* the layouts that are asked for

VARIABLE live   \* the blocks in use, with the layouts they were asked for

Extent(ptr, size) == ptr .. ptr + size - 1

Init == live = {}

Alloc(layout) ==
    \E ptr \in 0 .. HeapSize - layout.size :
        /\ ptr % layout.align = 0
        /\ \A b \in live : Extent(ptr, layout.size) \cap Extent(b.ptr, b.layout.size) = {}
        /\ live' = live \cup {[ptr |-> ptr, layout |-> layout]}

Dealloc(b) ==
    /\ b \in live
    /\ live' = live \ {b}

Next == (\E layout \in Layouts : Alloc(layout)) \/ (\E b \in live : Dealloc(b))

Spec == Init /\ [][Next]_live
=============================================================================
