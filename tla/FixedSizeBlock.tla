---------------------------- MODULE FixedSizeBlock ----------------------------
(***************************************************************************)
(* FixedSizeBlockAllocator of src/src/allocators/fixed_size_block.rs: a    *)
(* list of free blocks for each size of BLOCK_SIZES, on top of the heap of *)
(* the linked_list_allocator crate.  A list is linked through the first    *)
(* word of its free blocks, which is the user's word while the block is in *)
(* use.  Addresses and sizes are in words of 8 bytes, from the heap start. *)
(*                                                                         *)
(* The fallback heap is external.  It is not taken to be right: the source *)
(* says of it "FIXME: The fallback allocator is broken (try this by        *)
(* removing the 4096 from the list)" (fixed_size_block.rs:14).  It hands   *)
(* out a range of the heap, free or not, or fails.  The properties are     *)
(* about what the lists add to it: they hold as long as every range it has *)
(* handed out was free, aligned and in the heap.  After the first that was *)
(* not, two users share words, or one shares them with a list; what the    *)
(* program does then is undefined, and the model stops.                    *)
(*                                                                         *)
(* With BLOCK_SIZES empty every request goes to the fallback heap, which   *)
(* is how the kernel is configured (src/src/allocators/mod.rs).            *)
(***************************************************************************)
EXTENDS Integers, Sequences

CONSTANTS
    BLOCK_SIZES,   \* the block sizes, ascending
    HeapSize,      \* the words of the heap
    Layouts,       \* the layouts that are asked for
    Null,          \* Option::None
    Junk           \* what a user may write to a block

Classes == 1 .. Len(BLOCK_SIZES)
Addresses == 0 .. HeapSize - 1

\* "The sizes must each be power of 2 because they are also used as the block
\* alignment": an alignment, also a power of 2, divides every size above it.
ASSUME BlockAssumption ==
    /\ HeapSize \in Nat
    /\ BLOCK_SIZES \in Seq(Nat \ {0})
    /\ \A i, j \in Classes : BLOCK_SIZES[i] = BLOCK_SIZES[j] => i = j
    /\ Layouts \subseteq [size : Nat \ {0}, align : Nat \ {0}]
    /\ \A layout \in Layouts : \A i \in Classes :
         BLOCK_SIZES[i] >= layout.align => BLOCK_SIZES[i] % layout.align = 0
    /\ Null \notin Nat /\ Junk \notin Nat /\ Null # Junk

VARIABLES
    list_heads,   \* FixedSizeBlockAllocator::list_heads
    word,         \* what the words of the heap hold: ListNode::next, or Junk
    used,         \* the ranges the fallback heap has handed out
    live,         \* the blocks the users have, with their layouts
    sound         \* history: the fallback heap has answered right so far

blockVars == <<list_heads, word, used, live, sound>>

Extent(ptr, size) == ptr .. ptr + size - 1

BlocksInit ==
    /\ list_heads = [i \in Classes |-> Null]
    /\ word = [a \in Addresses |-> Junk]
    /\ used = {}
    /\ live = {}
    /\ sound = TRUE

\* The classes whose blocks are large enough for the layout, and its class.
Suitable(layout) ==
    {i \in Classes : BLOCK_SIZES[i] >= layout.size /\ BLOCK_SIZES[i] >= layout.align}

\* list_index: the position of the first one.
ListIndex(layout) ==
    CHOOSE i \in Suitable(layout) : \A j \in Suitable(layout) : i <= j

\* The user gets the block and writes to it, to all of it and nothing else.
HandOut(ptr, layout) ==
    /\ live' = live \cup {[ptr |-> ptr, layout |-> layout]}
    /\ word' = [a \in Addresses |->
                   IF a \in Extent(ptr, layout.size) THEN Junk ELSE word[a]]

\* Where allocate_first_fit of the fallback heap may put a range, if it is right.
Fitting(size, align) ==
    {ptr \in 0 .. HeapSize - size :
        ptr % align = 0 /\ \A u \in used : Extent(ptr, size) \cap Extent(u.ptr, u.size) = {}}

FallbackAlloc(size, align, layout) ==
    \E ptr \in Addresses :
        /\ sound' = (ptr \in Fitting(size, align))
        /\ used' = used \cup {[ptr |-> ptr, size |-> size]}
        /\ HandOut(ptr, layout)
        /\ UNCHANGED list_heads

\* alloc, from the list of the class.
AllocFromList_Kept(layout) ==
    /\ Suitable(layout) # {}
    /\ LET i == ListIndex(layout)
       IN  /\ list_heads[i] # Null
           /\ HandOut(list_heads[i], layout)
    /\ UNCHANGED <<used, list_heads, sound>>

AllocFromList(layout) ==
    /\ Suitable(layout) # {}
    /\ LET i == ListIndex(layout)
       IN  /\ list_heads[i] # Null
           /\ HandOut(list_heads[i], layout)
           /\ list_heads' = [list_heads EXCEPT ![i] = word[@]]
    /\ UNCHANGED <<used, sound>>

\* alloc, when the list is empty: a new block for the class.
AllocNewBlock(layout) ==
    /\ Suitable(layout) # {}
    /\ LET i == ListIndex(layout)
       IN  /\ list_heads[i] = Null
           /\ FallbackAlloc(BLOCK_SIZES[i], BLOCK_SIZES[i], layout)

\* alloc, for a layout that is too large for every class.
AllocLarge(layout) ==
    /\ Suitable(layout) = {}
    /\ FallbackAlloc(layout.size, layout.align, layout)

\* dealloc, to the list of the class: the block is never given back.
DeallocToList_ListLost(b) ==
    /\ Suitable(b.layout) # {}
    /\ LET i == ListIndex(b.layout)
       IN  /\ word' = [word EXCEPT ![b.ptr] = Null]
           /\ list_heads' = [list_heads EXCEPT ![i] = b.ptr]
    /\ live' = live \ {b}
    /\ UNCHANGED <<used, sound>>

DeallocToList(b) ==
    /\ Suitable(b.layout) # {}
    /\ LET i == ListIndex(b.layout)
       IN  /\ word' = [word EXCEPT ![b.ptr] = list_heads[i]]
           /\ list_heads' = [list_heads EXCEPT ![i] = b.ptr]
    /\ live' = live \ {b}
    /\ UNCHANGED <<used, sound>>

\* dealloc, to the fallback heap.
DeallocLarge(b) ==
    /\ Suitable(b.layout) = {}
    /\ used' = used \ {[ptr |-> b.ptr, size |-> b.layout.size]}
    /\ live' = live \ {b}
    /\ UNCHANGED <<list_heads, word, sound>>

BlocksNext ==
    /\ sound
    /\ \/ \E layout \in Layouts :
            AllocFromList(layout) \/ AllocNewBlock(layout) \/ AllocLarge(layout)
       \/ \E b \in live : DeallocToList(b) \/ DeallocLarge(b)

BlocksSpec == BlocksInit /\ [][BlocksNext]_blockVars
-----------------------------------------------------------------------------
\* The blocks of a class that no user has.
FreeBlocks(i) ==
    {u.ptr : u \in {v \in used : v.size = BLOCK_SIZES[i]}} \ {b.ptr : b \in live}

\* No freed block is lost while the fallback heap is right: when alloc finds the
\* list of a class empty and takes a new block from the fallback heap, every
\* block it ever took for that class is in use.  So the classes together never
\* take more than their users had at one time, as the test many_boxes relies on.
FreeBlocksListed == sound => \A i \in Classes : list_heads[i] = Null => FreeBlocks(i) = {}

\* The lists of alloc and dealloc add no fault of their own: up to the first
\* range of the fallback heap that is not free, not aligned or not in the heap,
\* every block that alloc hands out overlaps none that is in use, lies in the
\* heap and is aligned.  The lists never hold a block twice, nor one that is in
\* use, although the users write to the words that link them.
Abstract == INSTANCE GlobalAlloc
ImplementsGlobalAlloc ==
    Abstract!Init /\ [][sound' => Abstract!Next \/ UNCHANGED live]_blockVars
=============================================================================
