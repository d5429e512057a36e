-------------------------------- MODULE Memory --------------------------------
(***************************************************************************)
(* memory::setup: BootInfoFrameAllocator (src/src/memory.rs) and init_heap *)
(* (src/src/allocators/mod.rs), which maps the pages of the heap one by    *)
(* one.  map_to of the x86_64 crate is external: it takes a frame from the *)
(* same allocator for each page table that is missing, up to one for each  *)
(* level below the top, before it writes the entry of the page; and it     *)
(* fails with PageAlreadyMapped or ParentEntryHugePage if the tables the   *)
(* boot loader left have the page, or a huge page over it, in use already. *)
(***************************************************************************)
EXTENDS MemoryMap

CONSTANTS
    MemoryMaps,   \* the memory maps the boot loader may pass
    HeapPages,    \* the number of pages of the heap
    None          \* Option::None

ASSUME MemoryAssumption ==
    /\ HeapPages \in Nat
    /\ \A memory_map \in MemoryMaps : IsMemoryMap(memory_map)
    /\ None \notin Nat

\* What usable_frames may return.
FrameLists == {UsableFrames(memory_map) : memory_map \in MemoryMaps}

TableLevels == 3
Pages == 0 .. HeapPages - 1

VARIABLES
    usable,   \* what usable_frames iterates over
    blocked,  \* the pages that the boot loader's page tables have in use
    next,     \* BootInfoFrameAllocator::next
    page,     \* the page of the loop in init_heap; the pages below it are mapped
    frame,    \* the frame taken for that page, or None
    missing,  \* the page tables map_to has still to create for it
    tables,   \* the frames that hold page tables made by map_to
    entry,    \* the frame each page is mapped to, or None
    heap      \* "empty", "ready" after ALLOCATOR.init, or "failed"

vars == <<usable, blocked, next, page, frame, missing, tables, entry, heap>>

Init ==
    /\ usable \in FrameLists
    /\ blocked \in SUBSET Pages
    /\ next = 0 /\ page = 0
    /\ frame = None /\ missing = 0
    /\ tables = {}
    /\ entry = [p \in Pages |-> None]
    /\ heap = "empty"

\* allocate_frame: nth(next), counted from 0, and next grows even when there
\* is no such frame.
Nth_OffByOne(n) == IF n < Len(usable) THEN usable[IF n = 0 THEN 1 ELSE n] ELSE None
Nth_LastLost(n) == IF n + 1 < Len(usable) THEN usable[n + 1] ELSE None
Nth(n) == IF n < Len(usable) THEN usable[n + 1] ELSE None

\* The tables that lead to a page are missing from some level on; above a page
\* that is in use already none is.
Missing == IF page \in blocked THEN {0} ELSE 0 .. TableLevels

\* The frame for the next page; None ends init_heap with an error, and setup
\* panics.
TakeFrame_OnePageMore ==
    /\ heap = "empty" /\ page <= HeapPages /\ frame = None
    /\ next' = next + 1
    /\ frame' = Nth(next)
    /\ heap' = IF Nth(next) = None THEN "failed" ELSE heap
    /\ missing' \in Missing
    /\ UNCHANGED <<usable, blocked, page, tables, entry>>

TakeFrame ==
    /\ heap = "empty" /\ page < HeapPages /\ frame = None
    /\ next' = next + 1
    /\ frame' = Nth(next)
    /\ heap' = IF Nth(next) = None THEN "failed" ELSE heap
    /\ missing' \in Missing
    /\ UNCHANGED <<usable, blocked, page, tables, entry>>

\* map_to creates a page table.
CreateTable ==
    /\ heap = "empty" /\ frame # None /\ missing > 0
    /\ next' = next + 1
    /\ heap' = IF Nth(next) = None THEN "failed" ELSE heap
    /\ tables' = tables \cup ({Nth(next)} \ {None})
    /\ missing' = missing - 1
    /\ UNCHANGED <<usable, blocked, page, frame, entry>>

\* map_to writes the entry of the page, and the loop goes on.
MapPage_Replaces ==
    /\ heap = "empty" /\ frame # None /\ missing = 0
    /\ entry' = [entry EXCEPT ![page] = frame]
    /\ page' = page + 1
    /\ frame' = None
    /\ UNCHANGED <<usable, blocked, next, missing, tables, heap>>

MapPage ==
    /\ heap = "empty" /\ frame # None /\ missing = 0 /\ page \notin blocked
    /\ entry' = [entry EXCEPT ![page] = frame]
    /\ page' = page + 1
    /\ frame' = None
    /\ UNCHANGED <<usable, blocked, next, missing, tables, heap>>

\* map_to fails, and so does setup.
MapFails ==
    /\ heap = "empty" /\ frame # None /\ missing = 0 /\ page \in blocked
    /\ heap' = "failed"
    /\ UNCHANGED <<usable, blocked, next, page, frame, missing, tables, entry>>

\* ALLOCATOR.lock().init after the last page.
InitAllocator_Early ==
    /\ heap = "empty" /\ page + 1 >= HeapPages /\ frame = None
    /\ heap' = "ready"
    /\ UNCHANGED <<usable, blocked, next, page, frame, missing, tables, entry>>

InitAllocator ==
    /\ heap = "empty" /\ page = HeapPages
    /\ heap' = "ready"
    /\ UNCHANGED <<usable, blocked, next, page, frame, missing, tables, entry>>

Next == TakeFrame \/ CreateTable \/ MapPage \/ MapFails \/ InitAllocator

Spec == Init /\ [][Next]_vars
-----------------------------------------------------------------------------
Frames == {usable[i] : i \in 1 .. Len(usable)}

MemoryTypeOK ==
    /\ usable \in FrameLists
    /\ blocked \subseteq Pages
    /\ next \in Nat
    /\ page \in 0 .. HeapPages
    /\ frame \in Nat \cup {None}
    /\ missing \in 0 .. TableLevels
    /\ tables \subseteq Nat
    /\ entry \in [Pages -> Nat \cup {None}]
    /\ heap \in {"empty", "ready", "failed"}

\* No frame is used twice: the pages of the heap have frames of their own,
\* none of them holds a page table, and all are usable ones.  The two uses
\* draw from the allocator in turns, inside one call of map_to.
FramesExclusive ==
    /\ \A p, q \in Pages : entry[p] # None /\ entry[p] = entry[q] => p = q
    /\ \A p \in Pages : entry[p] # None => entry[p] \in Frames \ (tables \cup {frame})
    /\ tables \subseteq Frames \ {frame}

\* The heap is handed to the allocator only when every page of it is mapped, and
\* none of them instead of something the boot loader had mapped there.
ReadyHeapIsMapped == heap = "ready" => \A p \in Pages : entry[p] # None /\ p \notin blocked

\* The frames that hold a page of the heap or a page table, or are about to.
InUse == ({entry[p] : p \in Pages} \cup tables \cup {frame}) \ {None}

\* setup panics only if the boot loader has a page of the heap in use, or if
\* there really is no memory left: every usable frame of the memory map has
\* become part of the heap or a page table.  allocate_frame skips none, neither
\* between the regions nor when map_to and init_heap take turns.
FailsOnlyWithCause == heap = "failed" => page \in blocked \/ InUse = Frames
=============================================================================
