------------------------------ MODULE MemoryMap ------------------------------
(***************************************************************************)
(* BootInfoFrameAllocator::usable_frames of src/src/memory.rs: the frames  *)
(* of the usable regions of a memory map, in the order of the regions.  A  *)
(* region is a record of its type, the number of its first frame and the   *)
(* number after its last; the boot loader's regions are aligned to frames. *)
(***************************************************************************)
EXTENDS Integers, Sequences

Regions == [region_type : STRING, start : Nat, end : Nat]

FramesOf(region) == [i \in 1 .. region.end - region.start |-> region.start + i - 1]

\* The frames of a region that is usable, one after the other.
Filtered(region) == IF region.region_type = "Usable" THEN FramesOf(region) ELSE <<>>

UsableFrames(memory_map) ==
    LET frames[i \in 0 .. Len(memory_map)] ==
            IF i = 0 THEN <<>> ELSE frames[i - 1] \o Filtered(memory_map[i])
    IN  frames[Len(memory_map)]

\* A memory map as the boot loader makes it: usable regions do not overlap.
IsMemoryMap(memory_map) ==
    /\ memory_map \in Seq(Regions)
    /\ \A i \in 1 .. Len(memory_map) : memory_map[i].start <= memory_map[i].end
    /\ \A i, j \in 1 .. Len(memory_map) :
         /\ i # j
         /\ memory_map[i].region_type = "Usable"
         /\ memory_map[j].region_type = "Usable"
         => memory_map[i].end <= memory_map[j].start \/ memory_map[j].end <= memory_map[i].start
=============================================================================
