------------------------------- MODULE MCHeap ---------------------------------
(***************************************************************************)
(* Model checking of Heap.  The memory maps have more and fewer usable     *)
(* frames than the heap and its page tables take, in one region or split   *)
(* by a reserved one, in ascending order or not.  The layouts ask for each *)
(* class by size and by alignment, and for more than the largest one.      *)
(***************************************************************************)
EXTENDS Heap

Region(type, start, end) == [region_type |-> type, start |-> start, end |-> end]

MCMaps == {
    <<Region("Usable", 1, 20)>>,
    <<Region("Usable", 1, 3), Region("Reserved", 3, 8), Region("Usable", 8, 16)>>,
    <<Region("Reserved", 0, 4), Region("Usable", 9, 12), Region("Usable", 4, 6)>>,
    <<Region("Reserved", 0, 4)>> }

Layout(size, align) == [size |-> size, align |-> align]

MCBlockSizes == <<1, 2>>
MCLayouts == {Layout(1, 1), Layout(1, 2), Layout(2, 1), Layout(3, 1), Layout(1, 4)}
=============================================================================
