------------------------------ MODULE HeapProofs ----------------------------
(***************************************************************************)
(* Proofs about the frames and the pages of the heap (Memory), the         *)
(* allocator of its blocks (FixedSizeBlock) and the two together (Heap),   *)
(* for every memory map without overlaps, every size of the heap, every    *)
(* list of block sizes and every set of layouts that satisfy the           *)
(* assumptions of the modules.                                             *)
(*                                                                         *)
(* Blocks.  That the live blocks do not overlap is not inductive: it says  *)
(* nothing of the blocks alloc takes from a list.  BlocksInv adds that     *)
(* every block is a range of the fallback heap of its own, and that the    *)
(* words of the free blocks of a class form a list: each leads to another  *)
(* free block of the class, no two to the same one, and none to the head.  *)
(* So the block behind the head is free, and no other block leads to it.   *)
(* That no free block is lost needs more: the lists could hold a cycle     *)
(* apart from the head.  AllReached gives every free block a distance from *)
(* the head of its list; a list that is empty then has no free blocks.     *)
(*                                                                         *)
(* Frames.  FramesExclusive does not say that the next frame of the        *)
(* allocator is a fresh one.  The strengthening says that every frame in   *)
(* use is one of the first `next' of the list; as the list has no          *)
(* duplicates, the frame after them is in use nowhere.  That it has none   *)
(* is proved of usable_frames, region by region.                           *)
(*                                                                         *)
(* Heap.  A behaviour of Heap is one of each, so the invariants of both    *)
(* hold in it, and what BlocksMapped needs besides is that no block is in  *)
(* use before the heap is ready.                                           *)
(***************************************************************************)
EXTENDS Heap, TLAPS, WellFoundedInduction
-----------------------------------------------------------------------------
(* The blocks of the allocator.                                            *)

Block(a, size) == [ptr |-> a, size |-> size]

\* What the allocator really sets aside for a layout.
BlockSize(layout) ==
    IF Suitable(layout) = {} THEN layout.size ELSE BLOCK_SIZES[ListIndex(layout)]

BlockAlign(layout) ==
    IF Suitable(layout) = {} THEN layout.align ELSE BLOCK_SIZES[ListIndex(layout)]

\* The block of class i at address a has been freed: the fallback heap has
\* handed it out (it is in U), and it is not in use (not in L).
Free(U, L, i, a) == Block(a, BLOCK_SIZES[i]) \in U /\ \A b \in L : b.ptr # a

BlocksTypeOK ==
    /\ list_heads \in [Classes -> Addresses \cup {Null}]
    /\ word \in [Addresses -> Addresses \cup {Null, Junk}]
    /\ used \subseteq [ptr : Nat, size : Nat \ {0}]
    /\ live \subseteq [ptr : Nat, layout : Layouts]

Apart(u, v) == u.ptr + u.size <= v.ptr \/ v.ptr + v.size <= u.ptr

\* The ranges of the fallback heap, and the blocks that are in use.
RangesOK ==
    /\ \A u \in used : u.ptr + u.size <= HeapSize
    /\ \A u, v \in used : u = v \/ Apart(u, v)
    /\ \A b \in live : Block(b.ptr, BlockSize(b.layout)) \in used
    /\ \A b, c \in live : b.ptr = c.ptr => b = c
    /\ \A b \in live : b.ptr % BlockAlign(b.layout) = 0

\* The lists.
ListsOK ==
    /\ \A i \in Classes : list_heads[i] # Null => Free(used, live, i, list_heads[i])
    /\ \A i \in Classes, a \in Addresses : Free(used, live, i, a) =>
         /\ a % BLOCK_SIZES[i] = 0
         /\ word[a] # Null =>
              Free(used, live, i, word[a]) /\ word[a] # list_heads[i] /\ word[a] # Junk
    /\ \A i \in Classes : \A a, b \in Addresses :
         Free(used, live, i, a) /\ Free(used, live, i, b) /\ word[a] = word[b]
         => word[a] = Null \/ a = b

\* Every free block of a class can be reached from the head of its list: it is
\* the head, or a free block of the class leads to it that is nearer to the
\* head, by the distances d.
Reached(d) ==
    \A i \in Classes, a \in Addresses : Free(used, live, i, a) =>
        \/ a = list_heads[i]
        \/ \E b \in Addresses : Free(used, live, i, b) /\ word[b] = a /\ d[b] < d[a]

AllReached == \E d \in [Addresses -> Nat] : Reached(d)

BlocksInv == BlocksTypeOK /\ RangesOK /\ ListsOK /\ AllReached
-----------------------------------------------------------------------------
\* What divides the divisor of an address divides the address.
LEMMA DivisorOfDivisor ==
    ASSUME NEW a \in Nat, NEW m \in Nat \ {0}, NEW d \in Nat \ {0}, a % m = 0, m % d = 0
    PROVE  a % d = 0
  <1> DEFINE k == a \div m
             n == m \div d
  <1>1. k \in Nat /\ n \in Nat /\ a = m * k /\ m = d * n
    BY SMT
  <1> HIDE DEF k, n
  <1>2. \A x, y \in Int : (d * x) * y = d * (x * y) /\ x * y \in Int
    BY SMT
  <1>3. \A q \in Int : (d * q) % d = 0
    BY SMT
  <1> QED
    BY <1>1, <1>2, <1>3

\* Disjoint ranges of addresses lie one after the other.
LEMMA DisjointExtents ==
    ASSUME NEW p \in Nat, NEW s \in Nat \ {0}, NEW q \in Nat, NEW t \in Nat \ {0}
    PROVE  Extent(p, s) \cap Extent(q, t) = {} <=> p + s <= q \/ q + t <= p
  <1>1. ASSUME Extent(p, s) \cap Extent(q, t) = {} PROVE p + s <= q \/ q + t <= p
    <2>1. p \in Extent(p, s) /\ q \in Extent(q, t)
      BY DEF Extent
    <2>2. p \notin Extent(q, t) /\ q \notin Extent(p, s)
      BY <1>1, <2>1
    <2> QED
      BY <2>2 DEF Extent
  <1>2. ASSUME p + s <= q \/ q + t <= p PROVE Extent(p, s) \cap Extent(q, t) = {}
    BY <1>2 DEF Extent
  <1> QED
    BY <1>1, <1>2

\* list_index finds a class that is large enough, if there is one.
LEMMA ListIndexSuitable ==
    ASSUME NEW layout \in Layouts, Suitable(layout) # {}
    PROVE  /\ ListIndex(layout) \in Classes
           /\ BLOCK_SIZES[ListIndex(layout)] \in Nat \ {0}
           /\ BLOCK_SIZES[ListIndex(layout)] >= layout.size
           /\ BLOCK_SIZES[ListIndex(layout)] % layout.align = 0
  <1>1. Suitable(layout) \subseteq Nat
    BY BlockAssumption DEF Suitable, Classes
  <1>2. PICK i \in Suitable(layout) :
            \A j \in Suitable(layout) : ~ (<<j, i>> \in OpToRel(<, Nat))
    BY <1>1, NatLessThanWellFounded, WFMin, Zenon
  <1>3. \A j \in Suitable(layout) : ~ (j < i)
    BY <1>1, <1>2, Zenon DEF OpToRel
  <1>4. \A j \in Suitable(layout) : i <= j
    BY <1>1, <1>3
  <1>5. ListIndex(layout) \in Suitable(layout)
    BY <1>4 DEF ListIndex
  <1>6. /\ ListIndex(layout) \in Classes
        /\ BLOCK_SIZES[ListIndex(layout)] >= layout.size
        /\ BLOCK_SIZES[ListIndex(layout)] >= layout.align
    BY <1>5 DEF Suitable
  <1>7. \A k \in Classes : BLOCK_SIZES[k] \in Nat \ {0}
    BY BlockAssumption DEF Classes
  <1>8. BLOCK_SIZES[ListIndex(layout)] % layout.align = 0
    BY <1>6, BlockAssumption, Zenon
  <1> QED
    BY <1>6, <1>7, <1>8

\* A range is known by its first address, and no other range has an address
\* of it.
LEMMA RangeByAddress ==
    ASSUME BlocksTypeOK, RangesOK, NEW u \in used, NEW v \in used
    PROVE  /\ u.ptr = v.ptr => u = v
           /\ u # v => v.ptr \notin Extent(u.ptr, u.size)
  <1>1. /\ u.ptr \in Nat /\ u.size \in Nat \ {0}
        /\ v.ptr \in Nat /\ v.size \in Nat \ {0}
    BY DEF BlocksTypeOK
  <1>2. u = v \/ Apart(u, v)
    BY DEF RangesOK
  <1> QED
    BY <1>1, <1>2 DEF Apart, Extent

\* A free block of a class is a range of the heap.
LEMMA FreeIsRange ==
    ASSUME BlocksTypeOK, RangesOK, NEW i \in Classes, NEW a, Free(used, live, i, a)
    PROVE  /\ a \in Addresses
           /\ Block(a, BLOCK_SIZES[i]) \in used
           /\ BLOCK_SIZES[i] \in Nat \ {0}
           /\ a + BLOCK_SIZES[i] <= HeapSize
  <1>1. Block(a, BLOCK_SIZES[i]) \in used /\ BLOCK_SIZES[i] \in Nat \ {0}
    BY BlockAssumption DEF Free, Classes
  <1>2. a \in Nat /\ a + BLOCK_SIZES[i] <= HeapSize
    BY <1>1 DEF Block, BlocksTypeOK, RangesOK
  <1> QED
    BY <1>1, <1>2, BlockAssumption DEF Addresses

\* A free block belongs to one class.
LEMMA FreeOnce ==
    ASSUME BlocksTypeOK, RangesOK, NEW i \in Classes, NEW j \in Classes, NEW a,
           Free(used, live, i, a), Free(used, live, j, a)
    PROVE  i = j
  <1>1. Block(a, BLOCK_SIZES[i]) \in used /\ Block(a, BLOCK_SIZES[j]) \in used
    BY DEF Free
  <1>2. Block(a, BLOCK_SIZES[i]) = Block(a, BLOCK_SIZES[j])
    BY <1>1, RangeByAddress DEF Block
  <1>3. BLOCK_SIZES[i] = BLOCK_SIZES[j]
    BY <1>2 DEF Block
  <1> QED
    BY <1>3, BlockAssumption

\* The size that is set aside for a layout is enough for it.
LEMMA BlockSizeFits ==
    ASSUME NEW layout \in Layouts
    PROVE  /\ layout.size \in Nat \ {0} /\ layout.align \in Nat \ {0}
           /\ BlockSize(layout) \in Nat \ {0}
           /\ layout.size <= BlockSize(layout)
           /\ BlockAlign(layout) \in Nat \ {0} /\ BlockAlign(layout) % layout.align = 0
  <1>1. layout.size \in Nat \ {0} /\ layout.align \in Nat \ {0}
    BY BlockAssumption
  <1>2. CASE Suitable(layout) = {}
    BY <1>1, <1>2 DEF BlockSize, BlockAlign
  <1>3. CASE Suitable(layout) # {}
    BY <1>1, <1>3, ListIndexSuitable DEF BlockSize, BlockAlign
  <1> QED
    BY <1>2, <1>3

\* The allocator starts with empty lists.
LEMMA BlocksInitInv == BlocksInit => BlocksInv
  <1> SUFFICES ASSUME BlocksInit PROVE BlocksInv
    OBVIOUS
  <1>1. BlocksTypeOK /\ RangesOK
    BY DEF BlocksInit, BlocksTypeOK, RangesOK
  <1>2. ListsOK
    BY DEF BlocksInit, ListsOK, Free
  <1>3. AllReached
    <2>1. [a \in Addresses |-> 0] \in [Addresses -> Nat]
      OBVIOUS
    <2>2. Reached([a \in Addresses |-> 0])
      BY DEF BlocksInit, Reached, Free
    <2> QED
      BY <2>1, <2>2 DEF AllReached
  <1> QED
    BY <1>1, <1>2, <1>3 DEF BlocksInv
-----------------------------------------------------------------------------
\* A new block from the fallback heap, when that is right.
LEMMA FallbackAllocInv ==
    ASSUME BlocksInv, sound', NEW layout \in Layouts,
           FallbackAlloc(BlockSize(layout), BlockAlign(layout), layout)
    PROVE  BlocksInv'
  <1> DEFINE size == BlockSize(layout)
             align == BlockAlign(layout)
  <1>0. BlocksTypeOK /\ RangesOK /\ ListsOK /\ AllReached
    BY DEF BlocksInv
  <1>1. PICK ptr \in Fitting(size, align) :
            /\ used' = used \cup {Block(ptr, size)}
            /\ HandOut(ptr, layout)
            /\ list_heads' = list_heads
    BY Zenon DEF FallbackAlloc, Block
  <1>2. size \in Nat \ {0} /\ layout.size \in Nat \ {0} /\ layout.size <= size
    BY BlockSizeFits
  <1> HIDE DEF size, align
  <1>3. /\ ptr \in Nat /\ ptr + size <= HeapSize /\ ptr % align = 0
        /\ \A u \in used : Extent(ptr, size) \cap Extent(u.ptr, u.size) = {}
    BY <1>1, <1>2, BlockAssumption DEF Fitting
  <1>4. \A u \in used : ptr + size <= u.ptr \/ u.ptr + u.size <= ptr
    <2> TAKE u \in used
    <2>1. u.ptr \in Nat /\ u.size \in Nat \ {0}
      BY <1>0 DEF BlocksTypeOK
    <2> QED
      BY <1>2, <1>3, <2>1, DisjointExtents
  <1>5. \A u \in used : u.ptr # ptr /\ u.ptr \notin Extent(ptr, layout.size)
    <2> TAKE u \in used
    <2>1. u.ptr \in Nat /\ u.size \in Nat \ {0}
      BY <1>0 DEF BlocksTypeOK
    <2> QED
      BY <1>2, <1>3, <1>4, <2>1 DEF Extent
  <1>6. live' = live \cup {[ptr |-> ptr, layout |-> layout]}
    BY <1>1 DEF HandOut
  <1>7. BlocksTypeOK'
    <2>1. used' \subseteq [ptr : Nat, size : Nat \ {0}]
      BY <1>0, <1>1, <1>2, <1>3 DEF BlocksTypeOK, Block
    <2>2. live' \subseteq [ptr : Nat, layout : Layouts]
      BY <1>0, <1>3, <1>6 DEF BlocksTypeOK
    <2>3. word' \in [Addresses -> Addresses \cup {Null, Junk}]
      BY <1>0, <1>1 DEF BlocksTypeOK, HandOut
    <2> QED
      BY <1>0, <1>1, <2>1, <2>2, <2>3 DEF BlocksTypeOK
  <1>8. RangesOK'
    <2>1. \A u \in used' : u.ptr + u.size <= HeapSize
      BY <1>0, <1>1, <1>3 DEF RangesOK, Block
    <2>2. \A u, v \in used' : u = v \/ Apart(u, v)
      BY <1>0, <1>1, <1>4 DEF RangesOK, Block, Apart
    <2>3. \A b \in live' : Block(b.ptr, BlockSize(b.layout)) \in used'
      BY <1>0, <1>1, <1>6 DEF RangesOK, size
    <2>4. \A b \in live : b.ptr # ptr
      BY <1>0, <1>5, Zenon DEF RangesOK, Block
    <2>5. \A b, c \in live' : b.ptr = c.ptr => b = c
      BY <1>0, <1>6, <2>4 DEF RangesOK
    <2>6. \A b \in live' : b.ptr % BlockAlign(b.layout) = 0
      <3> TAKE b \in live'
      <3>1. CASE b \in live
        BY <1>0, <3>1 DEF RangesOK
      <3>2. CASE b = [ptr |-> ptr, layout |-> layout]
        <4>1. b.ptr = ptr /\ b.layout = layout
          BY <3>2
        <4> QED
          BY <1>3, <4>1 DEF align
      <3> QED
        BY <1>6, <3>1, <3>2
    <2> QED
      BY <2>1, <2>2, <2>3, <2>5, <2>6 DEF RangesOK
  <1>9. \A i \in Classes : \A a : Free(used', live', i, a) <=> Free(used, live, i, a)
    <2> SUFFICES ASSUME NEW i \in Classes, NEW a
                 PROVE  Free(used', live', i, a) <=> Free(used, live, i, a)
      OBVIOUS
    <2>1. ASSUME Free(used, live, i, a) PROVE a # ptr /\ Free(used', live', i, a)
      BY <1>1, <1>5, <1>6, <2>1 DEF Free, Block
    <2>2. ASSUME Free(used', live', i, a) PROVE Free(used, live, i, a)
      <3> DEFINE new == [ptr |-> ptr, layout |-> layout]
      <3>0. new \in live' /\ new.ptr = ptr
        BY <1>6
      <3>1. a # ptr
        BY <2>2, <3>0, Zenon DEF Free
      <3> HIDE DEF new
      <3>2. Block(a, BLOCK_SIZES[i]) # Block(ptr, size)
        BY <3>1 DEF Block
      <3> QED
        BY <1>1, <1>6, <2>2, <3>2 DEF Free
    <2> QED
      BY <2>1, <2>2
  <1>10. \A i \in Classes : \A a :
           Free(used, live, i, a) => a \in Addresses /\ word'[a] = word[a]
    <2> SUFFICES ASSUME NEW i \in Classes, NEW a, Free(used, live, i, a)
                 PROVE  a \in Addresses /\ word'[a] = word[a]
      OBVIOUS
    <2>1. a \in Addresses /\ Block(a, BLOCK_SIZES[i]) \in used
      BY <1>0, FreeIsRange
    <2>2. a \notin Extent(ptr, layout.size)
      BY <1>5, <2>1 DEF Block
    <2> QED
      BY <1>1, <2>1, <2>2 DEF HandOut
  <1>11. ListsOK'
    BY <1>0, <1>1, <1>9, <1>10 DEF ListsOK
  <1>12. AllReached'
    <2>1. PICK d \in [Addresses -> Nat] : Reached(d)
      BY <1>0 DEF AllReached
    <2>2. ASSUME NEW i \in Classes, NEW a \in Addresses, Free(used', live', i, a)
          PROVE  \/ a = list_heads'[i]
                 \/ \E b \in Addresses : Free(used', live', i, b) /\ word'[b] = a /\ d[b] < d[a]
      <3>1. Free(used, live, i, a) /\ list_heads' = list_heads
        BY <1>1, <1>9, <2>2
      <3>2. CASE a = list_heads[i]
        BY <3>1, <3>2
      <3>3. CASE \E b \in Addresses : Free(used, live, i, b) /\ word[b] = a /\ d[b] < d[a]
        <4>1. PICK b \in Addresses : Free(used, live, i, b) /\ word[b] = a /\ d[b] < d[a]
          BY <3>3
        <4>2. Free(used', live', i, b) /\ word'[b] = a
          BY <1>9, <1>10, <4>1
        <4> QED
          BY <4>1, <4>2
      <3> QED
        BY <2>1, <3>1, <3>2, <3>3 DEF Reached
    <2>3. Reached(d)'
      BY <2>2 DEF Reached
    <2> QED
      BY <2>3 DEF AllReached
  <1> QED
    BY <1>7, <1>8, <1>11, <1>12 DEF BlocksInv

\* The block at the head of a list is handed out.
LEMMA AllocFromListInv ==
    ASSUME BlocksInv, NEW layout \in Layouts, AllocFromList(layout)
    PROVE  BlocksInv'
  <1> DEFINE c == ListIndex(layout)
             head == list_heads[c]
             new == [ptr |-> head, layout |-> layout]
  <1>0. BlocksTypeOK /\ RangesOK /\ ListsOK /\ AllReached
    BY DEF BlocksInv
  <1>1. /\ Suitable(layout) # {} /\ head # Null
        /\ live' = live \cup {new}
        /\ word' = [a \in Addresses |->
                       IF a \in Extent(head, layout.size) THEN Junk ELSE word[a]]
        /\ list_heads' = [list_heads EXCEPT ![c] = word[head]]
        /\ used' = used
    BY DEF AllocFromList, HandOut
  <1>2. /\ c \in Classes
        /\ BlockSize(layout) = BLOCK_SIZES[c] /\ BlockAlign(layout) = BLOCK_SIZES[c]
    BY <1>1, ListIndexSuitable DEF BlockSize, BlockAlign
  <1>3. layout.size \in Nat \ {0} /\ layout.size <= BLOCK_SIZES[c]
    BY <1>2, BlockSizeFits
  <1>4. Free(used, live, c, head)
    BY <1>0, <1>1, <1>2 DEF ListsOK
  <1>5. /\ head \in Addresses /\ Block(head, BLOCK_SIZES[c]) \in used
        /\ BLOCK_SIZES[c] \in Nat \ {0}
    BY <1>0, <1>2, <1>4, FreeIsRange
  <1>6. head \in Nat /\ head % BLOCK_SIZES[c] = 0
    BY <1>0, <1>2, <1>4, <1>5 DEF ListsOK, Addresses
  <1>7. new.ptr = head /\ new.layout = layout
    OBVIOUS
  <1>8. \A b \in live : b.ptr # head
    BY <1>4 DEF Free
  <1> HIDE DEF c, head, new
  <1>9. BlocksTypeOK'
    <2>1. live' \subseteq [ptr : Nat, layout : Layouts]
      BY <1>0, <1>1, <1>6 DEF BlocksTypeOK, new
    <2>2. word[head] \in Addresses \cup {Null}
      <3>1. word[head] # Null => word[head] # Junk
        BY <1>0, <1>2, <1>4, <1>5 DEF ListsOK
      <3> QED
        BY <1>0, <1>5, <3>1 DEF BlocksTypeOK
    <2>3. word' \in [Addresses -> Addresses \cup {Null, Junk}]
      BY <1>0, <1>1 DEF BlocksTypeOK
    <2>4. list_heads' \in [Classes -> Addresses \cup {Null}]
      BY <1>0, <1>1, <2>2, Zenon DEF BlocksTypeOK
    <2> QED
      BY <1>0, <1>1, <2>1, <2>3, <2>4 DEF BlocksTypeOK
  <1>10. RangesOK'
    <2>1. \A b \in live' : Block(b.ptr, BlockSize(b.layout)) \in used'
      BY <1>0, <1>1, <1>2, <1>5, <1>7 DEF RangesOK
    <2>2. \A a, b \in live' : a.ptr = b.ptr => a = b
      BY <1>0, <1>1, <1>7, <1>8 DEF RangesOK
    <2>3. \A b \in live' : b.ptr % BlockAlign(b.layout) = 0
      <3> TAKE b \in live'
      <3>1. CASE b \in live
        BY <1>0, <3>1 DEF RangesOK
      <3>2. CASE b = new
        BY <1>2, <1>6, <1>7, <3>2
      <3> QED
        BY <1>1, <3>1, <3>2
    <2> QED
      BY <1>0, <1>1, <2>1, <2>2, <2>3 DEF RangesOK
  <1>11. \A i \in Classes : \A a :
           Free(used', live', i, a) <=> Free(used, live, i, a) /\ a # head
    <2> SUFFICES ASSUME NEW i \in Classes, NEW a
                 PROVE  Free(used', live', i, a) <=> Free(used, live, i, a) /\ a # head
      OBVIOUS
    <2>1. ASSUME Free(used', live', i, a) PROVE Free(used, live, i, a) /\ a # head
      BY <1>1, <1>7, <2>1, Zenon DEF Free
    <2>2. ASSUME Free(used, live, i, a), a # head PROVE Free(used', live', i, a)
      BY <1>1, <1>7, <2>2, Zenon DEF Free
    <2> QED
      BY <2>1, <2>2
  <1>12. ASSUME NEW i \in Classes, NEW a, Free(used, live, i, a), a # head
         PROVE  a \in Addresses /\ word'[a] = word[a]
    <2>1. a \in Addresses /\ Block(a, BLOCK_SIZES[i]) \in used
      BY <1>0, <1>12, FreeIsRange
    <2>2. Block(a, BLOCK_SIZES[i]) # Block(head, BLOCK_SIZES[c])
      BY <1>12 DEF Block
    <2>3. a \notin Extent(head, BLOCK_SIZES[c])
      BY <1>0, <1>5, <2>1, <2>2, RangeByAddress DEF Block
    <2>4. a \notin Extent(head, layout.size)
      BY <1>3, <1>5, <1>6, <2>1, <2>3 DEF Extent, Addresses
    <2> QED
      BY <1>1, <2>1, <2>4
  <1>13. \A i \in Classes : list_heads'[i] # Null => Free(used', live', i, list_heads'[i])
    <2> TAKE i \in Classes
    <2> HAVE list_heads'[i] # Null
    <2>1. CASE i = c
      <3>1. list_heads'[i] = word[head]
        BY <1>0, <1>1, <1>2, <2>1 DEF BlocksTypeOK
      <3>2. Free(used, live, c, word[head]) /\ word[head] # head
        BY <1>0, <1>2, <1>4, <1>5, <3>1 DEF ListsOK, head
      <3> QED
        BY <1>2, <1>11, <2>1, <3>1, <3>2
    <2>2. CASE i # c
      <3>1. list_heads'[i] = list_heads[i] /\ Free(used, live, i, list_heads[i])
        BY <1>0, <1>1, <2>2 DEF BlocksTypeOK, ListsOK
      <3>2. list_heads[i] # head
        BY <1>0, <1>2, <1>4, <2>2, <3>1, FreeOnce
      <3> QED
        BY <1>11, <3>1, <3>2
    <2> QED
      BY <2>1, <2>2
  <1>14. ASSUME NEW i \in Classes, NEW a \in Addresses, Free(used', live', i, a)
         PROVE  /\ a % BLOCK_SIZES[i] = 0
                /\ word'[a] # Null =>
                     /\ Free(used', live', i, word'[a])
                     /\ word'[a] # list_heads'[i] /\ word'[a] # Junk
    <2>1. Free(used, live, i, a) /\ a # head /\ word'[a] = word[a]
      BY <1>11, <1>12, <1>14
    <2>2. a % BLOCK_SIZES[i] = 0
      BY <1>0, <2>1 DEF ListsOK
    <2>3. ASSUME word[a] # Null
          PROVE  /\ Free(used', live', i, word[a])
                 /\ word[a] # list_heads'[i] /\ word[a] # Junk
      <3>1. Free(used, live, i, word[a]) /\ word[a] # list_heads[i] /\ word[a] # Junk
        BY <1>0, <2>1, <2>3 DEF ListsOK
      <3>2. CASE i = c
        <4>1. word[a] # head
          BY <3>1, <3>2 DEF head
        <4>2. word[a] # word[head]
          BY <1>0, <1>2, <1>4, <1>5, <2>1, <2>3, <3>2 DEF ListsOK
        <4>3. list_heads'[i] = word[head]
          BY <1>0, <1>1, <1>2, <3>2 DEF BlocksTypeOK
        <4> QED
          BY <1>11, <3>1, <4>1, <4>2, <4>3
      <3>3. CASE i # c
        <4>1. word[a] # head
          BY <1>0, <1>2, <1>4, <3>1, <3>3, FreeOnce
        <4>2. list_heads'[i] = list_heads[i]
          BY <1>0, <1>1, <3>3 DEF BlocksTypeOK
        <4> QED
          BY <1>11, <3>1, <4>1, <4>2
      <3> QED
        BY <3>2, <3>3
    <2> QED
      BY <2>1, <2>2, <2>3
  <1>15. \A i \in Classes : \A a, b \in Addresses :
           Free(used', live', i, a) /\ Free(used', live', i, b) /\ word'[a] = word'[b]
           => word'[a] = Null \/ a = b
    BY <1>0, <1>11, <1>12 DEF ListsOK
  <1>16. ListsOK'
    BY <1>13, <1>14, <1>15 DEF ListsOK
  <1>17. AllReached'
    <2>1. PICK d \in [Addresses -> Nat] : Reached(d)
      BY <1>0 DEF AllReached
    <2>2. ASSUME NEW i \in Classes, NEW a \in Addresses, Free(used', live', i, a)
          PROVE  \/ a = list_heads'[i]
                 \/ \E b \in Addresses : Free(used', live', i, b) /\ word'[b] = a /\ d[b] < d[a]
      <3>1. Free(used, live, i, a) /\ a # head
        BY <1>11, <2>2
      <3>2. CASE a = list_heads[i]
        <4>1. i # c
          BY <3>1, <3>2 DEF head
        <4> QED
          BY <1>0, <1>1, <3>2, <4>1 DEF BlocksTypeOK
      <3>3. CASE a # list_heads[i]
        <4>1. PICK b \in Addresses : Free(used, live, i, b) /\ word[b] = a /\ d[b] < d[a]
          BY <2>1, <3>1, <3>3 DEF Reached
        <4>2. CASE b = head
          <5>1. i = c
            BY <1>0, <1>2, <1>4, <4>1, <4>2, FreeOnce
          <5> QED
            BY <1>0, <1>1, <1>2, <4>1, <4>2, <5>1 DEF BlocksTypeOK
        <4>3. CASE b # head
          BY <1>11, <1>12, <4>1, <4>3
        <4> QED
          BY <4>2, <4>3
      <3> QED
        BY <3>2, <3>3
    <2> QED
      BY <2>2 DEF AllReached, Reached
  <1> QED
    BY <1>9, <1>10, <1>16, <1>17 DEF BlocksInv

\* A block is put at the head of the list of its class.
LEMMA DeallocToListInv ==
    ASSUME BlocksInv, NEW b \in live, DeallocToList(b)
    PROVE  BlocksInv'
  <1> DEFINE c == ListIndex(b.layout)
  <1>0. BlocksTypeOK /\ RangesOK /\ ListsOK /\ AllReached
    BY DEF BlocksInv
  <1>1. /\ Suitable(b.layout) # {}
        /\ word' = [word EXCEPT ![b.ptr] = list_heads[c]]
        /\ list_heads' = [list_heads EXCEPT ![c] = b.ptr]
        /\ live' = live \ {b} /\ used' = used
    BY DEF DeallocToList
  <1>2. b.layout \in Layouts /\ b.ptr \in Nat
    BY <1>0 DEF BlocksTypeOK
  <1>3. /\ c \in Classes /\ BLOCK_SIZES[c] \in Nat \ {0}
        /\ BlockSize(b.layout) = BLOCK_SIZES[c] /\ BlockAlign(b.layout) = BLOCK_SIZES[c]
    BY <1>1, <1>2, ListIndexSuitable DEF BlockSize, BlockAlign
  <1>4. Block(b.ptr, BLOCK_SIZES[c]) \in used /\ b.ptr % BLOCK_SIZES[c] = 0
    BY <1>0, <1>3 DEF RangesOK
  <1>5. b.ptr \in Addresses
    BY <1>0, <1>2, <1>3, <1>4, BlockAssumption DEF RangesOK, Block, Addresses
  <1> HIDE DEF c
  <1>6. BlocksTypeOK'
    <2>1. word' \in [Addresses -> Addresses \cup {Null, Junk}]
      BY <1>0, <1>1, <1>3, <1>5 DEF BlocksTypeOK
    <2>2. list_heads' \in [Classes -> Addresses \cup {Null}]
      BY <1>0, <1>1, <1>3, <1>5 DEF BlocksTypeOK
    <2> QED
      BY <1>0, <1>1, <2>1, <2>2 DEF BlocksTypeOK
  <1>7. RangesOK'
    BY <1>0, <1>1 DEF RangesOK
  <1>8. \A i \in Classes : \A a : Free(used, live, i, a) => a # b.ptr
    BY DEF Free
  <1>9. Free(used', live', c, b.ptr)
    BY <1>0, <1>1, <1>4 DEF Free, RangesOK
  <1>10. \A i \in Classes : \A a :
           Free(used', live', i, a) <=> Free(used, live, i, a) \/ (i = c /\ a = b.ptr)
    <2> SUFFICES ASSUME NEW i \in Classes, NEW a
                 PROVE  Free(used', live', i, a)
                        <=> Free(used, live, i, a) \/ (i = c /\ a = b.ptr)
      OBVIOUS
    <2>1. ASSUME Free(used, live, i, a) PROVE Free(used', live', i, a)
      BY <1>1, <2>1 DEF Free
    <2>2. ASSUME Free(used', live', i, a), a # b.ptr PROVE Free(used, live, i, a)
      BY <1>1, <2>2 DEF Free
    <2>3. ASSUME Free(used', live', i, a), a = b.ptr PROVE i = c
      <3>1. Block(b.ptr, BLOCK_SIZES[i]) \in used
        BY <1>1, <2>3 DEF Free
      <3>2. Block(b.ptr, BLOCK_SIZES[i]) = Block(b.ptr, BLOCK_SIZES[c])
        BY <1>0, <1>4, <3>1, RangeByAddress DEF Block
      <3>3. BLOCK_SIZES[i] = BLOCK_SIZES[c]
        BY <3>2 DEF Block
      <3> QED
        BY <1>3, <3>3, BlockAssumption
    <2> QED
      BY <1>9, <2>1, <2>2, <2>3
  <1>11. /\ word'[b.ptr] = list_heads[c]
         /\ \A a \in Addresses : a # b.ptr => word'[a] = word[a]
         /\ list_heads'[c] = b.ptr
         /\ \A i \in Classes : i # c => list_heads'[i] = list_heads[i]
    BY <1>0, <1>1, <1>3, <1>5 DEF BlocksTypeOK
  <1>12. \A i \in Classes : list_heads'[i] # Null => Free(used', live', i, list_heads'[i])
    BY <1>0, <1>9, <1>10, <1>11 DEF ListsOK
  <1>13. list_heads[c] # Null => /\ Free(used, live, c, list_heads[c])
                                 /\ list_heads[c] # Junk
    BY <1>0, <1>3, BlockAssumption DEF ListsOK, BlocksTypeOK, Addresses
  <1>14. ASSUME NEW i \in Classes, NEW a \in Addresses, Free(used', live', i, a)
         PROVE  /\ a % BLOCK_SIZES[i] = 0
                /\ word'[a] # Null =>
                     /\ Free(used', live', i, word'[a])
                     /\ word'[a] # list_heads'[i] /\ word'[a] # Junk
    <2>1. CASE a = b.ptr
      <3>1. i = c
        BY <1>8, <1>10, <1>14, <2>1
      <3> QED
        BY <1>4, <1>8, <1>10, <1>11, <1>13, <2>1, <3>1
    <2>2. CASE a # b.ptr
      <3>1. Free(used, live, i, a) /\ word'[a] = word[a]
        BY <1>10, <1>11, <1>14, <2>2
      <3>2. /\ a % BLOCK_SIZES[i] = 0
            /\ word[a] # Null =>
                 Free(used, live, i, word[a]) /\ word[a] # list_heads[i] /\ word[a] # Junk
        BY <1>0, <3>1 DEF ListsOK
      <3> QED
        BY <1>8, <1>10, <1>11, <3>1, <3>2
    <2> QED
      BY <2>1, <2>2
  <1>15. ASSUME NEW i \in Classes, NEW a \in Addresses, NEW d \in Addresses,
                Free(used', live', i, a), Free(used', live', i, d),
                word'[a] = word'[d], word'[a] # Null
         PROVE  a = d
    <2>1. CASE a # b.ptr /\ d # b.ptr
      BY <1>0, <1>10, <1>11, <1>15, <2>1 DEF ListsOK
    <2>2. ASSUME NEW x \in {a, d}, x # b.ptr, i = c PROVE word'[x] # list_heads[c]
      <3>1. Free(used, live, c, x) /\ word'[x] = word[x] /\ word[x] # Null
        BY <1>10, <1>11, <1>15, <2>2
      <3> QED
        BY <1>0, <1>3, <3>1, <2>2 DEF ListsOK
    <2>3. a = b.ptr \/ d = b.ptr => i = c
      BY <1>8, <1>10, <1>15
    <2> QED
      BY <1>11, <1>15, <2>1, <2>2, <2>3
  <1>16. ListsOK'
    BY <1>12, <1>14, <1>15 DEF ListsOK
  <1>17. AllReached'
    <2>1. PICK d \in [Addresses -> Nat] : Reached(d)
      BY <1>0 DEF AllReached
    <2> DEFINE e == [a \in Addresses |-> IF a = b.ptr THEN 0 ELSE d[a] + 1]
    <2>2. /\ e \in [Addresses -> Nat] /\ e[b.ptr] = 0
          /\ \A a \in Addresses : d[a] \in Nat /\ (a # b.ptr => e[a] = d[a] + 1)
      BY <1>5
    <2> HIDE DEF e
    <2>3. ASSUME NEW i \in Classes, NEW a \in Addresses, Free(used', live', i, a)
          PROVE  \/ a = list_heads'[i]
                 \/ \E x \in Addresses : Free(used', live', i, x) /\ word'[x] = a /\ e[x] < e[a]
      <3>1. CASE a = b.ptr
        <4>1. i = c
          BY <1>8, <1>10, <2>3, <3>1
        <4> QED
          BY <1>11, <3>1, <4>1
      <3>2. CASE a # b.ptr
        <4>1. Free(used, live, i, a)
          BY <1>10, <2>3, <3>2
        <4>2. CASE a = list_heads[i] /\ i = c
          <5>1. word'[b.ptr] = a /\ Free(used', live', i, b.ptr) /\ e[b.ptr] < e[a]
            BY <1>9, <1>11, <2>2, <3>2, <4>2
          <5> QED
            BY <1>5, <5>1
        <4>3. CASE a = list_heads[i] /\ i # c
          BY <1>11, <4>3
        <4>4. CASE a # list_heads[i]
          <5>1. PICK x \in Addresses : Free(used, live, i, x) /\ word[x] = a /\ d[x] < d[a]
            BY <2>1, <4>1, <4>4 DEF Reached
          <5>2. x # b.ptr
            BY <1>8, <5>1
          <5>3. Free(used', live', i, x) /\ word'[x] = a
            BY <1>10, <1>11, <5>1, <5>2
          <5>4. e[x] < e[a]
            BY <2>2, <3>2, <5>1, <5>2
          <5> QED
            BY <5>3, <5>4
        <4> QED
          BY <4>2, <4>3, <4>4
      <3> QED
        BY <3>1, <3>2
    <2> QED
      BY <2>2, <2>3 DEF AllReached, Reached
  <1> QED
    BY <1>6, <1>7, <1>16, <1>17 DEF BlocksInv

\* A block that belongs to no class goes back to the fallback heap.
LEMMA DeallocLargeInv ==
    ASSUME BlocksInv, NEW b \in live, DeallocLarge(b)
    PROVE  BlocksInv'
  <1>0. BlocksTypeOK /\ RangesOK /\ ListsOK /\ AllReached
    BY DEF BlocksInv
  <1>1. /\ used' = used \ {Block(b.ptr, BlockSize(b.layout))}
        /\ live' = live \ {b}
        /\ list_heads' = list_heads /\ word' = word
    BY DEF DeallocLarge, BlockSize, Block
  <1>2. Block(b.ptr, BlockSize(b.layout)) \in used
    BY <1>0 DEF RangesOK
  <1>3. BlocksTypeOK'
    BY <1>0, <1>1 DEF BlocksTypeOK
  <1>4. RangesOK'
    <2>1. \A c \in live' : c.ptr # b.ptr
      BY <1>0, <1>1 DEF RangesOK
    <2>2. \A c \in live' : Block(c.ptr, BlockSize(c.layout)) \in used'
      BY <1>0, <1>1, <2>1 DEF RangesOK, Block
    <2> QED
      BY <1>0, <1>1, <2>2 DEF RangesOK
  <1>5. \A i \in Classes : \A a : Free(used', live', i, a) <=> Free(used, live, i, a)
    <2> SUFFICES ASSUME NEW i \in Classes, NEW a
                 PROVE  Free(used', live', i, a) <=> Free(used, live, i, a)
      OBVIOUS
    <2>1. ASSUME Free(used, live, i, a) PROVE Free(used', live', i, a)
      <3>1. Block(a, BLOCK_SIZES[i]) # Block(b.ptr, BlockSize(b.layout))
        BY <2>1 DEF Free, Block
      <3> QED
        BY <1>1, <2>1, <3>1 DEF Free
    <2>2. ASSUME Free(used', live', i, a) PROVE Free(used, live, i, a)
      <3>1. Block(a, BLOCK_SIZES[i]) \in used
        BY <1>1, <2>2 DEF Free
      <3>2. Block(a, BLOCK_SIZES[i]) # Block(b.ptr, BlockSize(b.layout))
        BY <1>1, <2>2 DEF Free
      <3>3. a # b.ptr
        BY <1>0, <1>2, <3>1, <3>2, RangeByAddress DEF Block
      <3> QED
        BY <1>1, <2>2, <3>1, <3>3 DEF Free
    <2> QED
      BY <2>1, <2>2
  <1>6. ListsOK'
    BY <1>0, <1>1, <1>5 DEF ListsOK
  <1>7. AllReached'
    <2>1. PICK d \in [Addresses -> Nat] : Reached(d)
      BY <1>0 DEF AllReached
    <2>2. Reached(d)'
      BY <1>1, <1>5, <2>1 DEF Reached
    <2> QED
      BY <2>2 DEF AllReached
  <1> QED
    BY <1>3, <1>4, <1>6, <1>7 DEF BlocksInv
-----------------------------------------------------------------------------
\* The blocks in use are as GlobalAlloc promises.
LiveBlocksSound ==
    /\ \A b \in live : b.ptr \in 0 .. HeapSize - b.layout.size /\ b.ptr % b.layout.align = 0
    /\ \A b, c \in live : b = c \/
         Extent(b.ptr, b.layout.size) \cap Extent(c.ptr, c.layout.size) = {}

\* The invariant gives what GlobalAlloc asks of the blocks in use.
LEMMA InvGivesLiveBlocksSound == BlocksInv => LiveBlocksSound
  <1> SUFFICES ASSUME BlocksInv PROVE LiveBlocksSound
    OBVIOUS
  <1>0. BlocksTypeOK /\ RangesOK
    BY DEF BlocksInv
  <1>1. ASSUME NEW b \in live
        PROVE  /\ b.ptr \in Nat /\ b.layout.size \in Nat \ {0}
               /\ BlockSize(b.layout) \in Nat /\ b.layout.size <= BlockSize(b.layout)
               /\ b.ptr + BlockSize(b.layout) <= HeapSize
               /\ b.ptr % b.layout.align = 0
    <2>1. b.layout \in Layouts /\ b.ptr \in Nat
      BY <1>0 DEF BlocksTypeOK
    <2>2. /\ b.layout.size \in Nat \ {0} /\ b.layout.align \in Nat \ {0}
          /\ BlockSize(b.layout) \in Nat /\ b.layout.size <= BlockSize(b.layout)
          /\ BlockAlign(b.layout) \in Nat \ {0}
          /\ BlockAlign(b.layout) % b.layout.align = 0
      BY <2>1, BlockSizeFits
    <2>3. b.ptr % BlockAlign(b.layout) = 0 /\ b.ptr + BlockSize(b.layout) <= HeapSize
      BY <1>0, Zenon DEF RangesOK, Block
    <2>4. b.ptr % b.layout.align = 0
      BY <2>1, <2>2, <2>3, DivisorOfDivisor
    <2> QED
      BY <2>1, <2>2, <2>3, <2>4
  <1>2. \A b \in live : b.ptr \in 0 .. HeapSize - b.layout.size /\ b.ptr % b.layout.align = 0
    BY <1>1, BlockAssumption
  <1>3. ASSUME NEW b \in live, NEW c \in live, b # c
        PROVE  Extent(b.ptr, b.layout.size) \cap Extent(c.ptr, c.layout.size) = {}
    <2>1. Block(b.ptr, BlockSize(b.layout)) # Block(c.ptr, BlockSize(c.layout))
      BY <1>0, <1>3 DEF RangesOK, Block
    <2>2. Apart(Block(b.ptr, BlockSize(b.layout)), Block(c.ptr, BlockSize(c.layout)))
      BY <1>0, <2>1 DEF RangesOK
    <2>3. /\ b.ptr \in Nat /\ b.layout.size \in Nat \ {0}
          /\ c.ptr \in Nat /\ c.layout.size \in Nat \ {0}
          /\ b.ptr + b.layout.size <= c.ptr \/ c.ptr + c.layout.size <= b.ptr
      BY <1>1, <2>2 DEF Apart, Block
    <2> QED
      BY <2>3, DisjointExtents
  <1> QED
    BY <1>2, <1>3 DEF LiveBlocksSound

\* alloc and dealloc keep the lists well-formed as long as the fallback heap is
\* right.
LEMMA BlocksNextInv ==
    (sound => BlocksInv) /\ [BlocksNext]_blockVars => (sound => BlocksInv)'
  <1> SUFFICES ASSUME sound => BlocksInv, [BlocksNext]_blockVars, sound' PROVE BlocksInv'
    OBVIOUS
  <1>1. CASE UNCHANGED blockVars
    BY <1>1 DEF blockVars, BlocksInv, BlocksTypeOK, RangesOK, ListsOK, AllReached, Reached
  <1>2. CASE BlocksNext
    <2>0. BlocksInv
      BY <1>2 DEF BlocksNext
    <2>1. ASSUME NEW layout \in Layouts, AllocFromList(layout) PROVE BlocksInv'
      BY <2>0, <2>1, AllocFromListInv
    <2>2. ASSUME NEW layout \in Layouts, AllocNewBlock(layout) PROVE BlocksInv'
      <3>1. FallbackAlloc(BlockSize(layout), BlockAlign(layout), layout)
        BY <2>2 DEF AllocNewBlock, BlockSize, BlockAlign
      <3> QED
        BY <2>0, <3>1, FallbackAllocInv
    <2>3. ASSUME NEW layout \in Layouts, AllocLarge(layout) PROVE BlocksInv'
      <3>1. FallbackAlloc(BlockSize(layout), BlockAlign(layout), layout)
        BY <2>3 DEF AllocLarge, BlockSize, BlockAlign
      <3> QED
        BY <2>0, <3>1, FallbackAllocInv
    <2>4. ASSUME NEW b \in live, DeallocToList(b) PROVE BlocksInv'
      BY <2>0, <2>4, DeallocToListInv
    <2>5. ASSUME NEW b \in live, DeallocLarge(b) PROVE BlocksInv'
      BY <2>0, <2>5, DeallocLargeInv
    <2> QED
      BY <1>2, <2>1, <2>2, <2>3, <2>4, <2>5 DEF BlocksNext
  <1> QED
    BY <1>1, <1>2

\* As long as the fallback heap is right, the allocator keeps its lists and its
\* ranges in order, so that the blocks alloc has handed out and dealloc has not
\* got back never overlap.
THEOREM BlocksInvariant == BlocksSpec => [](sound => BlocksInv /\ LiveBlocksSound)
  <1>1. BlocksInit => (sound => BlocksInv)
    BY BlocksInitInv
  <1>2. BlocksSpec => [](sound => BlocksInv)
    BY <1>1, BlocksNextInv, PTL DEF BlocksSpec
  <1> QED
    BY <1>2, InvGivesLiveBlocksSound, PTL

\* A free block of a class is reached from the head of the list: of the free
\* blocks the one at the least distance can only be the head.
LEMMA InvGivesFreeBlocksListed == (sound => BlocksInv) => FreeBlocksListed
  <1> SUFFICES ASSUME BlocksInv, NEW i \in Classes, list_heads[i] = Null, NEW x \in FreeBlocks(i)
               PROVE  FALSE
    BY DEF FreeBlocksListed
  <1>0. BlocksTypeOK /\ RangesOK /\ AllReached
    BY DEF BlocksInv
  <1>1. Free(used, live, i, x)
    <2>1. PICK u \in used : u.size = BLOCK_SIZES[i] /\ x = u.ptr
      BY DEF FreeBlocks
    <2>2. u = Block(x, BLOCK_SIZES[i])
      BY <1>0, <2>1 DEF BlocksTypeOK, Block
    <2>3. \A b \in live : b.ptr # x
      BY DEF FreeBlocks
    <2> QED
      BY <2>1, <2>2, <2>3 DEF Free
  <1>2. PICK d \in [Addresses -> Nat] : Reached(d)
    BY <1>0 DEF AllReached
  <1> DEFINE distances == {d[a] : a \in {b \in Addresses : Free(used, live, i, b)}}
  <1>3. distances \subseteq Nat /\ distances # {}
    <2>1. x \in Addresses
      BY <1>0, <1>1, FreeIsRange
    <2> QED
      BY <1>1, <2>1
  <1> HIDE DEF distances
  <1>4. PICK n \in distances : \A m \in distances : ~ (<<m, n>> \in OpToRel(<, Nat))
    BY <1>3, NatLessThanWellFounded, WFMin, Zenon
  <1>5. PICK a \in Addresses : Free(used, live, i, a) /\ n = d[a]
    BY <1>4, Zenon DEF distances
  <1>6. a # list_heads[i]
    BY BlockAssumption DEF Addresses
  <1>7. PICK b \in Addresses : Free(used, live, i, b) /\ word[b] = a /\ d[b] < d[a]
    BY <1>2, <1>5, <1>6 DEF Reached
  <1>8. d[b] \in distances
    BY <1>7 DEF distances
  <1>9. <<d[b], n>> \in OpToRel(<, Nat)
    BY <1>3, <1>4, <1>5, <1>7, <1>8 DEF OpToRel
  <1> QED
    BY <1>4, <1>8, <1>9, Zenon

\* No freed block is lost: as long as the fallback heap is right, when alloc
\* finds the list of a class empty, every block that was ever taken for that
\* class is in use.
THEOREM FreeBlocksAlwaysListed == BlocksSpec => []FreeBlocksListed
  BY BlocksInvariant, InvGivesFreeBlocksListed, PTL

\* A step that hands out a block adds one that overlaps no other, since the
\* blocks after it do not overlap.
LEMMA HandOutIsAlloc ==
    ASSUME NEW layout \in Layouts, NEW ptr, HandOut(ptr, layout), LiveBlocksSound',
           \A b \in live : b.ptr # ptr
    PROVE  Abstract!Alloc(layout)
  <1> DEFINE new == [ptr |-> ptr, layout |-> layout]
  <1>1. live' = live \cup {new} /\ new.ptr = ptr /\ new.layout = layout
    BY DEF HandOut
  <1> HIDE DEF new
  <1>2. ptr \in 0 .. HeapSize - layout.size /\ ptr % layout.align = 0
    BY <1>1 DEF LiveBlocksSound
  <1>3. \A b \in live : Extent(ptr, layout.size) \cap Extent(b.ptr, b.layout.size) = {}
    BY <1>1 DEF LiveBlocksSound
  <1> QED
    BY <1>1, <1>2, <1>3 DEF Abstract!Alloc, Abstract!Extent, Extent, new

\* The lists add no fault to the fallback heap: for every list of block sizes and
\* every set of layouts, up to the first range of that heap that is not free,
\* aligned and in the heap, each alloc hands out a block in the heap, aligned,
\* apart from all blocks in use, and each dealloc ends the use of one.
THEOREM BlocksImplementGlobalAlloc == BlocksSpec => ImplementsGlobalAlloc
  <1>1. BlocksInit => Abstract!Init
    BY DEF BlocksInit, Abstract!Init
  <1>2. (sound => BlocksInv) /\ (sound => LiveBlocksSound)' /\ [BlocksNext]_blockVars
        => [sound' => Abstract!Next \/ UNCHANGED live]_blockVars
    <2> SUFFICES ASSUME sound => BlocksInv, sound', LiveBlocksSound', BlocksNext
                 PROVE  Abstract!Next
      OBVIOUS
    <2>0. BlocksTypeOK /\ RangesOK /\ ListsOK
      BY DEF BlocksNext, BlocksInv
    <2>1. ASSUME NEW layout \in Layouts, AllocFromList(layout) PROVE Abstract!Alloc(layout)
      <3> DEFINE i == ListIndex(layout)
      <3>1. i \in Classes /\ list_heads[i] # Null /\ HandOut(list_heads[i], layout)
        BY <2>1, ListIndexSuitable DEF AllocFromList
      <3>2. \A b \in live : b.ptr # list_heads[i]
        BY <2>0, <3>1 DEF ListsOK, Free
      <3> QED
        BY <3>1, <3>2, HandOutIsAlloc
    <2>2. ASSUME NEW layout \in Layouts, AllocNewBlock(layout) \/ AllocLarge(layout)
          PROVE  Abstract!Alloc(layout)
      <3>1. FallbackAlloc(BlockSize(layout), BlockAlign(layout), layout)
        BY <2>2 DEF AllocNewBlock, AllocLarge, BlockSize, BlockAlign
      <3>2. BlockSize(layout) \in Nat \ {0}
        BY BlockSizeFits
      <3>3. PICK ptr \in Fitting(BlockSize(layout), BlockAlign(layout)) : HandOut(ptr, layout)
        BY <3>1, Zenon DEF FallbackAlloc
      <3>4. ASSUME NEW b \in live PROVE b.ptr # ptr
        <4>1. /\ Block(b.ptr, BlockSize(b.layout)) \in used
              /\ b.ptr \in Nat /\ BlockSize(b.layout) \in Nat \ {0}
          BY <2>0, BlockSizeFits DEF RangesOK, BlocksTypeOK
        <4>2. Extent(ptr, BlockSize(layout)) \cap Extent(b.ptr, BlockSize(b.layout)) = {}
          BY <4>1 DEF Fitting, Block
        <4>3. b.ptr \in Extent(b.ptr, BlockSize(b.layout))
          BY <4>1 DEF Extent
        <4> QED
          BY <3>2, <4>2, <4>3 DEF Extent
      <3> QED
        BY <3>3, <3>4, HandOutIsAlloc
    <2>3. ASSUME NEW b \in live, DeallocToList(b) \/ DeallocLarge(b) PROVE Abstract!Dealloc(b)
      BY <2>3, Zenon DEF DeallocToList, DeallocLarge, Abstract!Dealloc
    <2> QED
      BY <2>1, <2>2, <2>3, Zenon DEF BlocksNext, Abstract!Next
  <1> QED
    BY <1>1, <1>2, BlocksInvariant, PTL DEF BlocksSpec, ImplementsGlobalAlloc
-----------------------------------------------------------------------------
(* The frames of a memory map.                                             *)

Distinct(u) == \A i, j \in 1 .. Len(u) : u[i] = u[j] => i = j
Elements(u) == {u[i] : i \in 1 .. Len(u)}

\* The frames of a region, as a set, if it is usable.
FrameSet(region) ==
    IF region.region_type = "Usable" THEN region.start .. region.end - 1 ELSE {}

\* Those of the first n regions.
Covered(m, n) == UNION {FrameSet(m[k]) : k \in 1 .. n}

\* Lists without duplicates that have nothing in common, one behind the other.
LEMMA DistinctConcat ==
    ASSUME NEW u \in Seq(Nat), NEW v \in Seq(Nat), Distinct(u), Distinct(v),
           Elements(u) \cap Elements(v) = {}
    PROVE  /\ u \o v \in Seq(Nat) /\ Distinct(u \o v)
           /\ Elements(u \o v) = Elements(u) \cup Elements(v)
  <1> DEFINE w == u \o v
             n == Len(u)
  <1>1. /\ w \in Seq(Nat) /\ n \in Nat /\ Len(v) \in Nat /\ Len(w) = n + Len(v)
        /\ \A i \in 1 .. n : w[i] = u[i]
        /\ \A i \in 1 .. Len(w) : i > n => i - n \in 1 .. Len(v) /\ w[i] = v[i - n]
        /\ \A i \in 1 .. Len(v) : i + n \in 1 .. Len(w) /\ w[i + n] = v[i]
    OBVIOUS
  <1> HIDE DEF w, n
  <1>2. /\ \A i \in 1 .. n : w[i] \in Elements(u)
        /\ \A i \in 1 .. Len(w) : i > n => w[i] \in Elements(v)
    BY <1>1, Zenon DEF Elements, n
  <1>3. Distinct(w)
    <2> SUFFICES ASSUME NEW i \in 1 .. Len(w), NEW j \in 1 .. Len(w), w[i] = w[j] PROVE i = j
      BY DEF Distinct
    <2>1. CASE i <= n /\ j <= n
      <3>1. i \in 1 .. n /\ j \in 1 .. n
        BY <1>1, <2>1
      <3> QED
        BY <1>1, <3>1 DEF Distinct, n
    <2>2. CASE i > n /\ j > n
      <3>1. i - n \in 1 .. Len(v) /\ j - n \in 1 .. Len(v) /\ v[i - n] = v[j - n]
        BY <1>1, <2>2
      <3>2. i - n = j - n
        BY <3>1 DEF Distinct
      <3> QED
        BY <1>1, <3>2
    <2>3. CASE i <= n /\ j > n
      <3>1. i \in 1 .. n
        BY <1>1, <2>3
      <3> QED
        BY <1>2, <2>3, <3>1
    <2>4. CASE i > n /\ j <= n
      <3>1. j \in 1 .. n
        BY <1>1, <2>4
      <3> QED
        BY <1>2, <2>4, <3>1
    <2> QED
      BY <1>1, <2>1, <2>2, <2>3, <2>4
  <1>4. Elements(w) = Elements(u) \cup Elements(v)
    <2>1. ASSUME NEW x \in Elements(w) PROVE x \in Elements(u) \cup Elements(v)
      <3>1. PICK i \in 1 .. Len(w) : x = w[i]
        BY DEF Elements
      <3>2. i \in 1 .. n \/ i > n
        BY <1>1
      <3> QED
        BY <1>2, <3>1, <3>2
    <2>2. ASSUME NEW x \in Elements(u) PROVE x \in Elements(w)
      <3>1. PICK i \in 1 .. n : x = u[i]
        BY DEF Elements, n
      <3>2. i \in 1 .. Len(w) /\ w[i] = x
        BY <1>1, <3>1
      <3> QED
        BY <3>2 DEF Elements
    <2>3. ASSUME NEW x \in Elements(v) PROVE x \in Elements(w)
      <3>1. PICK i \in 1 .. Len(v) : x = v[i]
        BY DEF Elements
      <3>2. i + n \in 1 .. Len(w) /\ w[i + n] = x
        BY <1>1, <3>1
      <3> QED
        BY <3>2 DEF Elements
    <2> QED
      BY <2>1, <2>2, <2>3
  <1> QED
    BY <1>1, <1>3, <1>4 DEF w

\* step_by goes through every frame of a usable region once.
LEMMA FilteredFrames ==
    ASSUME NEW region \in Regions, region.start <= region.end
    PROVE  /\ Filtered(region) \in Seq(Nat) /\ Distinct(Filtered(region))
           /\ Elements(Filtered(region)) = FrameSet(region)
  <1>1. CASE region.region_type = "Usable"
    <2> DEFINE a == region.start
               n == region.end - region.start
               u == FramesOf(region)
    <2>1. a \in Nat /\ n \in Nat /\ region.end = a + n
      BY DEF Regions
    <2>2. u = [i \in 1 .. n |-> a + i - 1]
      BY DEF FramesOf
    <2> HIDE DEF a, n, u
    <2>3. u \in Seq(Nat) /\ Len(u) = n /\ \A i \in 1 .. n : u[i] = a + i - 1
      <3>1. \A i \in 1 .. n : a + i - 1 \in Nat
        BY <2>1
      <3> QED
        BY <2>1, <2>2, <3>1
    <2>4. Distinct(u)
      BY <2>1, <2>3 DEF Distinct
    <2>5. Elements(u) = a .. a + n - 1
      <3>1. ASSUME NEW x \in a .. a + n - 1 PROVE x \in Elements(u)
        <4>1. x - a + 1 \in 1 .. n /\ a + (x - a + 1) - 1 = x
          BY <2>1
        <4> QED
          BY <2>3, <4>1 DEF Elements
      <3>2. ASSUME NEW x \in Elements(u) PROVE x \in a .. a + n - 1
        BY <2>1, <2>3 DEF Elements
      <3> QED
        BY <3>1, <3>2, Zenon
    <2>6. Filtered(region) = u /\ FrameSet(region) = a .. a + n - 1
      BY <1>1, <2>1 DEF Filtered, FrameSet, a, u
    <2> QED
      BY <2>3, <2>4, <2>5, <2>6
  <1>2. CASE region.region_type # "Usable"
    <2>1. Filtered(region) = <<>> /\ FrameSet(region) = {}
      BY <1>2 DEF Filtered, FrameSet
    <2>2. <<>> \in Seq(Nat) /\ Len(<<>>) = 0
      OBVIOUS
    <2> QED
      BY <2>1, <2>2 DEF Distinct, Elements
  <1> QED
    BY <1>1, <1>2

\* The frames of a region are in none of those before it.
LEMMA CoveredApart ==
    ASSUME NEW m, IsMemoryMap(m), NEW n \in 1 .. Len(m)
    PROVE  /\ Covered(m, n - 1) \cap FrameSet(m[n]) = {}
           /\ Covered(m, n) = Covered(m, n - 1) \cup FrameSet(m[n])
  <1>1. m \in Seq(Regions) /\ Len(m) \in Nat
    BY DEF IsMemoryMap
  <1>2. ASSUME NEW x \in Covered(m, n - 1), x \in FrameSet(m[n]) PROVE FALSE
    <2>1. PICK k \in 1 .. n - 1 : x \in FrameSet(m[k])
      BY <1>2 DEF Covered
    <2>2. k \in 1 .. Len(m) /\ k # n
      BY <1>1, <2>1
    <2>3. /\ m[k] \in Regions /\ m[n] \in Regions
          /\ m[k].region_type = "Usable" /\ m[n].region_type = "Usable"
          /\ x \in m[k].start .. m[k].end - 1 /\ x \in m[n].start .. m[n].end - 1
      BY <1>1, <1>2, <2>1, <2>2 DEF FrameSet
    <2>4. m[k].end <= m[n].start \/ m[n].end <= m[k].start
      BY <2>2, <2>3 DEF IsMemoryMap
    <2>5. /\ m[k].start \in Nat /\ m[k].end \in Nat
          /\ m[n].start \in Nat /\ m[n].end \in Nat
      BY <2>3 DEF Regions
    <2>6. /\ x \in Int /\ m[k].start <= x /\ x < m[k].end
          /\ m[n].start <= x /\ x < m[n].end
      BY <2>3, <2>5
    <2> QED
      BY <2>4, <2>5, <2>6
  <1>3. 1 .. n = (1 .. n - 1) \cup {n}
    BY <1>1
  <1> QED
    BY <1>2, <1>3 DEF Covered

\* f is what flat_map has yielded, region by region.
Yields(f, m, n) == f = [i \in 0 .. n |-> IF i = 0 THEN <<>> ELSE f[i - 1] \o Filtered(m[i])]

\* A set of numbers up to n has a first element.
LEMMA FirstOf ==
    ASSUME NEW n \in Nat, NEW bad \in SUBSET (0 .. n), bad # {}
    PROVE  \E k \in bad : \A l \in bad : k <= l
  <1>1. bad \subseteq Nat
    OBVIOUS
  <1>2. PICK k \in bad : \A l \in bad : ~ (<<l, k>> \in OpToRel(<, Nat))
    BY <1>1, NatLessThanWellFounded, WFMin, Zenon
  <1>3. \A l \in bad : ~ (l < k)
    BY <1>1, <1>2, Zenon DEF OpToRel
  <1>4. \A l \in bad : k <= l
    BY <1>1, <1>3
  <1> QED
    BY <1>4

\* The iterator goes on from one region to the next.
LEMMA YieldsExist ==
    ASSUME NEW m, NEW n \in Nat
    PROVE  \E f : Yields(f, m, n)
  <1> SUFFICES ASSUME ~ \E f : Yields(f, m, n) PROVE FALSE
    OBVIOUS
  <1> DEFINE bad == {k \in 0 .. n : ~ \E f : Yields(f, m, k)}
  <1>1. bad \in SUBSET (0 .. n) /\ n \in bad
    OBVIOUS
  <1>2. PICK k \in bad : \A l \in bad : k <= l
    BY <1>1, FirstOf, Zenon
  <1>3. k \in 0 .. n /\ ~ \E f : Yields(f, m, k)
    BY <1>2
  <1>4. CASE k = 0
    <2> DEFINE f == [i \in 0 .. 0 |-> <<>>]
    <2>1. f = [i \in 0 .. 0 |-> IF i = 0 THEN <<>> ELSE f[i - 1] \o Filtered(m[i])]
      OBVIOUS
    <2> QED
      BY <1>3, <1>4, <2>1, Zenon DEF Yields
  <1>5. CASE k # 0
    <2>1. k - 1 \in 0 .. n /\ k - 1 \notin bad
      BY <1>2, <1>3, <1>5
    <2>2. PICK f : Yields(f, m, k - 1)
      BY <2>1
    <2> DEFINE g == [i \in 0 .. k |-> IF i = k THEN f[k - 1] \o Filtered(m[k]) ELSE f[i]]
               h == [i \in 0 .. k |-> IF i = 0 THEN <<>> ELSE g[i - 1] \o Filtered(m[i])]
    <2>3. \A i \in 0 .. k - 1 : f[i] = IF i = 0 THEN <<>> ELSE f[i - 1] \o Filtered(m[i])
      BY <2>2, Zenon DEF Yields
    <2>4. \A i \in 0 .. k : i # k => g[i] = f[i]
      BY <1>3
    <2>5. g[k] = f[k - 1] \o Filtered(m[k]) /\ g[k - 1] = f[k - 1]
      BY <1>3, <1>5
    <2>6. ASSUME NEW i \in 0 .. k PROVE g[i] = h[i]
      <3> HIDE DEF g
      <3>1. CASE i = k
        BY <1>3, <1>5, <2>5, <3>1, Zenon
      <3>2. CASE i # k
        <4>1. i \in 0 .. k - 1 /\ (i # 0 => i - 1 \in 0 .. k /\ i - 1 # k)
          BY <1>3, <2>6, <3>2
        <4> QED
          BY <2>3, <2>4, <3>2, <4>1
      <3> QED
        BY <3>1, <3>2
    <2>7. g = h
      BY <2>6, Zenon
    <2> QED
      BY <1>3, <2>7, Zenon DEF Yields
  <1> QED
    BY <1>4, <1>5

\* usable_frames yields each frame of every usable region once, and no other,
\* for every memory map whose usable regions do not overlap.
THEOREM UsableFramesExact ==
    ASSUME NEW m, IsMemoryMap(m)
    PROVE  /\ UsableFrames(m) \in Seq(Nat)
           /\ Distinct(UsableFrames(m))
           /\ Elements(UsableFrames(m)) = Covered(m, Len(m))
  <1> DEFINE N == Len(m)
             c == CHOOSE f : Yields(f, m, N)
             Good(n) == /\ c[n] \in Seq(Nat) /\ Distinct(c[n])
                        /\ Elements(c[n]) = Covered(m, n)
  <1>1. m \in Seq(Regions) /\ N \in Nat
    BY DEF IsMemoryMap
  <1>2. Yields(c, m, N)
    BY <1>1, YieldsExist
  <1>3. UsableFrames(m) = c[N]
    BY DEF UsableFrames, Yields
  <1> HIDE DEF c
  <1>4. /\ c[0] = <<>>
        /\ \A n \in 1 .. N : c[n] = c[n - 1] \o Filtered(m[n])
    <2>1. \A n \in 0 .. N : c[n] = IF n = 0 THEN <<>> ELSE c[n - 1] \o Filtered(m[n])
      BY <1>2 DEF Yields
    <2>2. 0 \in 0 .. N /\ \A n \in 1 .. N : n \in 0 .. N /\ n # 0
      BY <1>1
    <2>3. c[0] = <<>>
      BY <2>1, <2>2
    <2>4. ASSUME NEW n \in 1 .. N PROVE c[n] = c[n - 1] \o Filtered(m[n])
      BY <2>1, <2>2, Zenon
    <2> QED
      BY <2>3, <2>4, Zenon
  <1>5. Good(0)
    <2>1. <<>> \in Seq(Nat) /\ Len(<<>>) = 0 /\ 1 .. 0 = {}
      OBVIOUS
    <2> QED
      BY <1>4, <2>1 DEF Distinct, Elements, Covered
  <1>6. ASSUME NEW n \in 1 .. N, Good(n - 1) PROVE Good(n)
    <2>1. m[n] \in Regions /\ m[n].start <= m[n].end
      BY <1>1, <1>6 DEF IsMemoryMap
    <2> DEFINE v == Filtered(m[n])
               u == c[n - 1]
    <2>2. v \in Seq(Nat) /\ Distinct(v) /\ Elements(v) = FrameSet(m[n])
      BY <2>1, FilteredFrames
    <2>3. /\ Covered(m, n - 1) \cap FrameSet(m[n]) = {}
          /\ Covered(m, n) = Covered(m, n - 1) \cup FrameSet(m[n])
      BY <1>6, CoveredApart
    <2>4. u \in Seq(Nat) /\ Distinct(u) /\ Elements(u) = Covered(m, n - 1)
      BY <1>6
    <2>5. c[n] = u \o v
      BY <1>4, <1>6, Zenon
    <2> HIDE DEF u, v
    <2>6. Elements(u) \cap Elements(v) = {}
      BY <2>2, <2>3, <2>4
    <2>7. /\ u \o v \in Seq(Nat) /\ Distinct(u \o v)
          /\ Elements(u \o v) = Elements(u) \cup Elements(v)
      BY <2>2, <2>4, <2>6, DistinctConcat
    <2> QED
      BY <2>2, <2>3, <2>4, <2>5, <2>7
  <1>7. Good(N)
    <2> SUFFICES ASSUME ~ Good(N) PROVE FALSE
      OBVIOUS
    <2> HIDE DEF Good
    <2> DEFINE bad == {k \in 0 .. N : ~ Good(k)}
    <2>1. bad \in SUBSET (0 .. N) /\ bad # {}
      BY <1>1
    <2>2. PICK k \in bad : \A l \in bad : k <= l
      BY <1>1, <2>1, FirstOf, Zenon
    <2>3. k \in 0 .. N /\ ~ Good(k) /\ k # 0
      BY <1>5, <2>2
    <2>4. k \in 1 .. N /\ k - 1 \in 0 .. N /\ k - 1 \notin bad
      BY <1>1, <2>2, <2>3
    <2>5. Good(k - 1)
      BY <2>4
    <2> QED
      BY <1>6, <2>3, <2>4, <2>5
  <1> QED
    BY <1>3, <1>7

\* So allocate_frame never counts a frame twice.
LEMMA ListsDistinct ==
    ASSUME NEW u \in FrameLists
    PROVE  u \in Seq(Nat) /\ \A i, j \in 1 .. Len(u) : u[i] = u[j] => i = j
  <1>1. PICK m \in MemoryMaps : u = UsableFrames(m)
    BY DEF FrameLists
  <1>2. IsMemoryMap(m)
    BY MemoryAssumption
  <1> QED
    BY <1>1, <1>2, UsableFramesExact DEF Distinct
-----------------------------------------------------------------------------
(* The set-up of the heap.                                                 *)

Taken == {usable[i] : i \in {k \in 1 .. Len(usable) : k <= next}}

\* The frames in use are those that have been taken from the allocator, and the
\* loop has mapped exactly the pages below the current one, none of them one
\* that the boot loader uses.
UsedAreTaken ==
    /\ Taken \subseteq InUse
    /\ tables \subseteq Taken
    /\ frame # None => frame \in Taken
    /\ \A p \in Pages : entry[p] # None => entry[p] \in Taken
    /\ \A p \in Pages : entry[p] # None <=> p < page
    /\ \A p \in Pages : p < page => p \notin blocked
    /\ frame # None => page < HeapPages
    /\ heap = "ready" => page = HeapPages

MemInv == MemoryTypeOK /\ FramesExclusive /\ UsedAreTaken /\ FailsOnlyWithCause

\* The frame nth(next) returns is usable and has not been taken before.
LEMMA NextIsFresh ==
    ASSUME MemInv, Nth(next) # None
    PROVE  /\ Nth(next) \in Nat
           /\ Nth(next) \in Frames
           /\ Nth(next) \notin Taken
           /\ Taken \subseteq Frames
           /\ {usable[i] : i \in {k \in 1 .. Len(usable) : k <= next + 1}} = Taken \cup {Nth(next)}
  <1>1. /\ usable \in Seq(Nat) /\ Len(usable) \in Nat /\ next \in Nat
        /\ \A i, j \in 1 .. Len(usable) : usable[i] = usable[j] => i = j
    BY ListsDistinct DEF MemInv, MemoryTypeOK
  <1>2. next < Len(usable) /\ Nth(next) = usable[next + 1]
    BY DEF Nth
  <1>3. next + 1 \in 1 .. Len(usable)
    BY <1>1, <1>2
  <1>4. Nth(next) \in Nat /\ Nth(next) \in Frames
    BY <1>1, <1>2, <1>3 DEF Frames
  <1>5. Nth(next) \notin Taken
    BY <1>1, <1>2, <1>3 DEF Taken
  <1>6. Taken \subseteq Frames
    BY DEF Taken, Frames
  <1>7. {usable[i] : i \in {k \in 1 .. Len(usable) : k <= next + 1}} = Taken \cup {Nth(next)}
    BY <1>1, <1>2, <1>3 DEF Taken
  <1> QED
    BY <1>4, <1>5, <1>6, <1>7

\* A call of allocate_frame that finds nothing: the list is used up.
LEMMA NothingLeft ==
    ASSUME MemInv, Nth(next) = None
    PROVE  /\ Taken = Frames
           /\ {usable[i] : i \in {k \in 1 .. Len(usable) : k <= next + 1}} = Taken
  <1>1. /\ usable \in Seq(Nat) /\ Len(usable) \in Nat /\ next \in Nat
    BY ListsDistinct DEF MemInv, MemoryTypeOK
  <1>2. ~(next < Len(usable))
    BY <1>1, MemoryAssumption DEF Nth
  <1> QED
    BY <1>1, <1>2 DEF Taken, Frames

\* The frames in use are the frames taken.
LEMMA InUseIsTaken == UsedAreTaken => InUse = Taken
  BY DEF UsedAreTaken, InUse

\* The initial state.
LEMMA InitMemInv == Init => MemInv
  <1> SUFFICES ASSUME Init PROVE MemInv
    OBVIOUS
  <1>1. MemoryTypeOK /\ FramesExclusive /\ FailsOnlyWithCause
    BY MemoryAssumption DEF Init, MemoryTypeOK, FramesExclusive, FailsOnlyWithCause, Pages,
       TableLevels
  <1>2. Taken = {}
    <2>1. Len(usable) \in Nat
      BY ListsDistinct DEF Init
    <2> QED
      BY <2>1 DEF Init, Taken
  <1>3. UsedAreTaken
    BY <1>2, MemoryAssumption DEF Init, UsedAreTaken, Pages
  <1> QED
    BY <1>1, <1>3 DEF MemInv

\* The frame for the next page.
LEMMA TakeFrameInv == MemInv /\ TakeFrame => MemInv'
  <1> SUFFICES ASSUME MemInv, TakeFrame PROVE MemInv'
    OBVIOUS
  <1> USE DEF TakeFrame
  <1>0. MemoryTypeOK /\ FramesExclusive /\ UsedAreTaken /\ FailsOnlyWithCause
    BY DEF MemInv
  <1>1. CASE Nth(next) = None
    <2>1. MemoryTypeOK'
      BY <1>0, <1>1 DEF MemoryTypeOK, Missing, TableLevels
    <2>2. FramesExclusive'
      BY <1>0, <1>1 DEF FramesExclusive, Frames
    <2>3. Taken' = Taken /\ Frames' = Frames /\ InUse' = InUse
      <3>1. Taken' = Taken
        BY <1>1, NothingLeft, Zenon DEF Taken
      <3>2. frame' = frame /\ entry' = entry /\ tables' = tables /\ usable' = usable
        BY <1>1
      <3> QED
        BY <3>1, <3>2, Zenon DEF Frames, InUse
    <2>4. UsedAreTaken'
      BY <1>0, <1>1, <2>3 DEF UsedAreTaken
    <2>5. FailsOnlyWithCause'
      BY <1>0, <1>1, <2>3, NothingLeft, InUseIsTaken DEF FailsOnlyWithCause
    <2> QED
      BY <2>1, <2>2, <2>4, <2>5 DEF MemInv
  <1>2. CASE Nth(next) # None
    <2>1. MemoryTypeOK'
      BY <1>0, <1>2, NextIsFresh DEF MemoryTypeOK, Missing, TableLevels
    <2>2. FramesExclusive'
      <3>1. Nth(next) \notin Taken
        BY <1>2, NextIsFresh
      <3>2. /\ \A p \in Pages : entry[p] # None => entry[p] \in Frames \ tables /\ entry[p] \in Taken
            /\ tables \subseteq Frames /\ tables \subseteq Taken
        BY <1>0 DEF FramesExclusive, UsedAreTaken
      <3>3. entry' = entry /\ tables' = tables /\ Frames' = Frames /\ frame' = Nth(next)
        BY <1>2 DEF Frames
      <3>4. /\ \A p \in Pages : entry'[p] # None => entry'[p] \in Frames' \ (tables' \cup {frame'})
            /\ tables' \subseteq Frames' \ {frame'}
        BY <3>1, <3>2, <3>3
      <3>5. \A p, q \in Pages : entry'[p] # None /\ entry'[p] = entry'[q] => p = q
        BY <1>0, <3>3 DEF FramesExclusive
      <3> QED
        BY <3>4, <3>5 DEF FramesExclusive
    <2>3. UsedAreTaken'
      <3>1. Taken' = Taken \cup {Nth(next)}
        BY <1>2, NextIsFresh, Zenon DEF Taken
      <3>2. InUse' = InUse \cup {Nth(next)}
        BY <1>2 DEF InUse
      <3> QED
        BY <1>0, <1>2, <3>1, <3>2 DEF UsedAreTaken
    <2>4. FailsOnlyWithCause'
      BY <1>0, <1>2 DEF FailsOnlyWithCause
    <2> QED
      BY <2>1, <2>2, <2>3, <2>4 DEF MemInv
  <1> QED
    BY <1>1, <1>2

\* A page table is created in the middle of map_to.
LEMMA CreateTableInv == MemInv /\ CreateTable => MemInv'
  <1> SUFFICES ASSUME MemInv, CreateTable PROVE MemInv'
    OBVIOUS
  <1> USE DEF CreateTable
  <1>0. MemoryTypeOK /\ FramesExclusive /\ UsedAreTaken /\ FailsOnlyWithCause
    BY DEF MemInv
  <1>m. missing' \in 0 .. TableLevels /\ next' \in Nat
    BY <1>0 DEF MemoryTypeOK, TableLevels
  <1>1. CASE Nth(next) = None
    <2>1. tables' = tables
      BY <1>1
    <2>2. MemoryTypeOK'
      BY <1>0, <1>m, <1>1, <2>1, Zenon DEF MemoryTypeOK
    <2>3. FramesExclusive'
      <3>1. entry' = entry /\ tables' = tables /\ Frames' = Frames /\ frame' = frame
        BY <2>1 DEF Frames
      <3> QED
        BY <1>0, <3>1 DEF FramesExclusive
    <2>4. Taken' = Taken /\ Frames' = Frames /\ InUse' = InUse
      <3>1. Taken' = Taken
        BY <1>1, NothingLeft, Zenon DEF Taken
      <3> QED
        BY <2>1, <3>1, Zenon DEF Frames, InUse
    <2>5. UsedAreTaken'
      BY <1>0, <1>1, <2>1, <2>4 DEF UsedAreTaken
    <2>6. FailsOnlyWithCause'
      BY <1>0, <1>1, <2>4, NothingLeft, InUseIsTaken DEF FailsOnlyWithCause
    <2> QED
      BY <2>2, <2>3, <2>5, <2>6 DEF MemInv
  <1>2. CASE Nth(next) # None
    <2>1. tables' = tables \cup {Nth(next)}
      BY <1>2
    <2>2. MemoryTypeOK'
      BY <1>0, <1>m, <1>2, <2>1, NextIsFresh, Zenon DEF MemoryTypeOK
    <2>3. FramesExclusive'
      <3>1. Nth(next) \notin Taken /\ Nth(next) \in Frames
        BY <1>2, NextIsFresh
      <3>2. frame # Nth(next)
        BY <1>0, <3>1 DEF UsedAreTaken
      <3>3. /\ \A p \in Pages : entry[p] # None => /\ entry[p] \in Frames \ (tables \cup {frame})
                                                   /\ entry[p] \in Taken
            /\ tables \subseteq Frames \ {frame}
        BY <1>0 DEF FramesExclusive, UsedAreTaken
      <3>4. entry' = entry /\ Frames' = Frames /\ frame' = frame
        BY DEF Frames
      <3>5. /\ \A p \in Pages : entry'[p] # None => entry'[p] \in Frames' \ (tables' \cup {frame'})
            /\ tables' \subseteq Frames' \ {frame'}
        BY <2>1, <3>1, <3>2, <3>3, <3>4
      <3>6. \A p, q \in Pages : entry'[p] # None /\ entry'[p] = entry'[q] => p = q
        BY <1>0, <3>4 DEF FramesExclusive
      <3> QED
        BY <3>5, <3>6 DEF FramesExclusive
    <2>4. UsedAreTaken'
      <3>1. Taken' = Taken \cup {Nth(next)}
        BY <1>2, NextIsFresh, Zenon DEF Taken
      <3>2. InUse' = InUse \cup {Nth(next)}
        BY <1>2, <2>1 DEF InUse
      <3> QED
        BY <1>0, <1>2, <2>1, <3>1, <3>2 DEF UsedAreTaken
    <2>5. FailsOnlyWithCause'
      BY <1>0, <1>2 DEF FailsOnlyWithCause
    <2> QED
      BY <2>2, <2>3, <2>4, <2>5 DEF MemInv
  <1> QED
    BY <1>1, <1>2

\* The entry of the page is written.
LEMMA MapPageInv == MemInv /\ MapPage => MemInv'
  <1> SUFFICES ASSUME MemInv, MapPage PROVE MemInv'
    OBVIOUS
  <1> USE MemoryAssumption DEF MapPage
  <1>0. MemoryTypeOK /\ FramesExclusive /\ UsedAreTaken /\ FailsOnlyWithCause
    BY DEF MemInv
  <1>1. page \in Pages /\ page + 1 \in 0 .. HeapPages /\ frame \in Nat /\ frame \in Taken
    BY <1>0 DEF MemoryTypeOK, UsedAreTaken, Pages
  <1>2. frame \in Frames
    BY <1>1 DEF Taken, Frames
  <1>3. entry' = [entry EXCEPT ![page] = frame] /\ entry \in [Pages -> Nat \cup {None}]
    BY <1>0 DEF MemoryTypeOK
  <1>4. \A p \in Pages : entry'[p] = IF p = page THEN frame ELSE entry[p]
    BY <1>3
  <1>5. MemoryTypeOK'
    BY <1>0, <1>1, <1>3 DEF MemoryTypeOK
  <1>6. FramesExclusive'
    <2>1. \A p \in Pages : entry[p] # None => entry[p] # frame
      BY <1>0 DEF FramesExclusive
    <2>2. \A p, q \in Pages : entry'[p] # None /\ entry'[p] = entry'[q] => p = q
      BY <1>0, <1>1, <1>4, <2>1 DEF FramesExclusive
    <2>3. \A p \in Pages : entry'[p] # None => entry'[p] \in Frames \ (tables \cup {None})
      BY <1>0, <1>1, <1>2, <1>4 DEF FramesExclusive
    <2>4. tables \subseteq Frames \ {None}
      BY <1>0 DEF FramesExclusive, MemoryTypeOK
    <2> QED
      BY <2>2, <2>3, <2>4 DEF FramesExclusive, Frames
  <1>7. UsedAreTaken'
    <2>1. Taken' = Taken
      BY DEF Taken
    <2>2. \A p \in Pages : entry'[p] # None <=> p < page + 1
      BY <1>0, <1>1, <1>4 DEF UsedAreTaken, Pages
    <2>3. \A p \in Pages : p < page + 1 => p \notin blocked
      BY <1>0, <1>1 DEF UsedAreTaken, Pages
    <2>4. Taken \subseteq InUse'
      <3>1. ASSUME NEW x \in Taken PROVE x \in InUse'
        <4>1. x # None /\ x \in InUse
          BY <1>0 DEF UsedAreTaken, InUse
        <4>2. CASE x \in tables
          BY <4>1, <4>2 DEF InUse
        <4>3. CASE x = frame
          BY <1>1, <1>4, <4>1, <4>3 DEF InUse
        <4>4. CASE \E p \in Pages : x = entry[p]
          <5>1. PICK p \in Pages : x = entry[p]
            BY <4>4
          <5>2. p # page
            <6>1. p < page /\ page \in Nat
              BY <1>0, <4>1, <5>1 DEF UsedAreTaken, MemoryTypeOK
            <6> QED
              BY <6>1
          <5> QED
            BY <1>4, <4>1, <5>1, <5>2 DEF InUse
        <4> QED
          BY <4>1, <4>2, <4>3, <4>4 DEF InUse
      <3> QED
        BY <3>1
    <2> QED
      BY <1>0, <1>1, <1>4, <2>1, <2>2, <2>3, <2>4 DEF UsedAreTaken
  <1>8. FailsOnlyWithCause'
    BY <1>0 DEF FailsOnlyWithCause
  <1> QED
    BY <1>5, <1>6, <1>7, <1>8 DEF MemInv

\* map_to finds the page in use.
LEMMA MapFailsInv == MemInv /\ MapFails => MemInv'
  <1> SUFFICES ASSUME MemInv, MapFails PROVE MemInv'
    OBVIOUS
  <1>1. /\ usable' = usable /\ blocked' = blocked /\ next' = next /\ page' = page
        /\ frame' = frame /\ missing' = missing /\ tables' = tables /\ entry' = entry
        /\ heap' = "failed" /\ page \in blocked
    BY DEF MapFails
  <1>2. MemoryTypeOK'
    BY <1>1 DEF MemInv, MemoryTypeOK
  <1>3. Frames' = Frames /\ Taken' = Taken /\ InUse' = InUse
    BY <1>1, Zenon DEF Frames, Taken, InUse
  <1>4. FramesExclusive'
    BY <1>1, <1>3 DEF MemInv, FramesExclusive
  <1>5. UsedAreTaken'
    BY <1>1, <1>3 DEF MemInv, UsedAreTaken
  <1>6. FailsOnlyWithCause'
    BY <1>1 DEF FailsOnlyWithCause
  <1> QED
    BY <1>2, <1>4, <1>5, <1>6 DEF MemInv

\* The allocator is initialised.
LEMMA InitAllocatorInv == MemInv /\ InitAllocator => MemInv'
  BY DEF MemInv, InitAllocator, MemoryTypeOK, FramesExclusive, Frames, UsedAreTaken, Taken,
         InUse, FailsOnlyWithCause

\* The inductive invariant holds in every reachable state.
THEOREM MemInvariant == Spec => []MemInv
  <1>1. MemInv /\ [Next]_vars => MemInv'
    <2> SUFFICES ASSUME MemInv, [Next]_vars PROVE MemInv'
      OBVIOUS
    <2>1. CASE UNCHANGED vars
      BY <2>1 DEF vars, MemInv, MemoryTypeOK, FramesExclusive, Frames, UsedAreTaken, Taken,
                  InUse, FailsOnlyWithCause
    <2> QED
      BY <2>1, TakeFrameInv, CreateTableInv, MapPageInv, MapFailsInv, InitAllocatorInv
         DEF Next
  <1> QED
    BY <1>1, InitMemInv, PTL DEF Spec

\* The frame counter, the page and the entries keep their types.
THEOREM MemoryTyped == Spec => []MemoryTypeOK
  BY MemInvariant, PTL DEF MemInv

\* For every memory map without overlaps: no frame serves two pages of the
\* heap, or a page and a page table.
THEOREM FramesAlwaysExclusive == Spec => []FramesExclusive
  BY MemInvariant, PTL DEF MemInv

\* ALLOCATOR.init is only reached with the whole heap mapped, and mapped where
\* the boot loader had nothing.
THEOREM ReadyHeapAlwaysMapped == Spec => []ReadyHeapIsMapped
  <1>1. MemInv => ReadyHeapIsMapped
    BY MemoryAssumption DEF MemInv, UsedAreTaken, ReadyHeapIsMapped, Pages
  <1> QED
    BY <1>1, MemInvariant, PTL

\* For every memory map and every state of the boot loader's page tables, the
\* expect of setup panics only when one of the pages is in use or every usable
\* frame has become part of the heap or of its page tables.
THEOREM AlwaysFailsOnlyWithCause == Spec => []FailsOnlyWithCause
  BY MemInvariant, PTL DEF MemInv

\* Every frame that is mapped to a page or holds a page table lies in a usable
\* region of the memory map that boot_info passed.
InUsableRegions ==
    \E m \in MemoryMaps :
        /\ usable = UsableFrames(m)
        /\ tables \subseteq Covered(m, Len(m))
        /\ \A p \in Pages : entry[p] # None => entry[p] \in Covered(m, Len(m))

\* init_heap and map_to write to no frame of a region that is not usable.
THEOREM FramesAlwaysUsable == Spec => []InUsableRegions
  <1>1. MemInv => InUsableRegions
    <2> SUFFICES ASSUME MemInv PROVE InUsableRegions
      OBVIOUS
    <2>1. MemoryTypeOK /\ UsedAreTaken
      BY DEF MemInv
    <2>2. PICK m \in MemoryMaps : usable = UsableFrames(m)
      BY <2>1 DEF MemoryTypeOK, FrameLists
    <2>3. Elements(usable) = Covered(m, Len(m))
      BY <2>2, MemoryAssumption, UsableFramesExact
    <2>4. Taken \subseteq Elements(usable)
      BY DEF Taken, Elements
    <2>5. tables \subseteq Taken /\ \A p \in Pages : entry[p] # None => entry[p] \in Taken
      BY <2>1 DEF UsedAreTaken
    <2> QED
      BY <2>2, <2>3, <2>4, <2>5 DEF InUsableRegions
  <1> QED
    BY <1>1, MemInvariant, PTL
-----------------------------------------------------------------------------
(* The blocks are on mapped pages.                                         *)

\* The page of an address of the heap is one of the pages of the heap.
LEMMA PageOfAddress ==
    ASSUME NEW a \in Addresses
    PROVE  a \div PageSize \in Pages
  <1>1. HeapPages \in Nat /\ PageSize \in Nat \ {0} /\ a \in Nat /\ a < HeapPages * PageSize
    BY HeapAssumption, MemoryAssumption, BlockAssumption DEF Addresses
  <1>2. \A n, m \in Nat : \A d \in Nat \ {0} : n < m * d => n \div d \in Nat /\ n \div d < m
    <2> SUFFICES ASSUME NEW n \in Nat, NEW m \in Nat, NEW d \in Nat \ {0}, n < m * d
                 PROVE  n \div d \in Nat /\ n \div d < m
      OBVIOUS
    <2> DEFINE q == n \div d
    <2>1. q \in Nat /\ d * q <= n
      BY SMT
    <2> HIDE DEF q
    <2>2. m <= q => m * d <= d * q
      BY <2>1, SMT
    <2>3. m * d \in Nat /\ d * q \in Nat
      BY <2>1, SMT
    <2>4. q < m
      BY <2>1, <2>2, <2>3
    <2> QED
      BY <2>1, <2>4 DEF q
  <1>3. a \div PageSize \in Nat /\ a \div PageSize < HeapPages
    BY <1>1, <1>2, Zenon
  <1> DEFINE p == a \div PageSize
  <1>4. p \in Nat /\ p < HeapPages
    BY <1>3
  <1> HIDE DEF p
  <1>5. p \in Pages
    BY <1>1, <1>4 DEF Pages
  <1> QED
    BY <1>5 DEF p

\* A behaviour of the composition is one of the boot and one of the allocator.
LEMMA HeapComposes ==
    HeapSpec => Spec /\ BlocksSpec /\ [](live # {} => heap = "ready")
  <1>1. HeapInit => Init /\ BlocksInit /\ (live # {} => heap = "ready")
    BY DEF HeapInit, BlocksInit
  <1>2. [HeapNext]_<<vars, blockVars>> => [Next]_vars /\ [BlocksNext]_blockVars
    BY DEF HeapNext, SetupStep, UseHeap
  <1>3. (live # {} => heap = "ready") /\ [HeapNext]_<<vars, blockVars>>
        => (live # {} => heap = "ready")'
    BY DEF HeapNext, SetupStep, UseHeap, vars, blockVars, Next, TakeFrame, CreateTable,
           MapPage, MapFails, InitAllocator
  <1> QED
    BY <1>1, <1>2, <1>3, PTL DEF HeapSpec, Spec, BlocksSpec

\* As long as the fallback heap is right, every word of every block in use lies
\* in a page that init_heap has mapped to a frame of its own, for every memory
\* map, heap size and block sizes.
THEOREM HeapBlocksMapped == HeapSpec => []BlocksMapped
  <1>1. /\ live # {} => heap = "ready"
        /\ MemInv /\ ReadyHeapIsMapped
        /\ sound => BlocksInv /\ LiveBlocksSound
        => BlocksMapped
    <2> SUFFICES ASSUME live # {} => heap = "ready", MemInv, ReadyHeapIsMapped, BlocksInv,
                        LiveBlocksSound,
                        NEW b \in live, NEW a \in Extent(b.ptr, b.layout.size)
                 PROVE  entry[a \div PageSize] \notin tables \cup {None}
      BY DEF BlocksMapped
    <2>1. b.layout \in Layouts
      BY DEF BlocksInv, BlocksTypeOK
    <2>2. b.layout.size \in Nat \ {0} /\ HeapSize \in Nat
      BY <2>1, BlockAssumption
    <2>3. a \in Addresses
      BY <2>2 DEF LiveBlocksSound, Extent, Addresses
    <2>4. a \div PageSize \in Pages
      BY <2>3, PageOfAddress
    <2> QED
      BY <2>4 DEF ReadyHeapIsMapped, MemInv, FramesExclusive
  <1> QED
    BY <1>1, HeapComposes, MemInvariant, ReadyHeapAlwaysMapped, BlocksInvariant, PTL

\* What the boot and the allocator promise each on its own they keep together:
\* no frame is given out twice, a ready heap is mapped, and, as long as the
\* fallback heap is right, no freed block is lost and the blocks handed out are
\* as GlobalAlloc says.
THEOREM HeapKeepsBoth ==
    HeapSpec => [](FramesExclusive /\ ReadyHeapIsMapped /\ FreeBlocksListed)
                /\ ImplementsGlobalAlloc
  <1>1. MemInv => FramesExclusive
    BY DEF MemInv
  <1> QED
    BY <1>1, HeapComposes, MemInvariant, ReadyHeapAlwaysMapped, FreeBlocksAlwaysListed,
       BlocksImplementGlobalAlloc, PTL
=============================================================================
