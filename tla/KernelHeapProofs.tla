-------------------------- MODULE KernelHeapProofs --------------------------
(***************************************************************************)
(* Proofs about KernelHeap, for every memory map whose heap areas do not   *)
(* touch, every size of the bump heap, the stack and the nodes, and every  *)
(* set of layouts.                                                         *)
(***************************************************************************)
EXTENDS KernelHeap, FiniteSetTheorems, TLAPS

(* What is proved about the operations of the tree allocator. *)
PoolProofs == INSTANCE RegionPoolProofs WITH Areas <- {}, Requests <- {}

-----------------------------------------------------------------------------
(* The operations of the tree allocator.                                   *)

(* The assumptions of Regions hold of no areas and no requests. *)
LEMMA NoAreas ==
  /\ {} \subseteq PoolProofs!Region
  /\ \A r, s \in {} : r = s \/ PoolProofs!Before(r, s) \/ PoolProofs!Before(s, r)
  /\ {} \subseteq PoolProofs!Request
  /\ Hhdm \in Nat
  /\ \A r \in {} : Hhdm <= r.base
  BY SizesAssumption

(* The predicates on regions are the same in both instances. *)
LEMMA SameRegions ==
  /\ Pool!Region = PoolProofs!Region
  /\ Pool!Request = PoolProofs!Request
  /\ \A r : Pool!End(r) = PoolProofs!End(r)
  /\ \A r, s : Pool!Before(r, s) <=> PoolProofs!Before(r, s)
  /\ \A r, s : Pool!Disjoint(r, s) <=> PoolProofs!Disjoint(r, s)
  /\ \A r, s : Pool!Inside(r, s) <=> PoolProofs!Inside(r, s)
  BY DEF Pool!Region, PoolProofs!Region, Pool!Request, PoolProofs!Request,
         Pool!End, PoolProofs!End, Pool!Before, PoolProofs!Before,
         Pool!Disjoint, PoolProofs!Disjoint, Pool!Inside, PoolProofs!Inside

(* So is what keeps the pool apart. *)
LEMMA SameApart ==
  /\ Pool!Apart <=> PoolProofs!Apart
  /\ Pool!Apart' <=> PoolProofs!Apart'
  BY DEF Pool!Apart, PoolProofs!Apart, Pool!TypeOK, PoolProofs!TypeOK,
         Pool!FreeApart, PoolProofs!FreeApart,
         Pool!FreeClearOfLive, PoolProofs!FreeClearOfLive,
         Pool!LiveDisjoint, PoolProofs!LiveDisjoint,
         Pool!Region, PoolProofs!Region, Pool!End, PoolProofs!End,
         Pool!Before, PoolProofs!Before, Pool!Disjoint, PoolProofs!Disjoint

(* So are the operations. *)
LEMMA SameOperations ==
  /\ \A q : Pool!Alloc(q) => PoolProofs!Alloc(q)
  /\ \A b : Pool!Free(b) => PoolProofs!Free(b)
<1>1. \A q : Pool!Alloc(q) => PoolProofs!Alloc(q)
  BY DEF Pool!Alloc, PoolProofs!Alloc, Pool!Fits, PoolProofs!Fits, Pool!Cut, PoolProofs!Cut,
         Pool!Rest, PoolProofs!Rest, Pool!AlignUp, PoolProofs!AlignUp,
         Pool!End, PoolProofs!End, Pool!SameWindow, PoolProofs!SameWindow,
         Pool!ToPhysicalAddr, PoolProofs!ToPhysicalAddr
<1>2. \A b : Pool!Free(b) => PoolProofs!Free(b)
  BY DEF Pool!Free, PoolProofs!Free, Pool!Predecessor, PoolProofs!Predecessor,
         Pool!Successor, PoolProofs!Successor,
         Pool!MergePredecessor, PoolProofs!MergePredecessor,
         Pool!MergeSuccessor, PoolProofs!MergeSuccessor,
         Pool!End, PoolProofs!End, Pool!Max2, PoolProofs!Max2
<1> QED
  BY <1>1, <1>2

(***************************************************************************)
(* What a step of the tree allocator does: it keeps its regions and blocks *)
(* apart, within what was free or in use, and adds one region at most.     *)
(***************************************************************************)
PoolStep == Pool!Apart' /\ PoolProofs!AllWithin

LEMMA PoolAlloc ==
  ASSUME Pool!Apart, NEW q \in Pool!Request, Pool!Alloc(q)
  PROVE  /\ PoolStep
         /\ \E r \in free : \E t : t \notin free \ {r} /\ free' = (free \ {r}) \cup {t}
<1>1. q \in PoolProofs!Request /\ PoolProofs!Apart /\ PoolProofs!Alloc(q)
  BY SameRegions, SameApart, SameOperations
<1>2. /\ PoolProofs!Apart' /\ PoolProofs!AllWithin
      /\ \E r \in free : \E t : t \notin free \ {r} /\ free' = (free \ {r}) \cup {t}
  BY <1>1, NoAreas, PoolProofs!AllocOutcome
<1> QED
  BY <1>2, SameApart DEF PoolStep

LEMMA PoolFree ==
  ASSUME Pool!Apart, NEW b \in live, Pool!Free(b)
  PROVE  PoolStep /\ \E m : free' \subseteq free \cup {m}
<1>1. PoolProofs!Apart /\ PoolProofs!Free(b)
  BY SameApart, SameOperations
<1>2. PoolProofs!Apart' /\ PoolProofs!AllWithin /\ \E m : free' \subseteq free \cup {m}
  BY <1>1, NoAreas, PoolProofs!FreeOutcome
<1> QED
  BY <1>2, SameApart DEF PoolStep

(* Memory that is heap stays inside the areas of the heap. *)
LEMMA PoolInside ==
  ASSUME Pool!Apart, PoolStep, NEW A, A \subseteq Pool!Region,
         \A a, c \in A : a = c \/ Pool!Before(a, c) \/ Pool!Before(c, a),
         \A r \in free \cup live : \E a \in A : Pool!Inside(r, a)
  PROVE  \A x \in free' \cup live' : \E a \in A : Pool!Inside(x, a)
<1>1. /\ A \in SUBSET PoolProofs!Region /\ PoolProofs!Separate(A)
      /\ \A r \in free \cup live : \E a \in A : PoolProofs!Inside(r, a)
  BY SameRegions DEF PoolProofs!Separate
<1>2. PoolProofs!Apart /\ PoolProofs!Apart' /\ PoolProofs!AllWithin
  BY SameApart DEF PoolStep
<1>3. \A x \in free' \cup live' : \E a \in A : PoolProofs!Inside(x, a)
  BY <1>1, <1>2, NoAreas, PoolProofs!StaysInside
<1> QED
  BY <1>3, SameRegions

(* Memory that is neither free nor in use does not become either. *)
LEMMA PoolClear ==
  ASSUME Pool!Apart, PoolStep, NEW u \in Pool!Region, u.size > 0,
         \A r \in free \cup live : Pool!Disjoint(r, u)
  PROVE  \A x \in free' \cup live' : Pool!Disjoint(x, u)
<1>1. u \in PoolProofs!Region /\ \A r \in free \cup live : PoolProofs!Disjoint(r, u)
  BY SameRegions
<1>2. PoolProofs!Apart /\ PoolProofs!Apart' /\ PoolProofs!AllWithin
  BY SameApart DEF PoolStep
<1>3. \A x \in free' \cup live' : PoolProofs!Disjoint(x, u)
  BY <1>1, <1>2, NoAreas, PoolProofs!StaysClear
<1> QED
  BY <1>3, SameRegions

-----------------------------------------------------------------------------
(* Blocks and areas.                                                       *)

(* The fields of a region are numbers, and so is its end. *)
LEMMA BlockFields ==
  ASSUME NEW r \in Pool!Region
  PROVE  r.base \in Nat /\ r.size \in Nat /\ Pool!End(r) = r.base + r.size
  BY DEF Pool!Region, Pool!End

(* A block built from two numbers. *)
LEMMA BlockMade ==
  ASSUME NEW base \in Nat, NEW size \in Nat
  PROVE  /\ Block(base, size) \in Pool!Region
         /\ Block(base, size).base = base
         /\ Block(base, size).size = size
  BY DEF Block, Pool!Region

(* What a sequence of elements of S holds at an index is an element of S.  *)
LEMMA ElementOfSeq ==
  ASSUME NEW S, NEW s \in Seq(S), NEW i \in 1 .. Len(s)
  PROVE  s[i] \in S
  OBVIOUS

(* The heap areas are regions between which there is memory of no heap. *)
LEMMA HeapsSeparate ==
  ASSUME map \in MemoryMaps
  PROVE  /\ Heaps \subseteq Pool!Region
         /\ \A a, c \in Heaps : a = c \/ Pool!Before(a, c) \/ Pool!Before(c, a)
<1>1. map \in Seq([base : Nat, size : Nat, kind : STRING])
  BY MapsAssumption
<1>2. \A i \in HeapEntries : /\ i \in 1 .. Len(map) /\ IsHeap(map[i])
                             /\ map[i].base \in Nat /\ map[i].size \in Nat
  <2> SUFFICES ASSUME NEW i \in HeapEntries
               PROVE  /\ i \in 1 .. Len(map) /\ IsHeap(map[i])
                      /\ map[i].base \in Nat /\ map[i].size \in Nat
    OBVIOUS
  <2>1. i \in 1 .. Len(map) /\ IsHeap(map[i])
    BY DEF HeapEntries
  <2>2. map[i] \in [base : Nat, size : Nat, kind : STRING]
    BY <1>1, <2>1, ElementOfSeq
  <2> QED
    BY <2>1, <2>2
<1>3. Hhdm \in Nat
  BY SizesAssumption
<1>4. Heaps \subseteq Pool!Region
  BY <1>2, <1>3 DEF Heaps, HeapArea, Pool!Region
<1>5. ASSUME NEW i \in HeapEntries, NEW j \in HeapEntries
      PROVE  \/ HeapArea(i) = HeapArea(j)
             \/ Pool!Before(HeapArea(i), HeapArea(j))
             \/ Pool!Before(HeapArea(j), HeapArea(i))
  <2>1. \/ i = j
        \/ map[i].base + map[i].size < map[j].base
        \/ map[j].base + map[j].size < map[i].base
    BY <1>2, MapsAssumption
  <2>2. /\ HeapArea(i).base = Hhdm + map[i].base /\ HeapArea(i).size = map[i].size
        /\ HeapArea(j).base = Hhdm + map[j].base /\ HeapArea(j).size = map[j].size
    BY DEF HeapArea
  <2>3. /\ map[i].base \in Nat /\ map[i].size \in Nat
        /\ map[j].base \in Nat /\ map[j].size \in Nat
    BY <1>2
  <2>4. CASE i = j
    BY <2>4
  <2>5. CASE map[i].base + map[i].size < map[j].base
    <3>1. Hhdm + map[i].base + map[i].size < Hhdm + map[j].base
      BY <1>3, <2>3, <2>5
    <3> QED
      BY <2>2, <3>1 DEF Pool!Before, Pool!End
  <2>6. CASE map[j].base + map[j].size < map[i].base
    <3>1. Hhdm + map[j].base + map[j].size < Hhdm + map[i].base
      BY <1>3, <2>3, <2>6
    <3> QED
      BY <2>2, <3>1 DEF Pool!Before, Pool!End
  <2> QED
    BY <2>1, <2>4, <2>5, <2>6
<1>6. \A a, c \in Heaps : a = c \/ Pool!Before(a, c) \/ Pool!Before(c, a)
  BY <1>5 DEF Heaps
<1> QED
  BY <1>4, <1>6

(* Two regions inside different areas of the heap are apart. *)
LEMMA DifferentHeaps ==
  ASSUME map \in MemoryMaps, NEW a \in Heaps, NEW c \in Heaps, a # c,
         NEW r \in Pool!Region, NEW s \in Pool!Region,
         Pool!Inside(r, a), Pool!Inside(s, c)
  PROVE  Pool!Before(r, s) \/ Pool!Before(s, r)
<1>1. a \in Pool!Region /\ c \in Pool!Region
  BY HeapsSeparate
<1>2. Pool!Before(a, c) \/ Pool!Before(c, a)
  BY HeapsSeparate
<1> QED
  BY <1>1, <1>2, BlockFields DEF Pool!Inside, Pool!Before

(* The blocks of the heap are regions, and those in use are not empty. *)
LEMMA BlocksAreRegions ==
  ASSUME BlocksOK
  PROVE  /\ \A r \in free : r \in Pool!Region
         /\ \A b \in live \cup fixed : b \in Pool!Region /\ b.size > 0
  BY DEF BlocksOK, Pool!Region

(* Padding for an alignment never goes down. *)
LEMMA BumpStartUp ==
  ASSUME next \in Nat, NEW align \in Nat \ {0}
  PROVE  BumpStart(align) \in Nat /\ BumpStart(align) >= next
<1>1. next % align \in 0 .. (align - 1)
  OBVIOUS
<1> QED
  BY <1>1 DEF BumpStart

-----------------------------------------------------------------------------
(* The nodes taken from the bump heap.                                     *)

(* n nodes lie one after the other between next and the new next.          *)
LEMMA NodesLieAbove ==
  ASSUME next \in Nat, NEW n \in Nat
  PROVE  /\ NodesEnd(n) \in Nat /\ NodesEnd(n) >= next
         /\ \A b \in Nodes(n) :
              /\ b \in [base : Nat, size : Nat \ {0}]
              /\ next <= b.base /\ b.base + b.size <= NodesEnd(n)
         /\ \A b, c \in Nodes(n) : b = c \/ Pool!Disjoint(b, c)
         /\ n > 0 => \E b \in Nodes(n) : b.base + b.size = NodesEnd(n)
<1> DEFINE start == BumpStart(NodeAlign)
<1>1. NodeSize \in Nat /\ NodeSize > 0 /\ NodeAlign \in Nat \ {0}
  BY SizesAssumption
<1>2. start \in Nat /\ start >= next
  BY <1>1, BumpStartUp
<1>3. /\ Nodes(n) = {Block(start + k * NodeSize, NodeSize) : k \in 0 .. (n - 1)}
      /\ NodesEnd(n) = start + n * NodeSize
  BY DEF Nodes, NodesEnd
<1> HIDE DEF start
<1>4. \A k \in Nat : k * NodeSize \in Nat
  BY <1>1
<1>5. \A k \in 0 .. (n - 1) : k * NodeSize + NodeSize <= n * NodeSize
  <2> SUFFICES ASSUME NEW k \in 0 .. (n - 1)
               PROVE  k * NodeSize + NodeSize <= n * NodeSize
    OBVIOUS
  <2>1. k + 1 <= n /\ k + 1 \in Nat
    OBVIOUS
  <2>2. (k + 1) * NodeSize <= n * NodeSize
    BY <1>1, <2>1
  <2>3. (k + 1) * NodeSize = k * NodeSize + NodeSize
    BY <1>1
  <2> QED
    BY <2>2, <2>3
<1>6. ASSUME NEW k \in Nat, NEW l \in Nat, k < l
      PROVE  k * NodeSize + NodeSize <= l * NodeSize
  <2>1. (k + 1) * NodeSize <= l * NodeSize
    BY <1>1, <1>6
  <2>2. (k + 1) * NodeSize = k * NodeSize + NodeSize
    BY <1>1
  <2> QED
    BY <2>1, <2>2
<1>7. \A k \in 0 .. (n - 1) :
        LET b == Block(start + k * NodeSize, NodeSize) IN
        /\ b \in [base : Nat, size : Nat \ {0}]
        /\ b.base = start + k * NodeSize /\ b.size = NodeSize
  BY <1>1, <1>2, <1>4 DEF Block
<1>8. NodesEnd(n) \in Nat /\ NodesEnd(n) >= next
  BY <1>2, <1>3, <1>4
<1>9. ASSUME NEW b \in Nodes(n)
      PROVE  /\ b \in [base : Nat, size : Nat \ {0}]
             /\ next <= b.base /\ b.base + b.size <= NodesEnd(n)
  <2>1. PICK k \in 0 .. (n - 1) : b = Block(start + k * NodeSize, NodeSize)
    BY <1>3, <1>9
  <2>2. k * NodeSize \in Nat /\ n * NodeSize \in Nat
    BY <1>4
  <2>3. b.base = start + k * NodeSize /\ b.size = NodeSize
    BY <1>7, <2>1
  <2> QED
    BY <1>1, <1>2, <1>3, <1>5, <1>7, <2>1, <2>2, <2>3
<1>10. ASSUME NEW b \in Nodes(n), NEW c \in Nodes(n), b # c
       PROVE  Pool!Disjoint(b, c)
  <2>1. PICK k \in 0 .. (n - 1) : b = Block(start + k * NodeSize, NodeSize)
    BY <1>3
  <2>2. PICK l \in 0 .. (n - 1) : c = Block(start + l * NodeSize, NodeSize)
    BY <1>3
  <2>3. k < l \/ l < k
    BY <1>10, <2>1, <2>2
  <2>4. k * NodeSize + NodeSize <= l * NodeSize \/ l * NodeSize + NodeSize <= k * NodeSize
    BY <1>6, <2>3
  <2>5. k * NodeSize \in Nat /\ l * NodeSize \in Nat
    BY <1>4
  <2>6. /\ b.base = start + k * NodeSize /\ b.size = NodeSize
        /\ c.base = start + l * NodeSize /\ c.size = NodeSize
    BY <1>7, <2>1, <2>2
  <2> QED
    BY <1>1, <1>2, <2>4, <2>5, <2>6 DEF Pool!Disjoint, Pool!End
<1>11. ASSUME n > 0 PROVE \E b \in Nodes(n) : b.base + b.size = NodesEnd(n)
  <2>1. n - 1 \in 0 .. (n - 1)
    BY <1>11
  <2> DEFINE b == Block(start + (n - 1) * NodeSize, NodeSize)
  <2>2. b.base = start + (n - 1) * NodeSize /\ b.size = NodeSize /\ b \in Nodes(n)
    BY <1>3, <1>7, <2>1
  <2>3. (n - 1) * NodeSize + NodeSize = n * NodeSize
    BY <1>1
  <2>4. (n - 1) * NodeSize \in Nat /\ n * NodeSize \in Nat
    BY <1>4, <2>1
  <2> HIDE DEF b
  <2>5. b.base + b.size = NodesEnd(n)
    BY <1>1, <1>2, <1>3, <2>2, <2>3, <2>4
  <2> QED
    BY <2>2, <2>5
<1> QED
  BY <1>8, <1>9, <1>10, <1>11

(* n nodes are n blocks. *)
LEMMA NodesCounted ==
  ASSUME next \in Nat, NEW n \in Nat
  PROVE  IsFiniteSet(Nodes(n)) /\ Cardinality(Nodes(n)) = n
<1> DEFINE start == BumpStart(NodeAlign)
           f == [k \in 0 .. (n - 1) |-> Block(start + k * NodeSize, NodeSize)]
<1>1. NodeSize \in Nat /\ NodeSize > 0 /\ NodeAlign \in Nat \ {0}
  BY SizesAssumption
<1>2. start \in Nat
  BY <1>1, BumpStartUp
<1>3. Nodes(n) = {Block(start + k * NodeSize, NodeSize) : k \in 0 .. (n - 1)}
  BY DEF Nodes
<1> HIDE DEF start
<1>4. f \in [0 .. (n - 1) -> Nodes(n)]
  BY <1>3
<1>5. \A b \in Nodes(n) : \E k \in 0 .. (n - 1) : f[k] = b
  BY <1>3
<1>6. ASSUME NEW k \in 0 .. (n - 1), NEW l \in 0 .. (n - 1), f[k] = f[l]
      PROVE  k = l
  <2> DEFINE x == k * NodeSize
             y == l * NodeSize
  <2>1. start + x = start + y
    BY <1>6 DEF Block
  <2>2. x \in Int /\ y \in Int
    BY <1>1
  <2> HIDE DEF x, y
  <2>3. x = y
    BY <1>2, <2>1, <2>2
  <2> USE DEF x, y
  <2> QED
    BY <1>1, <2>3
<1> HIDE DEF f
<1>7. f \in Bijection(0 .. (n - 1), Nodes(n))
  BY <1>4, <1>5, <1>6 DEF Bijection, Injection, Surjection, IsInjective
<1>8. ExistsBijection(0 .. (n - 1), Nodes(n))
  BY <1>7 DEF ExistsBijection
<1>9. IsFiniteSet(0 .. (n - 1)) /\ Cardinality(0 .. (n - 1)) = n
  BY FS_Interval
<1> QED
  BY <1>8, <1>9, FS_Bijection

-----------------------------------------------------------------------------
(* The bump allocator.                                                     *)

(* The bump heap in numbers. *)
LEMMA BumpFacts ==
  ASSUME HeapShape, mode # "Uninit"
  PROVE  /\ bump_base \in Nat /\ next \in Nat /\ BumpSize \in Nat
         /\ bump_base <= next /\ next <= bump_base + BumpSize
         /\ Unused = {Block(next, bump_base + BumpSize - next)}
         /\ \E a \in Heaps : a \in Pool!Region /\ a.base = bump_base /\ BumpSize < a.size
<1>1. BumpSize \in Nat
  BY SizesAssumption
<1>2. bump_base \in Nat /\ next \in bump_base .. (bump_base + BumpSize)
  BY DEF HeapShape, BumpOK
<1>3. \E a \in Heaps : a \in Pool!Region /\ a.base = bump_base /\ BumpSize < a.size
  BY HeapsSeparate DEF HeapShape, BumpOK
<1> QED
  BY <1>1, <1>2, <1>3 DEF Unused

(* The areas of the heap do not change. *)
LEMMA HeapsStay ==
  ASSUME map' = map
  PROVE  Heaps' = Heaps
<1>1. HeapEntries' = HeapEntries
  BY DEF HeapEntries
<1>2. \A i : HeapArea(i)' = HeapArea(i)
  BY DEF HeapArea
<1> QED
  BY <1>1, <1>2 DEF Heaps

(* Blocks and regions are all that the shape of the heap depends on. *)
LEMMA ShapeStays ==
  ASSUME HeapShape, map' = map, mode' = mode, bump_base' = bump_base, next' = next,
         free' = free, live' = live, fixed' = fixed, freelist' = freelist
  PROVE  HeapShape'
<1>1. Heaps' = Heaps
  BY HeapsStay
<1>2. map' \in MemoryMaps /\ BlocksOK' /\ Phase' /\ FixedApart'
  BY DEF HeapShape, BlocksOK, Phase, FixedApart, Unused
<1>3. BumpOK' /\ InHeaps'
  BY <1>1 DEF HeapShape, BumpOK, InHeaps
<1>4. Pool!Apart'
  BY DEF HeapShape, Pool!Apart, Pool!TypeOK, Pool!FreeApart, Pool!FreeClearOfLive, Pool!LiveDisjoint
<1> QED
  BY <1>2, <1>3, <1>4 DEF HeapShape

(* Nothing is allocated at first. *)
LEMMA InitShape == Init => HeapInv
<1> SUFFICES ASSUME Init PROVE HeapInv
  OBVIOUS
<1>1. mode = "Uninit" /\ free = {} /\ live = {} /\ fixed = {} /\ freelist = 0
      /\ map \in MemoryMaps
  BY DEF Init
<1>2. BlocksOK
  BY <1>1, FS_EmptySet DEF BlocksOK
<1>3. Phase /\ BumpOK /\ InHeaps /\ NodesAccountedFor
  BY <1>1 DEF Phase, BumpOK, InHeaps, NodesAccountedFor
<1>4. Pool!Apart
  BY <1>1 DEF Pool!Apart, Pool!TypeOK, Pool!FreeApart, Pool!FreeClearOfLive, Pool!LiveDisjoint
<1>5. FixedApart
  BY <1>1 DEF FixedApart, Unused
<1> QED
  BY <1>1, <1>2, <1>3, <1>4, <1>5 DEF HeapInv, HeapShape

(* init_bump_alloc takes its heap from the lower part of an area. *)
LEMMA InitBumpShape ==
  ASSUME HeapShape, map' = map, InitBump
  PROVE  HeapShape'
<1>1. /\ mode = "Uninit" /\ free' = free /\ freelist' = freelist
      /\ live' = live /\ fixed' = fixed
  BY DEF InitBump
<1>2. free = {} /\ live = {} /\ fixed = {} /\ freelist = 0
  BY <1>1 DEF HeapShape, Phase
<1>3. CASE mode' = mode /\ bump_base' = bump_base /\ next' = next
  BY <1>1, <1>3, ShapeStays
<1>4. ASSUME NEW i \in HeapEntries, HeapArea(i).size >= MinBumpArea,
             bump_base' = HeapArea(i).base, next' = HeapArea(i).base, mode' = "Bump"
      PROVE  HeapShape'
  <2>1. HeapArea(i) \in Heaps /\ HeapArea(i) \in Pool!Region
    BY HeapsSeparate DEF Heaps, HeapShape
  <2>2. HeapArea(i).base \in Nat /\ HeapArea(i).size \in Nat
        /\ BumpSize \in Nat /\ MinBumpArea \in Nat /\ BumpSize < MinBumpArea
    BY <2>1, BlockFields, SizesAssumption
  <2>3. map' \in MemoryMaps
    BY DEF HeapShape
  <2>4. BlocksOK'
    BY <1>1 DEF HeapShape, BlocksOK
  <2>5. Phase'
    BY <1>1, <1>2, <1>4 DEF Phase
  <2>6. BumpOK'
    <3>1. \E a \in Heaps' : a.base = bump_base' /\ BumpSize < a.size
      BY <1>4, <2>1, <2>2, HeapsStay
    <3>2. bump_base' \in Nat /\ next' \in bump_base' .. (bump_base' + BumpSize)
      BY <1>4, <2>2
    <3>3. \A b \in fixed' \cup (IF mode' = "Bump" THEN live' ELSE {}) :
            bump_base' <= b.base /\ b.base + b.size <= next'
      BY <1>1, <1>2
    <3> QED
      BY <3>1, <3>2, <3>3 DEF BumpOK
  <2>7. InHeaps'
    BY <1>1, <1>2 DEF InHeaps
  <2>8. Pool!Apart'
    BY <1>1, <1>2
    DEF Pool!Apart, Pool!TypeOK, Pool!FreeApart, Pool!FreeClearOfLive, Pool!LiveDisjoint
  <2>9. FixedApart'
    BY <1>1, <1>2 DEF FixedApart
  <2> QED
    BY <2>3, <2>4, <2>5, <2>6, <2>7, <2>8, <2>9 DEF HeapShape
<1> QED
  BY <1>3, <1>4 DEF InitBump, bump

(***************************************************************************)
(* A block of the bump heap at or above next stays clear of all that was   *)
(* handed out before.                                                      *)
(***************************************************************************)
LEMMA AboveNext ==
  ASSUME HeapShape, mode = "Bump", NEW c \in Pool!Region, c.base >= next
  PROVE  \A b \in live \cup fixed : Pool!Disjoint(b, c) /\ Pool!Disjoint(c, b)
<1> SUFFICES ASSUME NEW b \in live \cup fixed
             PROVE  Pool!Disjoint(b, c) /\ Pool!Disjoint(c, b)
  OBVIOUS
<1>1. b.base + b.size <= next
  BY DEF HeapShape, BumpOK
<1>2. b \in Pool!Region
  BY BlocksAreRegions DEF HeapShape
<1>3. next \in Nat
  BY BumpFacts
<1> QED
  BY <1>1, <1>2, <1>3, BlockFields DEF Pool!Disjoint

(* No block that is freed some day is the stack or a node. *)
LEMMA DistinctOwners ==
  ASSUME HeapShape
  PROVE  live \cap fixed = {}
<1> SUFFICES ASSUME NEW b \in live, b \in fixed PROVE FALSE
  OBVIOUS
<1>1. Pool!Disjoint(b, b)
  BY DEF HeapShape, FixedApart
<1>2. b \in Pool!Region /\ b.size > 0
  BY BlocksAreRegions DEF HeapShape
<1> QED
  BY <1>1, <1>2, BlockFields DEF Pool!Disjoint

(* A block of the bump heap lies inside an area of the heap. *)
LEMMA BumpInside ==
  ASSUME HeapShape, mode # "Uninit", NEW c \in Pool!Region,
         bump_base <= c.base, c.base + c.size <= bump_base + BumpSize
  PROVE  \E a \in Heaps : Pool!Inside(c, a)
<1>1. PICK a \in Heaps : a \in Pool!Region /\ a.base = bump_base /\ BumpSize < a.size
  BY BumpFacts
<1>2. bump_base \in Nat /\ BumpSize \in Nat
  BY BumpFacts
<1>3. Pool!Inside(c, a)
  BY <1>1, <1>2, BlockFields DEF Pool!Inside
<1> QED
  BY <1>3

(* While the bump allocator serves, there is no tree, and what it handed   *)
(* out lies below next.                                                    *)
LEMMA BumpStep ==
  ASSUME HeapShape, mode = "Bump", map' = map, mode' = mode, bump_base' = bump_base,
         free' = free, freelist' = freelist,
         live' \cup fixed' \subseteq [base : Nat, size : Nat \ {0}],
         IsFiniteSet(fixed'), Cardinality(fixed') = 1,
         next' \in next .. (bump_base + BumpSize),
         \A b \in live' \cup fixed' : bump_base <= b.base /\ b.base + b.size <= next',
         \A b, c \in live' \cup fixed' : b = c \/ Pool!Disjoint(b, c),
         live' \cap fixed' = {}
  PROVE  HeapShape'
<1>1. free = {} /\ free' = {} /\ freelist' = 0
  BY DEF HeapShape, Phase
<1>2. bump_base \in Nat /\ next \in Nat /\ BumpSize \in Nat /\ bump_base <= next
  BY BumpFacts
<1>3. next' \in Nat /\ next' <= bump_base + BumpSize /\ bump_base <= next'
  BY <1>2
<1>4. \A b \in live' \cup fixed' :
        /\ b \in Pool!Region /\ b.base \in Nat /\ b.size \in Nat
        /\ Pool!End(b) = b.base + b.size
  BY BlockFields DEF Pool!Region, Pool!End
<1>5. map' \in MemoryMaps
  BY DEF HeapShape
<1>6. BlocksOK'
  BY <1>1, FS_EmptySet DEF BlocksOK
<1>7. Phase'
  BY <1>1 DEF Phase
<1>8. BumpOK'
  <2>1. \E a \in Heaps' : a.base = bump_base' /\ BumpSize < a.size
    BY BumpFacts, HeapsStay
  <2> QED
    BY <1>2, <1>3, <2>1 DEF BumpOK
<1>9. InHeaps'
  <2>1. \A b \in live' \cup fixed' : \E a \in Heaps : Pool!Inside(b, a)
    <3> TAKE b \in live' \cup fixed'
    <3>1. /\ b \in Pool!Region /\ bump_base <= b.base
          /\ b.base + b.size <= bump_base + BumpSize
      BY <1>2, <1>3, <1>4
    <3> QED
      BY <3>1, BumpInside
  <2> QED
    BY <1>1, <2>1, HeapsStay DEF InHeaps, Pool!Inside, Pool!End
<1>10. Pool!Apart'
  BY <1>1 DEF Pool!Apart, Pool!TypeOK, Pool!FreeApart, Pool!FreeClearOfLive, Pool!LiveDisjoint
<1>11. FixedApart'
  <2>1. Unused' = {Block(next', bump_base + BumpSize - next')}
    BY DEF Unused
  <2>2. \A r \in live' : Pool!Disjoint(r, Block(next', bump_base + BumpSize - next'))
    BY <1>3, <1>4 DEF Pool!Disjoint, Block
  <2>3. \A b \in fixed', r \in live' : Pool!Disjoint(r, b)
    OBVIOUS
  <2> QED
    BY <1>1, <2>1, <2>2, <2>3 DEF FixedApart
<1> QED
  BY <1>5, <1>6, <1>7, <1>8, <1>9, <1>10, <1>11 DEF HeapShape

(* The kernel stack is the first block of the bump heap. *)
LEMMA AllocStackShape ==
  ASSUME HeapShape, map' = map, AllocStack
  PROVE  HeapShape'
<1>1. mode = "Bump" /\ fixed = {} /\ mode' = mode /\ bump_base' = bump_base
      /\ free' = free /\ freelist' = freelist /\ live' = live
      /\ fixed' = {Block(next, StackSize)} /\ next' = next + StackSize
  BY DEF AllocStack
<1>2. live = {} /\ next = bump_base
  <2>1. Cardinality(fixed) # 1
    BY <1>1, FS_EmptySet
  <2> QED
    BY <1>1, <2>1 DEF HeapShape, Phase
<1>3. bump_base \in Nat /\ next \in Nat /\ BumpSize \in Nat
  BY <1>1, BumpFacts
<1>4. StackSize \in Nat /\ StackSize > 0 /\ StackSize <= BumpSize
  BY SizesAssumption
<1>5. /\ Block(next, StackSize) \in Pool!Region
      /\ Block(next, StackSize).base = next /\ Block(next, StackSize).size = StackSize
  BY <1>3, <1>4, BlockMade
<1> DEFINE c == Block(next, StackSize)
<1> HIDE DEF c
<1>6. live' \cup fixed' = {c}
  BY <1>1, <1>2 DEF c
<1>7. c \in [base : Nat, size : Nat \ {0}] /\ c.base = next /\ c.size = StackSize
  BY <1>3, <1>4, <1>5 DEF c, Block
<1>8. live' \cup fixed' \subseteq [base : Nat, size : Nat \ {0}]
  BY <1>6, <1>7
<1>9. IsFiniteSet(fixed') /\ Cardinality(fixed') = 1
  BY <1>1, FS_Singleton
<1>10. next' \in next .. (bump_base + BumpSize)
  BY <1>1, <1>2, <1>3, <1>4
<1>11. \A b \in live' \cup fixed' : bump_base <= b.base /\ b.base + b.size <= next'
  BY <1>1, <1>2, <1>3, <1>4, <1>6, <1>7
<1>12. \A b, d \in live' \cup fixed' : b = d \/ Pool!Disjoint(b, d)
  BY <1>6
<1>13. live' \cap fixed' = {}
  BY <1>1, <1>2
<1> QED
  BY <1>1, <1>8, <1>9, <1>10, <1>11, <1>12, <1>13, BumpStep

(* A bump allocation lies above all earlier ones. *)
LEMMA BumpAllocShape ==
  ASSUME HeapShape, map' = map, NEW layout \in Layouts, BumpAlloc(layout)
  PROVE  HeapShape'
<1> DEFINE start == BumpStart(layout.align)
           c == Block(start, layout.size)
<1>1. mode = "Bump" /\ fixed # {} /\ mode' = mode /\ bump_base' = bump_base
      /\ free' = free /\ freelist' = freelist /\ fixed' = fixed
      /\ live' = live \cup {c} /\ next' = start + layout.size
      /\ start + layout.size <= bump_base + BumpSize
  BY DEF BumpAlloc, BumpHas
<1>2. layout.size \in Nat /\ layout.size > 0 /\ layout.align \in Nat \ {0}
  BY LayoutsAssumption
<1>3. bump_base \in Nat /\ next \in Nat /\ BumpSize \in Nat /\ bump_base <= next
  BY <1>1, BumpFacts
<1>4. start \in Nat /\ start >= next
  BY <1>2, <1>3, BumpStartUp
<1> HIDE DEF start
<1>5. c \in Pool!Region /\ c.base = start /\ c.size = layout.size
  BY <1>2, <1>4, BlockMade
<1>6. c \in [base : Nat, size : Nat \ {0}]
  BY <1>2, <1>4 DEF Block
<1> HIDE DEF c
<1>7. live' \cup fixed' = (live \cup fixed) \cup {c}
  BY <1>1
<1>8. live' \cup fixed' \subseteq [base : Nat, size : Nat \ {0}]
  BY <1>6, <1>7 DEF HeapShape, BlocksOK
<1>9. IsFiniteSet(fixed') /\ Cardinality(fixed') = 1
  BY <1>1 DEF HeapShape, BlocksOK, Phase
<1>10. next' \in next .. (bump_base + BumpSize)
  BY <1>1, <1>2, <1>3, <1>4
<1>11. \A b \in live' \cup fixed' : bump_base <= b.base /\ b.base + b.size <= next'
  <2>1. \A b \in live \cup fixed : bump_base <= b.base /\ b.base + b.size <= next
    BY <1>1 DEF HeapShape, BumpOK
  <2>2. \A b \in live \cup fixed : b.base \in Nat /\ b.size \in Nat
    BY BlocksAreRegions, BlockFields DEF HeapShape
  <2>3. next <= next' /\ next' = start + layout.size /\ next' \in Nat
    BY <1>1, <1>2, <1>3, <1>4
  <2>4. bump_base <= c.base /\ c.base + c.size <= next'
    BY <1>3, <1>4, <1>5, <2>3
  <2>5. \A b \in live \cup fixed : b.base + b.size <= next'
    BY <1>3, <2>1, <2>2, <2>3
  <2> QED
    BY <1>7, <2>1, <2>4, <2>5
<1>12. \A b \in live \cup fixed : Pool!Disjoint(b, c) /\ Pool!Disjoint(c, b)
  BY <1>1, <1>4, <1>5, AboveNext
<1>13. \A b, d \in live \cup fixed : b = d \/ Pool!Disjoint(b, d)
  BY DEF HeapShape, FixedApart, Pool!Apart, Pool!LiveDisjoint, Pool!Disjoint
<1>14. \A b, d \in live' \cup fixed' : b = d \/ Pool!Disjoint(b, d)
  BY <1>7, <1>12, <1>13
<1>15. live' \cap fixed' = {}
  <2>1. live \cap fixed = {}
    BY DistinctOwners
  <2>2. c \notin fixed
    BY <1>2, <1>5, <1>12, BlockFields DEF Pool!Disjoint
  <2> QED
    BY <1>1, <2>1, <2>2
<1> QED
  BY <1>1, <1>8, <1>9, <1>10, <1>11, <1>14, <1>15, BumpStep

(* The bump allocator does not take a block back. *)
LEMMA BumpDeallocShape ==
  ASSUME HeapShape, map' = map, NEW b \in live, BumpDealloc(b)
  PROVE  HeapShape'
<1>1. mode = "Bump" /\ mode' = mode /\ bump_base' = bump_base /\ next' = next
      /\ free' = free /\ freelist' = freelist /\ fixed' = fixed /\ live' = live \ {b}
  BY DEF BumpDealloc, bump
<1>2. live' \cup fixed' \subseteq live \cup fixed
  BY <1>1
<1>3. Cardinality(fixed) = 1
  BY <1>1 DEF HeapShape, Phase
<1>4. live' \cup fixed' \subseteq [base : Nat, size : Nat \ {0}] /\ IsFiniteSet(fixed')
  BY <1>1, <1>2 DEF HeapShape, BlocksOK
<1>5. next' \in next .. (bump_base + BumpSize)
  BY <1>1, BumpFacts
<1>6. \A c \in live' \cup fixed' : bump_base <= c.base /\ c.base + c.size <= next'
  BY <1>1, <1>2 DEF HeapShape, BumpOK
<1>7. \A c, d \in live' \cup fixed' : c = d \/ Pool!Disjoint(c, d)
  BY <1>2 DEF HeapShape, FixedApart, Pool!Apart, Pool!LiveDisjoint, Pool!Disjoint
<1>8. live' \cap fixed' = {}
  BY <1>1, DistinctOwners
<1> QED
  BY <1>1, <1>3, <1>4, <1>5, <1>6, <1>7, <1>8, BumpStep

-----------------------------------------------------------------------------
(* The tree.                                                               *)

(* Nodes taken from the bump heap lie in what it has not handed out yet.   *)
TakesNodes(n) ==
  /\ n > 0 /\ NodesEnd(n) <= bump_base + BumpSize
  /\ fixed' = fixed \cup Nodes(n) /\ next' = NodesEnd(n)

LEMMA NodesAdded ==
  ASSUME HeapShape, mode # "Uninit", NEW n \in Nat, TakesNodes(n)
  PROVE  /\ fixed' \subseteq [base : Nat, size : Nat \ {0}]
         /\ IsFiniteSet(fixed') /\ Cardinality(fixed') = Cardinality(fixed) + n
         /\ \E b \in fixed' : b.base + b.size = next'
         /\ next' \in next .. (bump_base + BumpSize)
         /\ \A b \in fixed' : bump_base <= b.base /\ b.base + b.size <= next'
         /\ \A b, c \in fixed' : b = c \/ Pool!Disjoint(b, c)
<1>1. /\ n > 0 /\ NodesEnd(n) <= bump_base + BumpSize
      /\ fixed' = fixed \cup Nodes(n) /\ next' = NodesEnd(n)
  BY DEF TakesNodes
<1>2. bump_base \in Nat /\ next \in Nat /\ BumpSize \in Nat /\ bump_base <= next
  BY BumpFacts
<1>3. /\ NodesEnd(n) \in Nat /\ NodesEnd(n) >= next
      /\ \A b \in Nodes(n) :
           /\ b \in [base : Nat, size : Nat \ {0}]
           /\ next <= b.base /\ b.base + b.size <= NodesEnd(n)
      /\ \A b, c \in Nodes(n) : b = c \/ Pool!Disjoint(b, c)
      /\ \E b \in Nodes(n) : b.base + b.size = NodesEnd(n)
  BY <1>1, <1>2, NodesLieAbove
<1>4. \A b \in fixed : /\ b \in [base : Nat, size : Nat \ {0}]
                       /\ bump_base <= b.base /\ b.base + b.size <= next
  BY DEF HeapShape, BlocksOK, BumpOK
<1>5. \A b \in fixed \cup Nodes(n) :
        /\ b.base \in Nat /\ b.size \in Nat /\ b.size > 0
        /\ Pool!End(b) = b.base + b.size
  BY <1>3, <1>4 DEF Pool!End
<1>6. \A b \in fixed, c \in Nodes(n) : Pool!Disjoint(b, c) /\ Pool!Disjoint(c, b)
  BY <1>2, <1>3, <1>4, <1>5 DEF Pool!Disjoint
<1>7. fixed \cap Nodes(n) = {}
  <2> SUFFICES ASSUME NEW b \in fixed, b \in Nodes(n) PROVE FALSE
    OBVIOUS
  <2> QED
    BY <1>5, <1>6 DEF Pool!Disjoint
<1>8. IsFiniteSet(Nodes(n)) /\ Cardinality(Nodes(n)) = n
  BY <1>2, NodesCounted
<1>9. IsFiniteSet(fixed)
  BY DEF HeapShape, BlocksOK
<1>10. Cardinality(fixed) \in Nat /\ Cardinality({}) = 0
  BY <1>9, FS_CardinalityType, FS_EmptySet
<1>11. /\ IsFiniteSet(fixed')
       /\ Cardinality(fixed') = Cardinality(fixed) + n
  <2>1. /\ IsFiniteSet(fixed \cup Nodes(n))
        /\ Cardinality(fixed \cup Nodes(n))
             = Cardinality(fixed) + Cardinality(Nodes(n)) - Cardinality(fixed \cap Nodes(n))
    BY <1>8, <1>9, FS_Union
  <2>2. Cardinality(fixed \cap Nodes(n)) = 0
    BY <1>7, <1>10
  <2>3. Cardinality(fixed \cup Nodes(n)) = Cardinality(fixed) + n - 0
    BY <1>8, <2>1, <2>2
  <2>4. Cardinality(fixed) + n - 0 = Cardinality(fixed) + n
    BY <1>10
  <2> QED
    BY <1>1, <2>1, <2>3, <2>4
<1>12. fixed' \subseteq [base : Nat, size : Nat \ {0}]
  BY <1>1, <1>3, <1>4
<1>13. \E b \in fixed' : b.base + b.size = next'
  BY <1>1, <1>3
<1>14. next' \in next .. (bump_base + BumpSize)
  BY <1>1, <1>2, <1>3
<1>15. \A b \in fixed' : bump_base <= b.base /\ b.base + b.size <= next'
  <2>1. \A b \in fixed : bump_base <= b.base /\ b.base + b.size <= NodesEnd(n)
    BY <1>2, <1>3, <1>4, <1>5
  <2>2. \A b \in Nodes(n) : bump_base <= b.base /\ b.base + b.size <= NodesEnd(n)
    BY <1>2, <1>3, <1>5
  <2> QED
    BY <1>1, <2>1, <2>2
<1>16. \A b, c \in fixed : b = c \/ Pool!Disjoint(b, c)
  BY DEF HeapShape, FixedApart
<1>17. \A b, c \in fixed' : b = c \/ Pool!Disjoint(b, c)
  BY <1>1, <1>3, <1>6, <1>16
<1> QED
  BY <1>11, <1>12, <1>13, <1>14, <1>15, <1>17

(* What is clear of the rest of the bump heap is clear of the nodes taken  *)
(* from it and of what is left of it then.                                 *)
LEMMA NodesClear ==
  ASSUME HeapShape, mode # "Uninit", NEW n \in Nat, TakesNodes(n),
         NEW x \in Pool!Region, \A u \in Unused : Pool!Disjoint(x, u)
  PROVE  /\ \A b \in Nodes(n) : Pool!Disjoint(x, b)
         /\ Pool!Disjoint(x, Block(next', bump_base + BumpSize - next'))
<1>0. PICK top : top = bump_base + BumpSize
  OBVIOUS
<1>1. n > 0 /\ NodesEnd(n) <= top /\ next' = NodesEnd(n)
  BY <1>0 DEF TakesNodes
<1>2. next \in Nat /\ top \in Nat /\ next <= top /\ Unused = {Block(next, top - next)}
  BY <1>0, BumpFacts
<1>3. /\ NodesEnd(n) \in Nat /\ NodesEnd(n) >= next
      /\ \A b \in Nodes(n) :
           /\ b \in [base : Nat, size : Nat \ {0}]
           /\ next <= b.base /\ b.base + b.size <= NodesEnd(n)
  BY <1>1, <1>2, NodesLieAbove
<1>4. Pool!Disjoint(x, Block(next, top - next))
  BY <1>2
<1>5. x.base \in Nat /\ x.size \in Nat /\ Pool!End(x) = x.base + x.size
  BY BlockFields
<1>6. x.base + x.size <= next \/ top <= x.base
  <2>1. /\ Block(next, top - next).base = next
        /\ Pool!End(Block(next, top - next)) = next + (top - next)
    BY DEF Block, Pool!End
  <2> QED
    BY <1>2, <1>4, <1>5, <2>1 DEF Pool!Disjoint
<1>7. \A b \in Nodes(n) : Pool!Disjoint(x, b)
  <2> SUFFICES ASSUME NEW b \in Nodes(n) PROVE Pool!Disjoint(x, b)
    OBVIOUS
  <2>1. /\ b.base \in Nat /\ b.size \in Nat /\ Pool!End(b) = b.base + b.size
        /\ next <= b.base /\ b.base + b.size <= top
    BY <1>1, <1>2, <1>3 DEF Pool!End
  <2> QED
    BY <1>2, <1>5, <1>6, <2>1 DEF Pool!Disjoint
<1>8. Pool!Disjoint(x, Block(next', bump_base + BumpSize - next'))
  <2>1. /\ Block(next', bump_base + BumpSize - next').base = next'
        /\ Block(next', bump_base + BumpSize - next').size = bump_base + BumpSize - next'
    BY DEF Block
  <2>2. bump_base + BumpSize - next' = top - next'
    BY <1>0, <1>1, <1>3, BumpFacts
  <2>3. Pool!End(Block(next', bump_base + BumpSize - next')) = next' + (top - next')
    BY <2>1, <2>2 DEF Pool!End
  <2> QED
    BY <1>1, <1>2, <1>3, <1>5, <1>6, <2>1, <2>3 DEF Pool!Disjoint
<1> QED
  BY <1>7, <1>8

(* The shape of the heap after a step of the tree, with or without nodes   *)
(* from the bump heap.                                                     *)
LEMMA TreeShape ==
  ASSUME HeapShape, mode # "Uninit", map' = map, mode' = "Tree", bump_base' = bump_base,
         freelist' \in Nat, IsFiniteSet(free'), Pool!Apart',
         \A x \in free' \cup live' : \E a \in Heaps : Pool!Inside(x, a),
         \A u \in Unused, x \in free' \cup live' : Pool!Disjoint(x, u),
         \A b \in fixed, x \in free' \cup live' : Pool!Disjoint(x, b),
         \/ mode = "Tree" /\ fixed' = fixed /\ next' = next
         \/ \E n \in Nat : TakesNodes(n)
  PROVE  HeapShape'
<1>1. free' \subseteq Pool!Region /\ live' \subseteq [base : Nat, size : Nat \ {0}]
  BY DEF Pool!Apart, Pool!TypeOK, Pool!Region
<1>2. \A x \in free' \cup live' : x \in Pool!Region
  BY <1>1 DEF Pool!Region
<1>3. /\ fixed' \subseteq [base : Nat, size : Nat \ {0}]
      /\ IsFiniteSet(fixed')
      /\ \E b \in fixed' : b.base + b.size = next'
      /\ next' \in next .. (bump_base + BumpSize)
      /\ \A b \in fixed' : bump_base <= b.base /\ b.base + b.size <= next'
      /\ \A b, c \in fixed' : b = c \/ Pool!Disjoint(b, c)
  <2>1. CASE mode = "Tree" /\ fixed' = fixed /\ next' = next
    <3>1. next \in next .. (bump_base + BumpSize)
      BY BumpFacts
    <3>2. /\ fixed \subseteq [base : Nat, size : Nat \ {0}] /\ IsFiniteSet(fixed)
          /\ \A b \in fixed : bump_base <= b.base /\ b.base + b.size <= next
          /\ \A b, c \in fixed : b = c \/ Pool!Disjoint(b, c)
      BY DEF HeapShape, BlocksOK, BumpOK, FixedApart
    <3>3. \E b \in fixed : b.base + b.size = next
      BY <2>1 DEF HeapShape, Phase
    <3> QED
      BY <2>1, <3>1, <3>2, <3>3
  <2>2. CASE \E n \in Nat : TakesNodes(n)
    BY <2>2, NodesAdded
  <2> QED
    BY <2>1, <2>2
<1>4. /\ \A b \in fixed', x \in free' \cup live' : Pool!Disjoint(x, b)
      /\ \A x \in free' \cup live' :
           Pool!Disjoint(x, Block(next', bump_base + BumpSize - next'))
  <2>1. CASE mode = "Tree" /\ fixed' = fixed /\ next' = next
    BY <2>1, BumpFacts
  <2>2. ASSUME NEW n \in Nat, TakesNodes(n)
        PROVE  /\ \A b \in fixed', x \in free' \cup live' : Pool!Disjoint(x, b)
               /\ \A x \in free' \cup live' :
                    Pool!Disjoint(x, Block(next', bump_base + BumpSize - next'))
    <3>1. fixed' = fixed \cup Nodes(n)
      BY <2>2 DEF TakesNodes
    <3>2. \A x \in free' \cup live' :
            /\ \A b \in Nodes(n) : Pool!Disjoint(x, b)
            /\ Pool!Disjoint(x, Block(next', bump_base + BumpSize - next'))
      BY <1>2, <2>2, NodesClear
    <3> QED
      BY <3>1, <3>2
  <2> QED
    BY <2>1, <2>2
<1>5. bump_base \in Nat /\ next \in Nat /\ BumpSize \in Nat /\ bump_base <= next
  BY BumpFacts
<1>6. map' \in MemoryMaps
  BY DEF HeapShape
<1>7. BlocksOK'
  BY <1>1, <1>3 DEF BlocksOK, Pool!Region
<1>8. Phase'
  BY <1>3 DEF Phase
<1>9. BumpOK'
  <2>1. \E a \in Heaps' : a.base = bump_base' /\ BumpSize < a.size
    BY BumpFacts, HeapsStay
  <2>2. bump_base' \in Nat /\ next' \in bump_base' .. (bump_base' + BumpSize)
    BY <1>3, <1>5
  <2>3. \A b \in fixed' \cup (IF mode' = "Bump" THEN live' ELSE {}) :
          bump_base' <= b.base /\ b.base + b.size <= next'
    BY <1>3
  <2> QED
    BY <2>1, <2>2, <2>3 DEF BumpOK
<1>10. InHeaps'
  <2>1. \A b \in fixed' : \E a \in Heaps : Pool!Inside(b, a)
    <3> TAKE b \in fixed'
    <3>1. b \in Pool!Region /\ b.base \in Nat /\ b.size \in Nat
      BY <1>3 DEF Pool!Region
    <3>2. bump_base <= b.base /\ b.base + b.size <= bump_base + BumpSize
      BY <1>3, <1>5, <3>1
    <3> QED
      BY <3>1, <3>2, BumpInside
  <2> QED
    BY <2>1, HeapsStay DEF InHeaps, Pool!Inside, Pool!End
<1>11. FixedApart'
  <2>1. Unused' = {Block(next', bump_base + BumpSize - next')}
    BY DEF Unused
  <2> QED
    BY <1>3, <1>4, <2>1 DEF FixedApart
<1> QED
  BY <1>6, <1>7, <1>8, <1>9, <1>10, <1>11 DEF HeapShape

(* TreeAlloc::init takes from its area the bump heap and nothing else.     *)
LEMMA CarvedArea ==
  ASSUME HeapShape, mode = "Bump", NEW a \in Heaps
  PROVE  /\ Carved(a) \in Pool!Region /\ Pool!Inside(Carved(a), a)
         /\ \A c \in Pool!Region :
              bump_base <= c.base /\ c.base + c.size <= bump_base + BumpSize
                => Pool!Disjoint(Carved(a), c)
         /\ a.base = bump_base => Carved(a).size > 0
<1>1. bump_base \in Nat /\ BumpSize \in Nat
  BY BumpFacts
<1>2. PICK e \in Heaps : e \in Pool!Region /\ e.base = bump_base /\ BumpSize < e.size
  BY BumpFacts
<1>3. map \in MemoryMaps
  BY DEF HeapShape
<1>4. /\ a \in Pool!Region /\ a.base \in Nat /\ a.size \in Nat
      /\ Pool!End(a) = a.base + a.size
  BY <1>3, HeapsSeparate, BlockFields
<1>5. CASE a.base = bump_base
  <2>1. a = e
    <3>1. a = e \/ Pool!Before(a, e) \/ Pool!Before(e, a)
      BY <1>3, HeapsSeparate
    <3> QED
      BY <1>2, <1>4, <1>5, <3>1, BlockFields DEF Pool!Before
  <2>2. a.size - BumpSize \in Nat /\ a.size - BumpSize > 0
    BY <1>1, <1>2, <1>4, <2>1
  <2>3. Carved(a) = Block(bump_base + BumpSize, a.size - BumpSize)
    BY <1>5 DEF Carved, Block
  <2>4. /\ Carved(a) \in Pool!Region
        /\ Carved(a).base = bump_base + BumpSize /\ Carved(a).size = a.size - BumpSize
    BY <1>1, <2>2, <2>3, BlockMade
  <2>5. Pool!End(Carved(a)) = (bump_base + BumpSize) + (a.size - BumpSize)
    BY <2>4, BlockFields
  <2>6. Pool!Inside(Carved(a), a)
    BY <1>1, <1>4, <1>5, <2>4, <2>5 DEF Pool!Inside
  <2>7. ASSUME NEW c \in Pool!Region, c.base + c.size <= bump_base + BumpSize
        PROVE  Pool!Disjoint(Carved(a), c)
    BY <1>1, <2>4, <2>7, BlockFields DEF Pool!Disjoint
  <2> QED
    BY <2>2, <2>4, <2>6, <2>7
<1>6. CASE a.base # bump_base
  <2>1. Carved(a) = a
    BY <1>6 DEF Carved
  <2>2. Pool!Inside(a, a)
    BY <1>4 DEF Pool!Inside
  <2>3. ASSUME NEW c \in Pool!Region, bump_base <= c.base,
               c.base + c.size <= bump_base + BumpSize
        PROVE  Pool!Disjoint(a, c)
    <3>1. Pool!Inside(c, e)
      BY <1>1, <1>2, <2>3, BlockFields DEF Pool!Inside
    <3>2. Pool!Before(a, c) \/ Pool!Before(c, a)
      BY <1>2, <1>3, <1>4, <1>6, <2>2, <3>1, DifferentHeaps
    <3> QED
      BY <1>4, <3>2, BlockFields DEF Pool!Before, Pool!Disjoint
  <2> QED
    BY <1>4, <1>6, <2>1, <2>2, <2>3
<1> QED
  BY <1>5, <1>6

(* The areas the tree starts with. *)
LEMMA TreeAreasFacts ==
  ASSUME HeapShape, mode = "Bump"
  PROVE  /\ \A r \in TreeAreas : \E a \in Heaps : r = Carved(a)
         /\ IsFiniteSet(TreeAreas)
         /\ \E r \in TreeAreas : r.size > 0
<1>1. TreeAreas = {Carved(a) : a \in Heaps}
  BY DEF TreeAreas, Heaps
<1>2. IsFiniteSet(TreeAreas)
  <2> DEFINE f == [i \in HeapEntries |-> Carved(HeapArea(i))]
  <2>1. Len(map) \in Nat
    BY MapsAssumption DEF HeapShape
  <2>2. IsFiniteSet(1 .. Len(map))
    BY <2>1, FS_Interval
  <2>3. IsFiniteSet(HeapEntries)
    BY <2>2, FS_Subset DEF HeapEntries
  <2>4. TreeAreas = {Carved(HeapArea(i)) : i \in HeapEntries}
    BY DEF TreeAreas
  <2>5. f \in [HeapEntries -> TreeAreas] /\ \A r \in TreeAreas : \E i \in HeapEntries : f[i] = r
    BY <2>4
  <2> HIDE DEF f
  <2>6. f \in Surjection(HeapEntries, TreeAreas)
    BY <2>5 DEF Surjection
  <2> QED
    BY <2>3, <2>6, FS_Surjection
<1>3. \E r \in TreeAreas : r.size > 0
  <2>1. PICK e \in Heaps : e.base = bump_base
    BY BumpFacts
  <2>2. Carved(e).size > 0
    BY <2>1, CarvedArea
  <2> QED
    BY <1>1, <2>2
<1> QED
  BY <1>1, <1>2, <1>3

(* The tree starts with the areas of the memory map, without the bump heap *)
(* and with a node for each, or the kernel halts.                          *)
LEMMA InitTreeInv ==
  ASSUME HeapShape, map' = map, InitTree
  PROVE  HeapShape' /\ (~halted' => NodesAccountedFor')
<1> DEFINE inserted == {r \in TreeAreas : r.size > 0}
           count == Cardinality(inserted)
<1>1. mode = "Bump" /\ fixed # {} /\ bump_base' = bump_base
      /\ freelist' = freelist /\ live' = live
  BY DEF InitTree
<1>2. CASE halted' = TRUE /\ fixed' = fixed /\ next' = next /\ free' = free /\ mode' = mode
  BY <1>1, <1>2, ShapeStays
<1>3. CASE /\ NodesEnd(count) <= bump_base + BumpSize
           /\ fixed' = fixed \cup Nodes(count) /\ next' = NodesEnd(count)
           /\ free' = inserted /\ mode' = "Tree"
  <2>1. IsFiniteSet(inserted) /\ count \in Nat /\ count > 0
    <3>1. IsFiniteSet(inserted)
      BY <1>1, TreeAreasFacts, FS_Subset
    <3>2. inserted # {}
      BY <1>1, TreeAreasFacts
    <3> HIDE DEF inserted
    <3>3. count \in Nat /\ count # 0
      BY <3>1, <3>2, FS_CardinalityType, FS_EmptySet
    <3> QED
      BY <3>1, <3>3
  <2>2. \A r \in inserted : \E a \in Heaps : r = Carved(a)
    BY <1>1, TreeAreasFacts
  <2> HIDE DEF inserted
  <2>3. \A r \in inserted : r \in Pool!Region /\ \E a \in Heaps : Pool!Inside(r, a)
    BY <1>1, <2>2, CarvedArea
  <2>4. \A r \in inserted, c \in Pool!Region :
          bump_base <= c.base /\ c.base + c.size <= bump_base + BumpSize
            => Pool!Disjoint(r, c)
    BY <1>1, <2>2, CarvedArea
  <2>5. mode # "Uninit"
    BY <1>1
  <2>6. bump_base \in Nat /\ next \in Nat /\ BumpSize \in Nat
        /\ bump_base <= next /\ next <= bump_base + BumpSize
    BY <2>5, BumpFacts
  <2>7. \A b \in live \cup fixed :
          b \in Pool!Region /\ bump_base <= b.base /\ b.base + b.size <= bump_base + BumpSize
    <3> TAKE b \in live \cup fixed
    <3>1. b \in Pool!Region
      BY BlocksAreRegions DEF HeapShape
    <3>2. bump_base <= b.base /\ b.base + b.size <= next
      BY <1>1 DEF HeapShape, BumpOK
    <3> QED
      BY <2>6, <3>1, <3>2, BlockFields
  <2>8. Pool!Apart'
    <3>1. Pool!TypeOK'
      BY <1>1, <1>3, <2>3 DEF Pool!TypeOK, HeapShape, Pool!Apart
    <3>2. Pool!FreeApart'
      <4>1. \A r, s \in inserted : r = s \/ Pool!Before(r, s) \/ Pool!Before(s, r)
        <5> SUFFICES ASSUME NEW r \in inserted, NEW s \in inserted, r # s
                     PROVE  Pool!Before(r, s) \/ Pool!Before(s, r)
          OBVIOUS
        <5>1. PICK a \in Heaps : r = Carved(a)
          BY <2>2
        <5>2. PICK c \in Heaps : s = Carved(c)
          BY <2>2
        <5>3. r \in Pool!Region /\ s \in Pool!Region /\ Pool!Inside(r, a) /\ Pool!Inside(s, c)
          BY <1>1, <5>1, <5>2, CarvedArea
        <5>4. map \in MemoryMaps /\ a # c
          BY <5>1, <5>2 DEF HeapShape
        <5> QED
          BY <5>3, <5>4, DifferentHeaps
      <4> QED
        BY <1>3, <4>1 DEF Pool!FreeApart, Pool!Before, Pool!End
    <3>3. Pool!FreeClearOfLive'
      <4>1. \A r \in inserted, b \in live : Pool!Disjoint(r, b)
        BY <2>4, <2>7
      <4> QED
        BY <1>1, <1>3, <4>1 DEF Pool!FreeClearOfLive, Pool!Disjoint, Pool!End
    <3>4. Pool!LiveDisjoint'
      BY <1>1 DEF Pool!LiveDisjoint, HeapShape, Pool!Apart, Pool!Disjoint, Pool!End
    <3> QED
      BY <3>1, <3>2, <3>3, <3>4 DEF Pool!Apart
  <2>9. \A x \in free' \cup live' : \E a \in Heaps : Pool!Inside(x, a)
    BY <1>1, <1>3, <2>3 DEF HeapShape, InHeaps
  <2>10. \A u \in Unused, x \in free' \cup live' : Pool!Disjoint(x, u)
    <3>1. \A u \in Unused, x \in live : Pool!Disjoint(x, u)
      BY DEF HeapShape, FixedApart
    <3>2. \A u \in Unused : /\ u \in Pool!Region /\ bump_base <= u.base
                            /\ u.base + u.size <= bump_base + BumpSize
      <4>1. Unused = {Block(next, bump_base + BumpSize - next)}
        BY <2>5, BumpFacts
      <4>2. bump_base + BumpSize - next \in Nat
        BY <2>6
      <4>3. LET u == Block(next, bump_base + BumpSize - next) IN
            u \in Pool!Region /\ u.base = next /\ u.size = bump_base + BumpSize - next
        BY <2>6, <4>2, BlockMade
      <4> QED
        BY <2>6, <4>1, <4>2, <4>3
    <3> QED
      BY <1>1, <1>3, <2>4, <3>1, <3>2
  <2>11. \A b \in fixed, x \in free' \cup live' : Pool!Disjoint(x, b)
    <3>1. \A b \in fixed, x \in live : Pool!Disjoint(x, b)
      BY DEF HeapShape, FixedApart
    <3> QED
      BY <1>1, <1>3, <2>4, <2>7, <3>1
  <2>12. TakesNodes(count)
    BY <1>3, <2>1 DEF TakesNodes
  <2>13. freelist = 0 /\ freelist' \in Nat
    BY <1>1 DEF HeapShape, Phase
  <2>14. HeapShape'
    BY <1>1, <1>3, <2>1, <2>5, <2>8, <2>9, <2>10, <2>11, <2>12, <2>13, TreeShape
  <2>15. NodesAccountedFor'
    <3>1. Cardinality(fixed) = 1
      BY <1>1 DEF HeapShape, Phase
    <3>2. Cardinality(fixed') = Cardinality(fixed) + count
      BY <2>1, <2>5, <2>12, NodesAdded
    <3>3. Cardinality(free') = count
      BY <1>3
    <3> HIDE DEF count
    <3>4. Cardinality(fixed') - 1 = Cardinality(free') + freelist'
      BY <1>1, <2>1, <2>13, <3>1, <3>2, <3>3
    <3> QED
      BY <3>4 DEF NodesAccountedFor
  <2> QED
    BY <2>14, <2>15
<1> QED
  BY <1>2, <1>3 DEF InitTree

(* A step of the tree stays inside the heap and clear of the stack, of the *)
(* nodes and of the rest of the bump heap.  When nothing is left of the    *)
(* bump heap, it is the last node that keeps the tree off its end.         *)
LEMMA TreeStaysClear ==
  ASSUME HeapShape, mode = "Tree", PoolStep
  PROVE  /\ \A x \in free' \cup live' : \E a \in Heaps : Pool!Inside(x, a)
         /\ \A b \in fixed, x \in free' \cup live' : Pool!Disjoint(x, b)
         /\ \A u \in Unused, x \in free' \cup live' : Pool!Disjoint(x, u)
<1>1. Pool!Apart /\ map \in MemoryMaps
  BY DEF HeapShape
<1>2. \A x \in free' \cup live' : \E a \in Heaps : Pool!Inside(x, a)
  <2>1. \A r \in free \cup live : \E a \in Heaps : Pool!Inside(r, a)
    BY DEF HeapShape, InHeaps
  <2> QED
    BY <1>1, <2>1, HeapsSeparate, PoolInside
<1>3. \A b \in fixed, x \in free' \cup live' : Pool!Disjoint(x, b)
  <2> SUFFICES ASSUME NEW b \in fixed
               PROVE  \A x \in free' \cup live' : Pool!Disjoint(x, b)
    OBVIOUS
  <2>1. b \in Pool!Region /\ b.size > 0
    BY BlocksAreRegions DEF HeapShape
  <2>2. \A r \in free \cup live : Pool!Disjoint(r, b)
    BY DEF HeapShape, FixedApart
  <2> QED
    BY <1>1, <2>1, <2>2, PoolClear
<1>4. \A u \in Unused, x \in free' \cup live' : Pool!Disjoint(x, u)
  <2> SUFFICES ASSUME NEW u \in Unused
               PROVE  \A x \in free' \cup live' : Pool!Disjoint(x, u)
    OBVIOUS
  <2>1. /\ bump_base \in Nat /\ next \in Nat /\ BumpSize \in Nat
        /\ next <= bump_base + BumpSize
        /\ u = Block(next, bump_base + BumpSize - next)
    BY BumpFacts
  <2>2. bump_base + BumpSize - next \in Nat
    BY <2>1
  <2>3. u \in Pool!Region /\ u.base = next /\ u.size \in Nat
    BY <2>1, <2>2, BlockMade
  <2>4. CASE u.size > 0
    <3>1. \A r \in free \cup live : Pool!Disjoint(r, u)
      BY DEF HeapShape, FixedApart
    <3> QED
      BY <1>1, <2>3, <2>4, <3>1, PoolClear
  <2>5. CASE u.size = 0
    <3>1. PICK n \in fixed : n.base + n.size = next
      BY DEF HeapShape, Phase
    <3>2. n \in Pool!Region
      BY BlocksAreRegions DEF HeapShape
    <3> SUFFICES ASSUME NEW x \in free' \cup live'
                 PROVE  Pool!Disjoint(x, u)
      OBVIOUS
    <3>3. x \in Pool!Region
      BY DEF PoolStep, Pool!Apart, Pool!TypeOK, Pool!Region
    <3>4. Pool!Disjoint(x, n)
      BY <1>3
    <3> QED
      BY <2>3, <2>5, <3>1, <3>2, <3>3, <3>4, BlockFields DEF Pool!Disjoint
  <2> QED
    BY <2>3, <2>4, <2>5
<1> QED
  BY <1>2, <1>3, <1>4

(* What the callers ask of the tree is a request it can serve. *)
LEMMA UnconstrainedRequest ==
  ASSUME NEW layout, layout.size \in Nat \ {0}, layout.align \in Nat \ {0}
  PROVE  Unconstrained(layout) \in Pool!Request
  BY DEF Unconstrained, Pool!Request

(* An allocation replaces a region of the tree by one other. *)
LEMMA TreeAllocInv ==
  ASSUME HeapShape, mode = "Tree", NEW q \in Pool!Request, Pool!Alloc(q),
         map' = map, mode' = mode, bump_base' = bump_base, next' = next,
         freelist' = freelist, fixed' = fixed
  PROVE  HeapShape' /\ Cardinality(free') = Cardinality(free)
<1>1. PoolStep /\ \E r \in free : \E t : t \notin free \ {r} /\ free' = (free \ {r}) \cup {t}
  BY PoolAlloc DEF HeapShape
<1>2. IsFiniteSet(free) /\ freelist' \in Nat
  BY DEF HeapShape, BlocksOK
<1>3. IsFiniteSet(free') /\ Cardinality(free') = Cardinality(free)
  <2>1. PICK r \in free : \E t : t \notin free \ {r} /\ free' = (free \ {r}) \cup {t}
    BY <1>1
  <2>2. PICK t : t \notin free \ {r} /\ free' = (free \ {r}) \cup {t}
    BY <2>1
  <2>3. IsFiniteSet(free \ {r}) /\ Cardinality(free \ {r}) = Cardinality(free) - 1
    BY <1>2, FS_RemoveElement
  <2>4. IsFiniteSet((free \ {r}) \cup {t})
        /\ Cardinality((free \ {r}) \cup {t}) = Cardinality(free \ {r}) + 1
    BY <2>2, <2>3, FS_AddElement
  <2>5. Cardinality(free) \in Nat
    BY <1>2, FS_CardinalityType
  <2>6. Cardinality((free \ {r}) \cup {t}) = Cardinality(free)
    BY <2>3, <2>4, <2>5
  <2> QED
    BY <2>2, <2>4, <2>6
<1>4. Pool!Apart' /\ mode # "Uninit"
  BY <1>1 DEF PoolStep
<1>5. HeapShape'
  BY <1>1, <1>2, <1>3, <1>4, TreeStaysClear, TreeShape
<1> QED
  BY <1>3, <1>5

(* free adds one region to the tree at most, and takes a node for it from  *)
(* the freelist or from the bump heap, or halts.                           *)
LEMMA TreeDeallocInv ==
  ASSUME HeapShape, NodesAccountedFor, ~halted,
         map' = map, NEW b \in live, TreeDealloc(b)
  PROVE  HeapShape' /\ NodesAccountedFor'
<1> DEFINE grown == Cardinality(free') - Cardinality(free)
<1>1. mode = "Tree" /\ mode' = mode /\ bump_base' = bump_base /\ Pool!Free(b)
  BY DEF TreeDealloc
<1>2. PoolStep /\ \E m : free' \subseteq free \cup {m}
  BY <1>1, PoolFree DEF HeapShape
<1>3. IsFiniteSet(free) /\ IsFiniteSet(fixed) /\ freelist \in Nat
  BY DEF HeapShape, BlocksOK
<1>4. IsFiniteSet(free') /\ grown \in Int /\ grown <= 1
  <2>1. PICK m : free' \subseteq free \cup {m}
    BY <1>2
  <2>2. /\ IsFiniteSet(free \cup {m})
        /\ \/ Cardinality(free \cup {m}) = Cardinality(free)
           \/ Cardinality(free \cup {m}) = Cardinality(free) + 1
    BY <1>3, FS_AddElement
  <2>3. IsFiniteSet(free') /\ Cardinality(free') <= Cardinality(free \cup {m})
    BY <2>1, <2>2, FS_Subset
  <2>4. Cardinality(free') \in Nat /\ Cardinality(free) \in Nat
    BY <1>3, <2>3, FS_CardinalityType
  <2> QED
    BY <2>2, <2>3, <2>4
<1>5. Cardinality(free') \in Nat /\ Cardinality(free) \in Nat /\ Cardinality(fixed) \in Nat
  BY <1>3, <1>4, FS_CardinalityType
<1>6. Cardinality(fixed) - 1 = Cardinality(free) + freelist
  BY <1>1 DEF NodesAccountedFor
<1>7. \/ /\ freelist' \in Nat /\ fixed' = fixed /\ next' = next
         /\ Cardinality(free) + freelist = Cardinality(free') + freelist'
      \/ /\ freelist' = freelist /\ TakesNodes(1)
         /\ Cardinality(free') = Cardinality(free) + 1
      \/ freelist' = freelist /\ fixed' = fixed /\ next' = next /\ halted'
  <2>1. CASE grown <= 0 /\ freelist' = freelist - grown /\ fixed' = fixed /\ next' = next
    BY <1>3, <1>4, <1>5, <2>1
  <2>2. CASE grown > 0 /\ TakesNode
    <3>1. grown = 1 /\ Cardinality(free') = Cardinality(free) + 1
      BY <1>4, <1>5, <2>2
    <3> HIDE DEF grown
    <3>2. CASE freelist > 0 /\ freelist' = freelist - 1 /\ fixed' = fixed /\ next' = next
      BY <1>3, <1>5, <3>1, <3>2
    <3>3. CASE /\ BumpHas(NodeSize, NodeAlign) /\ freelist' = freelist
               /\ fixed' = fixed \cup Nodes(1) /\ next' = NodesEnd(1)
      <4>1. NodesEnd(1) <= bump_base + BumpSize
        BY <3>3, SizesAssumption DEF BumpHas, NodesEnd
      <4>2. TakesNodes(1)
        BY <3>3, <4>1 DEF TakesNodes
      <4> QED
        BY <3>1, <3>3, <4>2
    <3>4. CASE halted' = TRUE /\ fixed' = fixed /\ next' = next /\ freelist' = freelist
      BY <3>4
    <3> QED
      BY <2>2, <3>2, <3>3, <3>4 DEF TakesNode
  <2> QED
    BY <2>1, <2>2 DEF TreeDealloc
<1>8. HeapShape'
  <2>1. freelist' \in Nat
    BY <1>3, <1>7
  <2>2. \/ mode = "Tree" /\ fixed' = fixed /\ next' = next
        \/ \E n \in Nat : TakesNodes(n)
    BY <1>1, <1>7
  <2>3. Pool!Apart' /\ mode # "Uninit"
    BY <1>1, <1>2 DEF PoolStep
  <2> QED
    BY <1>1, <1>2, <1>4, <2>1, <2>2, <2>3, TreeStaysClear, TreeShape
<1>9. NodesAccountedFor'
  <2>1. CASE /\ fixed' = fixed
             /\ Cardinality(free) + freelist = Cardinality(free') + freelist'
    BY <1>6, <2>1 DEF NodesAccountedFor
  <2>2. CASE /\ freelist' = freelist /\ TakesNodes(1)
             /\ Cardinality(free') = Cardinality(free) + 1
    <3>1. Cardinality(fixed') = Cardinality(fixed) + 1
      BY <1>1, <2>2, NodesAdded
    <3>2. Cardinality(fixed') - 1 = Cardinality(free') + freelist'
      BY <1>3, <1>5, <1>6, <2>2, <3>1
    <3> QED
      BY <3>2 DEF NodesAccountedFor
  <2>3. CASE halted'
    BY <2>3 DEF NodesAccountedFor
  <2> QED
    BY <1>7, <2>1, <2>2, <2>3
<1> QED
  BY <1>8, <1>9

-----------------------------------------------------------------------------
(* The theorems.                                                           *)

(* Every step preserves the invariant. *)
LEMMA StepShape == HeapInv /\ [Next]_vars => HeapInv'
<1> SUFFICES ASSUME HeapInv, [Next]_vars PROVE HeapInv'
  OBVIOUS
<1>1. HeapShape /\ NodesAccountedFor
  BY DEF HeapInv
<1>2. CASE UNCHANGED vars
  <2>1. /\ map' = map /\ mode' = mode /\ bump_base' = bump_base /\ next' = next
        /\ free' = free /\ live' = live /\ fixed' = fixed /\ freelist' = freelist
        /\ halted' = halted
    BY <1>2 DEF vars, bump
  <2>2. HeapShape'
    BY <1>1, <2>1, ShapeStays
  <2>3. NodesAccountedFor'
    BY <1>1, <2>1 DEF NodesAccountedFor
  <2> QED
    BY <2>2, <2>3 DEF HeapInv
<1>3. CASE Next
  <2> SUFFICES HeapShape' /\ NodesAccountedFor'
    BY DEF HeapInv
  <2>1. ~halted /\ map' = map
    BY <1>3 DEF Next
  <2>2. CASE InitBump
    <3>1. HeapShape'
      BY <1>1, <2>1, <2>2, InitBumpShape
    <3>2. mode' # "Tree"
      BY <2>2 DEF InitBump
    <3> QED
      BY <3>1, <3>2 DEF NodesAccountedFor
  <2>3. CASE AllocStack
    <3>1. HeapShape'
      BY <1>1, <2>1, <2>3, AllocStackShape
    <3>2. mode' # "Tree"
      BY <2>3 DEF AllocStack
    <3> QED
      BY <3>1, <3>2 DEF NodesAccountedFor
  <2>4. CASE InitTree
    BY <1>1, <2>1, <2>4, InitTreeInv DEF NodesAccountedFor
  <2>5. ASSUME NEW layout \in Layouts, BumpAlloc(layout)
        PROVE  HeapShape' /\ NodesAccountedFor'
    <3>1. HeapShape'
      BY <1>1, <2>1, <2>5, BumpAllocShape
    <3>2. mode' # "Tree"
      BY <2>5 DEF BumpAlloc
    <3> QED
      BY <3>1, <3>2 DEF NodesAccountedFor
  <2>6. ASSUME NEW b \in live, BumpDealloc(b)
        PROVE  HeapShape' /\ NodesAccountedFor'
    <3>1. HeapShape'
      BY <1>1, <2>1, <2>6, BumpDeallocShape
    <3>2. mode' # "Tree"
      BY <2>6 DEF BumpDealloc
    <3> QED
      BY <3>1, <3>2 DEF NodesAccountedFor
  <2>7. ASSUME NEW b \in live, TreeDealloc(b)
        PROVE  HeapShape' /\ NodesAccountedFor'
    BY <1>1, <2>1, <2>7, TreeDeallocInv
  <2>8. ASSUME NEW q \in Pool!Request, Pool!Alloc(q), mode = "Tree",
               mode' = mode, bump_base' = bump_base, next' = next,
               freelist' = freelist, fixed' = fixed
        PROVE  HeapShape' /\ NodesAccountedFor'
    <3>1. HeapShape' /\ Cardinality(free') = Cardinality(free)
      BY <1>1, <2>1, <2>8, TreeAllocInv
    <3>2. Cardinality(fixed) - 1 = Cardinality(free) + freelist
      BY <1>1, <2>1, <2>8 DEF NodesAccountedFor
    <3>3. Cardinality(fixed') - 1 = Cardinality(free') + freelist'
      BY <2>8, <3>1, <3>2
    <3> QED
      BY <3>1, <3>3 DEF NodesAccountedFor
  <2>9. ASSUME mode' = mode, bump_base' = bump_base, next' = next, freelist' = freelist,
               fixed' = fixed, free' = free, live' = live
        PROVE  HeapShape' /\ NodesAccountedFor'
    <3>1. HeapShape'
      BY <1>1, <2>1, <2>9, ShapeStays
    <3>2. NodesAccountedFor'
      BY <1>1, <2>1, <2>9 DEF NodesAccountedFor
    <3> QED
      BY <3>1, <3>2
  <2>10. ASSUME NEW layout \in Layouts, TreeAlloc(layout)
         PROVE  HeapShape' /\ NodesAccountedFor'
    <3>1. Unconstrained(layout) \in Pool!Request
      BY LayoutsAssumption, UnconstrainedRequest
    <3> QED
      BY <2>8, <2>10, <3>1 DEF TreeAlloc, bump
  <2>11. CASE AllocateFrame
    <3>1. FrameRequest \in Pool!Request
      BY SizesAssumption DEF FrameRequest, Unconstrained, Pool!Request
    <3> QED
      BY <2>8, <2>9, <2>11, <3>1 DEF AllocateFrame, bump
  <2>12. ASSUME NEW layout \in DeviceLayouts, XhciAllocate(layout)
         PROVE  HeapShape' /\ NodesAccountedFor'
    <3>1. Unconstrained(layout) \in Pool!Request
      BY LayoutsAssumption, UnconstrainedRequest
    <3> QED
      BY <2>8, <2>9, <2>12, <3>1 DEF XhciAllocate, bump
  <2> QED
    BY <1>3, <2>2, <2>3, <2>4, <2>5, <2>6, <2>7, <2>10, <2>11, <2>12 DEF Next
<1> QED
  BY <1>2, <1>3

(* The inductive invariant holds through the switch of allocators, for     *)
(* every memory map and every sequence of allocations.                     *)
THEOREM Invariance == Spec => []HeapInv
<1> QED
  BY InitShape, StepShape, PTL DEF Spec

(* Every byte of the heap has one owner, before and after the switch of    *)
(* allocators and for blocks of the bump heap that are freed into the tree. *)
THEOREM EveryByteHasOneOwner == Spec => []OneOwner
<1>1. HeapInv => OneOwner
  <2> SUFFICES ASSUME HeapInv PROVE OneOwner
    OBVIOUS
  <2>1. HeapShape
    BY DEF HeapInv
  <2>2. live \cap fixed = {}
    BY <2>1, DistinctOwners
  <2>3. \A b, c \in live \cup fixed : b = c \/ Pool!Disjoint(b, c)
    BY <2>1 DEF HeapShape, FixedApart, Pool!Apart, Pool!LiveDisjoint, Pool!Disjoint
  <2>4. \A r \in free, b \in live \cup fixed : Pool!Disjoint(r, b)
    BY <2>1 DEF HeapShape, FixedApart, Pool!Apart, Pool!FreeClearOfLive
  <2>5. \A u \in Unused, b \in live \cup fixed : Pool!Disjoint(u, b)
    <3> SUFFICES ASSUME NEW u \in Unused, NEW b \in live \cup fixed
                 PROVE  Pool!Disjoint(u, b)
      OBVIOUS
    <3>1. mode # "Uninit"
      BY DEF Unused
    <3>2. CASE b \in live
      BY <2>1, <3>2 DEF HeapShape, FixedApart, Pool!Disjoint
    <3>3. CASE b \in fixed
      <4>1. u.base = next
        BY <2>1, <3>1, BumpFacts DEF Block
      <4>2. b.base + b.size <= next
        BY <2>1, <3>1, <3>3 DEF HeapShape, BumpOK
      <4> QED
        BY <4>1, <4>2 DEF Pool!Disjoint, Pool!End
    <3> QED
      BY <3>2, <3>3
  <2>6. \A r \in free, u \in Unused : Pool!Disjoint(r, u)
    BY <2>1 DEF HeapShape, FixedApart
  <2>7. \A r, s \in free : r = s \/ Pool!Before(r, s) \/ Pool!Before(s, r)
    BY <2>1 DEF HeapShape, Pool!Apart, Pool!FreeApart
  <2> QED
    BY <2>2, <2>3, <2>4, <2>5, <2>6, <2>7 DEF OneOwner
<1> QED
  BY <1>1, Invariance, PTL

(* All that the heap hands out or holds lies in usable or reclaimable      *)
(* memory at or above LowMemory.                                           *)
THEOREM HeapStaysInItsMemory == Spec => []OnlyHeapMemory
<1>1. HeapInv => OnlyHeapMemory
  <2> SUFFICES ASSUME HeapInv, NEW b \in live \cup fixed \cup free \cup Unused
               PROVE  \E i \in 1 .. Len(map) :
                        /\ map[i].kind \in {"USABLE", "BOOTLOADER_RECLAIMABLE"}
                        /\ map[i].base >= LowMemory
                        /\ Pool!Inside(Block(b.base - Hhdm, b.size), map[i])
    BY DEF OnlyHeapMemory
  <2>1. HeapShape
    BY DEF HeapInv
  <2>2. b \in Pool!Region /\ \E a \in Heaps : Pool!Inside(b, a)
    <3>1. CASE b \in live \cup fixed \cup free
      BY <2>1, <3>1, BlocksAreRegions DEF HeapShape, InHeaps
    <3>2. CASE b \in Unused
      <4>1. mode # "Uninit"
        BY <3>2 DEF Unused
      <4>2. /\ bump_base \in Nat /\ next \in Nat /\ BumpSize \in Nat
            /\ bump_base <= next /\ next <= bump_base + BumpSize
            /\ b = Block(next, bump_base + BumpSize - next)
        BY <2>1, <3>2, <4>1, BumpFacts
      <4>3. bump_base + BumpSize - next \in Nat
        BY <4>2
      <4>4. b \in Pool!Region /\ b.base = next /\ b.size = bump_base + BumpSize - next
        BY <4>2, <4>3, BlockMade
      <4>5. bump_base <= b.base /\ b.base + b.size <= bump_base + BumpSize
        BY <4>2, <4>3, <4>4
      <4> QED
        BY <2>1, <4>1, <4>4, <4>5, BumpInside
    <3> QED
      BY <3>1, <3>2
  <2>3. PICK i \in HeapEntries : Pool!Inside(b, HeapArea(i))
    BY <2>2 DEF Heaps
  <2>4. i \in 1 .. Len(map) /\ IsHeap(map[i])
    BY DEF HeapEntries
  <2>5. map[i].base \in Nat /\ map[i].size \in Nat /\ Hhdm \in Nat
    <3>1. map[i] \in [base : Nat, size : Nat, kind : STRING]
      BY <2>1, <2>4, MapsAssumption, ElementOfSeq DEF HeapShape
    <3> QED
      BY <3>1, SizesAssumption
  <2>6. Pool!Inside(Block(b.base - Hhdm, b.size), map[i])
    <3>1. /\ Hhdm + map[i].base <= b.base
          /\ b.base + b.size <= (Hhdm + map[i].base) + map[i].size
      BY <2>3 DEF HeapArea, Pool!Inside, Pool!End
    <3>2. b.base \in Nat /\ b.size \in Nat
      BY <2>2, BlockFields
    <3>3. /\ map[i].base <= b.base - Hhdm
          /\ (b.base - Hhdm) + b.size <= map[i].base + map[i].size
      BY <2>5, <3>1, <3>2
    <3> QED
      BY <3>3 DEF Block, Pool!Inside, Pool!End
  <2> QED
    BY <2>4, <2>6 DEF IsHeap
<1> QED
  BY <1>1, Invariance, PTL

(* Every node taken from the bump heap is in the tree or in the freelist,  *)
(* so that free takes a new one only when all of them hold a region.       *)
THEOREM NoNodeIsLost == Spec => []NodesAccountedFor
<1>1. HeapInv => NodesAccountedFor
  BY DEF HeapInv
<1> QED
  BY <1>1, Invariance, PTL
=============================================================================
