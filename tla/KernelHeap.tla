----------------------------- MODULE KernelHeap -----------------------------
(***************************************************************************)
(* The heap of the kernel as a whole: the memory map, the bump allocator   *)
(* (allocator/bump_alloc.rs), the tree allocator with the nodes it takes   *)
(* from the bump heap, the global allocator that switches from one to the  *)
(* other (allocator/allocator.rs), and the clients with an interface of    *)
(* their own: the kernel stack, page frames and XhciAllocator.             *)
(***************************************************************************)
EXTENDS Integers, Sequences, FiniteSets

CONSTANTS
  MemoryMaps,    (* The maps the boot loader may answer with: sequences of  *)
                 (* entries with base, size and kind.                       *)
  LowMemory,     (* 0x100000: entries below it are not heap.                *)
  MinBumpArea,   (* 5 MB.                                                   *)
  BumpSize,      (* 4 MB, BUMP_HEAP_SIZE.                                   *)
  StackSize,     (* 256 KB.                                                 *)
  NodeSize,      (* The size of a TreeRegion.                               *)
  NodeAlign,     (* Its alignment.                                          *)
  Layouts,       (* The size and align of calls of the global allocator.    *)
  PageSize,      (* 4 KB.                                                   *)
  DeviceLayouts, (* The size, align and boundary of calls of XhciAllocator. *)
  AddressLimit,  (* {4 GB} for a 32-bit controller, {} for a 64-bit one.    *)
  Hhdm           (* Virtual address of physical address 0.                  *)

IsHeap(entry) ==
  entry.kind \in {"USABLE", "BOOTLOADER_RECLAIMABLE"} /\ entry.base >= LowMemory

(***************************************************************************)
(* Assumed of the boot loader: between two entries the heap is built from  *)
(* there is memory that is not heap.  find_heap_areas does not see to it.  *)
(***************************************************************************)
ASSUME MapsAssumption ==
  \A m \in MemoryMaps :
    /\ m \in Seq([base : Nat, size : Nat, kind : STRING])
    /\ \A i, j \in 1 .. Len(m) :
         IsHeap(m[i]) /\ IsHeap(m[j]) =>
           \/ i = j
           \/ m[i].base + m[i].size < m[j].base
           \/ m[j].base + m[j].size < m[i].base

ASSUME SizesAssumption ==
  /\ LowMemory \in Nat /\ Hhdm \in Nat
  /\ {MinBumpArea, BumpSize, StackSize, NodeSize, NodeAlign, PageSize} \subseteq Nat \ {0}
  /\ StackSize <= BumpSize /\ BumpSize < MinBumpArea
  /\ NodeSize % NodeAlign = 0

(* Sizes are not 0: the contract of GlobalAlloc. *)
ASSUME LayoutsAssumption ==
  /\ Layouts \subseteq [size : Nat \ {0}, align : Nat \ {0}]
  /\ DeviceLayouts \subseteq
       [size : Nat \ {0}, align : Nat \ {0}, boundary : SUBSET (Nat \ {0})]
  /\ AddressLimit \subseteq Nat

VARIABLES
  map,        (* The answer to MEMMAP_REQ.                                   *)
  mode,       (* KERNEL_ALLOC_MODE.                                         *)
  bump_base,  (* BUMP_HEAP_BASE.                                            *)
  next,       (* NEXT of the bump allocator.                                *)
  free,       (* The regions in the tree.                                   *)
  freelist,   (* How many recycled nodes the tree has.                      *)
  live,       (* Blocks in use, from either allocator.                      *)
  fixed,      (* Blocks that are never freed: the stack and the tree nodes. *)
  device,     (* Blocks of XhciAllocator with the request they were for.    *)
  halted      (* The kernel has panicked.                                   *)

bump == <<bump_base, next>>
vars == <<map, mode, bump, free, freelist, live, fixed, device, halted>>

-----------------------------------------------------------------------------
(* find_heap_areas. *)
HeapEntries == {i \in 1 .. Len(map) : IsHeap(map[i])}

HeapArea(i) == [base |-> Hhdm + map[i].base, size |-> map[i].size]

(* Mutation of Carved: the size of the area is not reduced.                *)
CarvedBaseOnly(r) ==
  IF r.base = bump_base THEN [r EXCEPT !.base = @ + BumpSize] ELSE r

(* Mutation of Carved: the bump heap stays in the tree.                    *)
NotCarved(r) == r

(* TreeAlloc::init takes the bump heap out of the area it lies in. *)
Carved(r) ==
  IF r.base = bump_base
  THEN [base |-> r.base + BumpSize, size |-> r.size - BumpSize]
  ELSE r

TreeAreas == {Carved(HeapArea(i)) : i \in HeapEntries}

(* The operations of the tree allocator, without its Init and Next.        *)
Pool == INSTANCE RegionPool WITH Areas <- {}, Requests <- {}

Block(base, size) == [base |-> base, size |-> size]

(* What GlobalAlloc for TreeAlloc asks of the tree, None and None included.*)
Unconstrained(layout) ==
  [size |-> layout.size, align |-> layout.align, max_address |-> {}, boundary |-> {}]

-----------------------------------------------------------------------------
(* The bump allocator.                                                     *)

BumpStart(align) ==
  IF next % align # 0 THEN next + (align - (next % align)) ELSE next

BumpHas(size, align) == BumpStart(align) + size <= bump_base + BumpSize

(* The blocks of n nodes allocated one after the other, and their end. *)
Nodes(n) == {Block(BumpStart(NodeAlign) + k * NodeSize, NodeSize) : k \in 0 .. (n - 1)}

NodesEnd(n) == BumpStart(NodeAlign) + n * NodeSize

(* init_bump_alloc: the first area of 5 MB or more.  Without one, panic.   *)
InitBump ==
  /\ mode = "Uninit"
  /\ LET large == {i \in HeapEntries : HeapArea(i).size >= MinBumpArea} IN
     \/ /\ large = {}
        /\ halted' = TRUE
        /\ UNCHANGED <<mode, bump>>
     \/ \E i \in large :
          /\ \A j \in large : i <= j
          /\ bump_base' = HeapArea(i).base
          /\ next' = HeapArea(i).base
          /\ mode' = "Bump"
          /\ UNCHANGED halted
  /\ UNCHANGED <<free, freelist, live, fixed, device>>

(* alloc_stack, right after init_bump_alloc: the first block of a bump     *)
(* heap that is large enough for it and starts on a page.                  *)
AllocStack ==
  /\ mode = "Bump" /\ fixed = {}
  /\ fixed' = {Block(next, StackSize)}
  /\ next' = next + StackSize
  /\ UNCHANGED <<mode, bump_base, free, freelist, live, device, halted>>

(* TreeAlloc::init: one node from the bump heap for each area it inserts;  *)
(* Box::new_in panics when there is no room for it.                        *)
InitTree ==
  LET inserted == {r \in TreeAreas : r.size > 0}
      count    == Cardinality(inserted)
  IN
  /\ mode = "Bump" /\ fixed # {}
  /\ \/ /\ NodesEnd(count) <= bump_base + BumpSize
        /\ fixed' = fixed \cup Nodes(count)
        /\ next' = NodesEnd(count)
        /\ free' = inserted
        /\ mode' = "Tree"
        /\ UNCHANGED halted
     \/ /\ NodesEnd(count) > bump_base + BumpSize
        /\ halted' = TRUE
        /\ UNCHANGED <<fixed, next, free, mode>>
  /\ UNCHANGED <<bump_base, freelist, live, device>>

-----------------------------------------------------------------------------
(* The global allocator.                                                   *)

(* A call that cannot be met returns null and changes nothing. *)
BumpAlloc(layout) ==
  /\ mode = "Bump" /\ fixed # {}
  /\ BumpHas(layout.size, layout.align)
  /\ live' = live \cup {Block(BumpStart(layout.align), layout.size)}
  /\ next' = BumpStart(layout.align) + layout.size
  /\ UNCHANGED <<mode, bump_base, free, freelist, fixed, device, halted>>

TreeAlloc(layout) ==
  /\ mode = "Tree"
  /\ Pool!Alloc(Unconstrained(layout))
  /\ UNCHANGED <<mode, bump, freelist, fixed, device, halted>>

(* The bump allocator forgets the block. *)
BumpDealloc(b) ==
  /\ mode = "Bump"
  /\ live' = live \ {b}
  /\ UNCHANGED <<mode, bump, free, freelist, fixed, device, halted>>

(* Mutation of TakesNode: a recycled node stays in the freelist.           *)
TakesNodeTwice ==
  \/ freelist > 0 /\ UNCHANGED <<freelist, fixed, next, halted>>
  \/ /\ freelist = 0 /\ BumpHas(NodeSize, NodeAlign)
     /\ fixed' = fixed \cup Nodes(1)
     /\ next' = NodesEnd(1)
     /\ UNCHANGED <<freelist, halted>>

(***************************************************************************)
(* dealloc goes by the mode of the moment, so that a block of the bump     *)
(* heap may end up in the tree.  If the tree has grown, it has taken a     *)
(* node from the freelist or from the bump heap; without either, the       *)
(* kernel panics in the middle of free.                                    *)
(***************************************************************************)
TakesNode ==
  \/ /\ freelist > 0
     /\ freelist' = freelist - 1
     /\ UNCHANGED <<fixed, next, halted>>
  \/ /\ freelist = 0 /\ BumpHas(NodeSize, NodeAlign)
     /\ fixed' = fixed \cup Nodes(1)
     /\ next' = NodesEnd(1)
     /\ UNCHANGED <<freelist, halted>>
  \/ /\ freelist = 0 /\ ~BumpHas(NodeSize, NodeAlign)
     /\ halted' = TRUE
     /\ UNCHANGED <<fixed, next, freelist>>

TreeDealloc(b) ==
  LET grown == Cardinality(free') - Cardinality(free) IN
  /\ mode = "Tree"
  /\ Pool!Free(b)
  /\ device' = {d \in device : d.base # b.base}
  /\ \/ grown > 0 /\ TakesNode
     \/ /\ grown <= 0
        /\ freelist' = freelist - grown
        /\ UNCHANGED <<fixed, next, halted>>
  /\ UNCHANGED <<mode, bump_base>>

-----------------------------------------------------------------------------
(* Page frames: RBTreeAlloc::allocate_frame, which panics if it gets none. *)
FrameRequest == Unconstrained([size |-> PageSize, align |-> PageSize])

AllocateFrame ==
  /\ mode = "Tree"
  /\ \/ Pool!Alloc(FrameRequest) /\ UNCHANGED halted
     \/ /\ \A r \in free : ~Pool!Fits(r, FrameRequest)
        /\ halted' = TRUE
        /\ UNCHANGED <<free, live>>
  /\ UNCHANGED <<mode, bump, freelist, fixed, device>>

(***************************************************************************)
(* XhciAllocator::allocate builds a TreeAlloc with the limits of the       *)
(* controller and calls its GlobalAlloc::alloc, which asks the tree        *)
(* without them.  A refused request is reported as a block at address 0.   *)
(***************************************************************************)
Device(base, layout) ==
  [base |-> base, size |-> layout.size,
   max_address |-> AddressLimit, boundary |-> layout.boundary]

XhciAllocate(layout) ==
  /\ mode = "Tree"
  /\ \/ /\ Pool!Alloc(Unconstrained(layout))
        /\ \E b \in live' \ live : device' = device \cup {Device(b.base, layout)}
     \/ /\ \A r \in free : ~Pool!Fits(r, Unconstrained(layout))
        /\ device' = device \cup {Device(0, layout)}
        /\ UNCHANGED <<free, live>>
  /\ UNCHANGED <<mode, bump, freelist, fixed, halted>>

-----------------------------------------------------------------------------
Init ==
  /\ map \in MemoryMaps
  /\ mode = "Uninit"
  /\ bump_base = 0 /\ next = 0
  /\ free = {} /\ freelist = 0
  /\ live = {} /\ fixed = {} /\ device = {}
  /\ halted = FALSE

Next ==
  /\ ~halted
  /\ UNCHANGED map
  /\ \/ InitBump \/ AllocStack \/ InitTree
     \/ \E layout \in Layouts : BumpAlloc(layout) \/ TreeAlloc(layout)
     \/ \E b \in live : BumpDealloc(b) \/ TreeDealloc(b)
     \/ AllocateFrame
     \/ \E layout \in DeviceLayouts : XhciAllocate(layout)

Spec == Init /\ [][Next]_vars
-----------------------------------------------------------------------------
(* What the bump allocator has not handed out yet. *)
Unused == IF mode = "Uninit" THEN {}
          ELSE {Block(next, bump_base + BumpSize - next)}

(* Every byte has one owner: a block in use, the stack, a node of the tree,*)
(* a region of the tree or the rest of the bump heap, before and after the *)
(* switch of allocators and for blocks that outlive it.                    *)
OneOwner ==
  ~halted =>
    LET owned == live \cup fixed IN
    /\ live \cap fixed = {}
    /\ \A b, c \in owned : b = c \/ Pool!Disjoint(b, c)
    /\ \A r \in free \cup Unused, b \in owned : Pool!Disjoint(r, b)
    /\ \A r \in free, u \in Unused : Pool!Disjoint(r, u)
    /\ \A r, s \in free : r = s \/ Pool!Before(r, s) \/ Pool!Before(s, r)

(* The heap never touches memory below LowMemory or of another kind.       *)
OnlyHeapMemory ==
  \A b \in live \cup fixed \cup free \cup Unused :
    \E i \in 1 .. Len(map) :
      /\ map[i].kind \in {"USABLE", "BOOTLOADER_RECLAIMABLE"}
      /\ map[i].base >= LowMemory
      /\ Pool!Inside(Block(b.base - Hhdm, b.size), map[i])

(* Every node taken from the bump heap is in the tree or in the freelist,  *)
(* so free panics for want of a node only when all of them hold a region.  *)
NodesAccountedFor ==
  ~halted /\ mode = "Tree" => Cardinality(fixed) - 1 = Cardinality(free) + freelist

(***************************************************************************)
(* The inductive invariant.  A block of the bump heap that is freed into   *)
(* the tree may meet regions there, so it matters that all of the heap,    *)
(* the bump heap included, lies inside areas that do not touch, and that   *)
(* the last bytes handed out by the bump allocator belong to a node, which *)
(* nobody frees.                                                           *)
(***************************************************************************)
Heaps == {HeapArea(i) : i \in HeapEntries}

BlocksOK ==
  /\ free \subseteq [base : Nat, size : Nat]
  /\ live \cup fixed \subseteq [base : Nat, size : Nat \ {0}]
  /\ IsFiniteSet(free) /\ IsFiniteSet(fixed)
  /\ freelist \in Nat

(* What each allocator mode has set up. *)
Phase ==
  \/ /\ mode = "Uninit"
     /\ free = {} /\ live = {} /\ fixed = {} /\ freelist = 0
  \/ /\ mode = "Bump"
     /\ free = {} /\ freelist = 0
     /\ \/ fixed = {} /\ live = {} /\ next = bump_base
        \/ Cardinality(fixed) = 1
  \/ /\ mode = "Tree"
     /\ \E n \in fixed : n.base + n.size = next

(* The bump heap is the lower part of an area and its blocks are below next. *)
BumpOK ==
  mode # "Uninit" =>
    /\ bump_base \in Nat /\ next \in bump_base .. (bump_base + BumpSize)
    /\ \E a \in Heaps : a.base = bump_base /\ BumpSize < a.size
    /\ \A b \in fixed \cup (IF mode = "Bump" THEN live ELSE {}) :
         bump_base <= b.base /\ b.base + b.size <= next

InHeaps == \A b \in live \cup fixed \cup free : \E a \in Heaps : Pool!Inside(b, a)

FixedApart ==
  /\ \A b, c \in fixed : b = c \/ Pool!Disjoint(b, c)
  /\ \A b \in fixed, r \in free \cup live : Pool!Disjoint(r, b)
  /\ \A u \in Unused, r \in free \cup live : Pool!Disjoint(r, u)

HeapShape ==
  /\ map \in MemoryMaps
  /\ BlocksOK /\ Phase /\ BumpOK /\ InHeaps
  /\ Pool!Apart /\ FixedApart

HeapInv == HeapShape /\ NodesAccountedFor

(* Device memory lies where the controller can reach it and does not cross *)
(* its boundary ("`src/allocator/xhci.rs:20` adds `max_address` and        *)
(* `boundary` constraints for device allocations", xhci-thoughts.md).      *)
DeviceInWindow ==
  \A d \in device :
    /\ \A m \in d.max_address : d.base - Hhdm + d.size <= m
    /\ \A w \in d.boundary : (d.base % w) + d.size <= w
=============================================================================
