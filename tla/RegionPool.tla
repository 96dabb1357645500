----------------------------- MODULE RegionPool -----------------------------
(***************************************************************************)
(* The tree allocator (allocator/tree_alloc.rs) with its red-black tree    *)
(* replaced by the set of regions the tree holds.  The choice of region,   *)
(* the carving and the coalescing are the code's, arithmetic included.     *)
(*                                                                         *)
(* Callers: only blocks in use are freed, with the size they were          *)
(* allocated with (the contract of GlobalAlloc), and sizes are not 0.      *)
(***************************************************************************)
EXTENDS Regions

VARIABLES
  free,   (* The regions in the tree, those of size 0 included.            *)
  live    (* The blocks handed out and not yet freed.                      *)

vars == <<free, live>>

TypeOK ==
  /\ free \subseteq Region
  /\ live \subseteq [base : Nat, size : Nat \ {0}]

(***************************************************************************)
(* alloc: the lowest region that fits is cut from below; what the          *)
(* alignment skips is not given back to the tree.                          *)
(***************************************************************************)
AlignUp(base, align) == ((base + align - 1) \div align) * align

SameWindow(first, last, w) == first \div w = last \div w

(* Mutation of Fits: the bytes skipped for the alignment are not counted.  *)
FitsIgnoringPadding(r, q) == r.size >= q.size

(* Mutation of Fits: max_address and boundary are not tested.              *)
FitsAnywhere(r, q) == r.size >= AlignUp(r.base, q.align) - r.base + q.size

Fits(r, q) ==
  LET aligned == AlignUp(r.base, q.align) IN
  /\ r.size >= aligned - r.base + q.size
  /\ \A m \in q.max_address : ToPhysicalAddr(aligned) + q.size <= m
  /\ \A w \in q.boundary : SameWindow(aligned, aligned + q.size - 1, w)

(* The block cut from r, and the region that is left of r. *)
Cut(r, q)  == [base |-> AlignUp(r.base, q.align), size |-> q.size]

(* Mutation of Rest: the region forgets that its base was aligned first.   *)
RestWithPadding(r, q) == [base |-> r.base + q.size, size |-> r.size - q.size]

Rest(r, q) == [base |-> End(Cut(r, q)), size |-> End(r) - End(Cut(r, q))]

Alloc(q) ==
  \E r \in free :
    /\ Fits(r, q)
    /\ \A s \in free : Fits(s, q) => r.base <= s.base
    /\ free' = (free \ {r}) \cup {Rest(r, q)}
    /\ live' = live \cup {Cut(r, q)}

(***************************************************************************)
(* free: the predecessor and the successor of the address, as sets of at   *)
(* most one region, are merged with the block when they touch it.          *)
(***************************************************************************)
Predecessor(addr) ==
  {p \in free : p.base < addr /\ \A r \in free : r.base < addr => r.base <= p.base}

(* Mutation of Successor: a region at the address itself is not a successor. *)
SuccessorAbove(addr) ==
  {s \in free : s.base > addr /\ \A r \in free : r.base > addr => s.base <= r.base}

Successor(addr) ==
  {s \in free : s.base >= addr /\ \A r \in free : r.base >= addr => s.base <= r.base}

Max2(m, n) == IF m >= n THEN m ELSE n

(* The code replaces new_base before it computes new_size from it, so the  *)
(* size is measured from the base of the predecessor.                      *)
MergePredecessor(p, b) ==
  [base |-> p.base, size |-> Max2(p.base + b.size, End(p)) - p.base]

MergeSuccessor(m, s) == [base |-> m.base, size |-> End(s) - m.base]

Free(b) ==
  LET touching == {p \in Predecessor(b.base) : End(p) >= b.base}
      widened  == IF touching = {} THEN {b} ELSE {MergePredecessor(p, b) : p \in touching}
  IN \E m \in widened :
       LET reached == {s \in Successor(b.base) : End(m) >= s.base}
           merged  == IF reached = {} THEN {m} ELSE {MergeSuccessor(m, s) : s \in reached}
       IN /\ free' = (free \ (touching \cup reached)) \cup {r \in merged : r.size > 0}
          /\ live' = live \ {b}

(* init: every area is inserted, insert ignores a region of size 0. *)
Init ==
  /\ free = {r \in Areas : r.size > 0}
  /\ live = {}

Next ==
  \/ \E q \in Requests : Alloc(q)
  \/ \E b \in live : Free(b)

Spec == Init /\ [][Next]_vars
-----------------------------------------------------------------------------
(* Regions of the tree neither overlap nor touch nor share a base: alloc   *)
(* and free keep apart what init kept apart, so a key of the tree names    *)
(* one node and delete removes the region that free merged.                *)
FreeApart == \A r, s \in free : r = s \/ Before(r, s) \/ Before(s, r)

(* No byte of a block in use is in the tree, so it cannot be allocated a   *)
(* second time, whatever free did to the size of a merged region.          *)
FreeClearOfLive == \A r \in free, b \in live : Disjoint(r, b)

(* No byte is in two blocks in use. *)
LiveDisjoint == \A b, c \in live : b = c \/ Disjoint(b, c)

(* Everything the allocator handles lies inside one area of the memory     *)
(* map: coalescing never bridges the hole between two areas.               *)
InAreas == \A r \in free \cup live : \E a \in Areas : Inside(r, a)

(* The part of the invariant that does not depend on where the heap lies.  *)
Apart == TypeOK /\ FreeApart /\ FreeClearOfLive /\ LiveDisjoint

(* The inductive invariant. *)
IInv == Apart /\ InAreas

(* The pool implements the heap its callers rely on. *)
Heap == INSTANCE BlockHeap

HeapSpec == Heap!Spec
=============================================================================
