------------------------------ MODULE Regions ------------------------------
(***************************************************************************)
(* Regions of memory and requests for memory, as the heap of the kernel    *)
(* sees them: Region of allocator/allocator.rs, the Layout of a request    *)
(* and the two Option arguments of RBTreeAlloc::alloc.                     *)
(***************************************************************************)
EXTENDS Integers

CONSTANTS
  Areas,     (* The regions of the memory map that the heap is built from.  *)
  Requests,  (* The calls of alloc: size, align, max_address and boundary.  *)
  Hhdm       (* Virtual address of physical address 0.                      *)

Region == [base : Nat, size : Nat]

(* One past the last byte. *)
End(r) == r.base + r.size

(* An Option<usize> argument is a set: {} for None, {x} for Some(x). *)
Request == [size : Nat \ {0}, align : Nat \ {0},
            max_address : SUBSET Nat, boundary : SUBSET (Nat \ {0})]

(* r ends before s begins, and at least one byte lies between them. *)
Before(r, s) == End(r) < s.base

(* No byte belongs to both.  For regions without bytes this also says      *)
(* that neither lies strictly inside the other.                            *)
Disjoint(r, s) == End(r) <= s.base \/ End(s) <= r.base

Inside(r, a) == a.base <= r.base /\ End(r) <= End(a)

(***************************************************************************)
(* Assumed of the memory map: between any two heap areas there is memory   *)
(* that is not heap.  find_heap_areas does not see to it; MCTreeAdjacent   *)
(* shows what happens when two areas touch.                                *)
(***************************************************************************)
ASSUME AreasAssumption ==
  /\ Areas \subseteq Region
  /\ \A r, s \in Areas : r = s \/ Before(r, s) \/ Before(s, r)

ASSUME RequestsAssumption == Requests \subseteq Request

ASSUME HhdmAssumption == Hhdm \in Nat /\ \A r \in Areas : Hhdm <= r.base

(* to_physical_addr for an address of the direct map. *)
ToPhysicalAddr(a) == a - Hhdm
=============================================================================
