------------------------------ MODULE MmioMap ------------------------------
(* map_mmio_region of src/kernel/src/allocator/paging.rs: windows onto     *)
(* device memory are carved one behind the other from a virtual region and *)
(* their pages mapped to the device's frames.  Pages count from MMIO_BASE. *)
EXTENDS Integers

CONSTANTS
  PageSize    \* Size4KiB::SIZE, 4096

ASSUME PageSizeAssumption == PageSize \in Nat \ {0}

VARIABLES
  nextVirt,   \* NEXT_MMIO_VIRT, as a page
  pageTable,  \* page |-> frame, for the pages mapped so far
  windows     \* the calls of map_mmio_region so far and what they returned

mmioVars == <<nextVirt, pageTable, windows>>

MmioInit ==
  /\ nextVirt = 0
  /\ pageTable = [p \in {} |-> 0]
  /\ windows = {}

(* The number of pages between phys_start and phys_end, the last one       *)
(* included.                                                               *)
PagesOf(off, size) == (off + size - 1) \div PageSize + 1

(* Mutation of map_mmio_region: the last page is not added to the distance *)
(* from the first frame to the last.                                       *)
map_mmio_regionShort(frame, off, size) ==
  LET pages == PagesOf(off, size)
      new   == nextVirt..(nextVirt + pages - 1)
  IN /\ nextVirt' = nextVirt + pages - 1
     /\ pageTable' = [p \in DOMAIN pageTable \cup new |->
                        IF p \in new THEN frame + (p - nextVirt) ELSE pageTable[p]]
     /\ windows' = windows \cup {[page |-> nextVirt, pages |-> pages, frame |-> frame]}

(* map_mmio_region(phys, size) for the physical address at offset off of a *)
(* frame.  What it returns is the start of page nextVirt, without off.     *)
map_mmio_region(frame, off, size) ==
  LET pages == PagesOf(off, size)
      new   == nextVirt..(nextVirt + pages - 1)
  IN /\ nextVirt' = nextVirt + pages
     /\ pageTable' = [p \in DOMAIN pageTable \cup new |->
                        IF p \in new THEN frame + (p - nextVirt) ELSE pageTable[p]]
     /\ windows' = windows \cup {[page |-> nextVirt, pages |-> pages, frame |-> frame]}

MmioNext ==
  \E frame \in Nat, off \in 0..(PageSize - 1), size \in Nat \ {0} :
    map_mmio_region(frame, off, size)

MmioSpec == MmioInit /\ [][MmioNext]_mmioVars

-----------------------------------------------------------------------------
(* No two windows share a page, so that an access through one of them      *)
(* never reaches the device behind another (paging.rs:47-55).              *)
WindowsApart ==
  \A v, w \in windows :
    v # w => \/ v.page + v.pages <= w.page
             \/ w.page + w.pages <= v.page

(* Every page of every window is mapped, still, to the frame that the call *)
(* asked for: the range of the loop is inclusive, and no later call maps a *)
(* page again (paging.rs:62-75).                                           *)
WindowsMapped ==
  \A w \in windows : \A k \in 0..(w.pages - 1) :
    /\ w.page + k \in DOMAIN pageTable
    /\ pageTable[w.page + k] = w.frame + k
-----------------------------------------------------------------------------
(* The inductive invariant: the pages mapped so far are those below the    *)
(* next free one, and every window lies among them.                        *)
MmioInv ==
  /\ nextVirt \in Nat
  /\ DOMAIN pageTable = 0..(nextVirt - 1)
  /\ \A w \in windows :
       /\ w.page \in Nat /\ w.pages \in Nat /\ w.frame \in Nat
       /\ w.page + w.pages <= nextVirt
  /\ WindowsApart
  /\ WindowsMapped
=============================================================================
