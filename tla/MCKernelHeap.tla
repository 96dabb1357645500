---------------------------- MODULE MCKernelHeap ----------------------------
(***************************************************************************)
(* Two maps.  One has memory that is too low, an area too small for the    *)
(* bump heap, the area the bump heap is taken from, and a reclaimable one, *)
(* each with reserved memory between; the bump heap holds the stack, the   *)
(* first nodes and one node or block more.  The other has no area that is  *)
(* large enough for the bump heap.                                         *)
(***************************************************************************)
EXTENDS KernelHeap

Entry(base, size, kind) == [base |-> base, size |-> size, kind |-> kind]

MCMemoryMaps ==
  {<<Entry(0, 2, "USABLE"), Entry(3, 2, "USABLE"), Entry(5, 1, "RESERVED"),
     Entry(6, 14, "USABLE"), Entry(20, 1, "RESERVED"),
     Entry(21, 2, "BOOTLOADER_RECLAIMABLE")>>,
   <<Entry(0, 9, "USABLE"), Entry(9, 6, "RESERVED")>>}

MCLayouts == {[size |-> 1, align |-> 1], [size |-> 2, align |-> 1]}
MCDeviceLayouts == {[size |-> 2, align |-> 1, boundary |-> {4}]}
MCAddressLimit == {19}
=============================================================================
