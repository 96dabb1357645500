--------------------------- MODULE MCTreeAdjacent ---------------------------
(***************************************************************************)
(* Two heap areas that touch, a third one apart: what find_heap_areas      *)
(* makes of a memory map whose USABLE and BOOTLOADER_RECLAIMABLE entries   *)
(* are neighbours.                                                         *)
(***************************************************************************)
EXTENDS TreeAlloc

Any(size, align) == [size |-> size, align |-> align, max_address |-> {}, boundary |-> {}]
Area(base, size) == [base |-> base, size |-> size]

MCHhdm == 0
MCAreaList == <<Area(0, 3), Area(3, 3), Area(6, 4)>>
MCRequests == {Any(1, 1), Any(2, 1), Any(3, 1)}

=============================================================================
