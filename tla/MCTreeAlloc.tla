---------------------------- MODULE MCTreeAlloc ----------------------------
(***************************************************************************)
(* Areas with holes between them, enough of them for the tree to have two  *)
(* black levels, in an order that makes init rotate.                       *)
(***************************************************************************)
EXTENDS TreeHeap

Any(size, align) == [size |-> size, align |-> align, max_address |-> {}, boundary |-> {}]
Area(base, size) == [base |-> base, size |-> size]

MCHhdm == 4
MCAreaList == <<Area(4, 2), Area(8, 3), Area(13, 1), Area(16, 1), Area(20, 1)>>
MCRequests ==
  {Any(1, 1), Any(2, 2),
   [size |-> 2, align |-> 1, max_address |-> {6}, boundary |-> {4}]}
=============================================================================
