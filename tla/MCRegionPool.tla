---------------------------- MODULE MCRegionPool ----------------------------
(***************************************************************************)
(* Two areas with a hole between them, the second one not aligned, and     *)
(* requests of every kind: plain, aligned, below a limit, in a window.     *)
(***************************************************************************)
EXTENDS RegionPool

Any(size, align) == [size |-> size, align |-> align, max_address |-> {}, boundary |-> {}]

MCHhdm == 4
MCAreas == {[base |-> 4, size |-> 5], [base |-> 11, size |-> 4]}
MCRequests ==
  {Any(1, 1), Any(2, 2), Any(3, 1),
   [size |-> 2, align |-> 1, max_address |-> {3}, boundary |-> {}],
   [size |-> 2, align |-> 1, max_address |-> {}, boundary |-> {4}]}
=============================================================================
