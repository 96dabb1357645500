------------------------------ MODULE TreeHeap ------------------------------
(***************************************************************************)
(* What TreeAlloc is given when the memory map keeps its heap areas apart, *)
(* as Regions assumes for the pool.                                        *)
(***************************************************************************)
EXTENDS TreeAlloc

(* Two areas do not touch; MCTreeAdjacent shows what happens when they do. *)
ASSUME AreaListAssumption ==
  /\ AreaList \in Seq(Pool!Region)
  /\ \A i, j \in 1 .. Len(AreaList) :
       i = j \/ Pool!Before(AreaList[i], AreaList[j]) \/ Pool!Before(AreaList[j], AreaList[i])

ASSUME RequestsAssumption == Requests \subseteq Pool!Request

ASSUME HhdmAssumption == Hhdm \in Nat /\ \A r \in AreaSet : Hhdm <= r.base
=============================================================================
