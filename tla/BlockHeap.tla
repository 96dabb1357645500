----------------------------- MODULE BlockHeap -----------------------------
(***************************************************************************)
(* What a heap promises to its callers, whatever its data structure: a     *)
(* block that is handed out lies in the memory given to the heap, shares   *)
(* no byte with a block still in use, and meets the request.  A request    *)
(* may be refused at any time (a stutter here).                            *)
(***************************************************************************)
EXTENDS Regions

VARIABLE live   (* The blocks in use. *)

(* The block meets what the request asked for: the first byte is aligned,  *)
(* the whole block lies at or below max_address, and no multiple of        *)
(* boundary lies inside it.                                                *)
Meets(b, q) ==
  /\ b.size = q.size
  /\ b.base % q.align = 0
  /\ \A m \in q.max_address : ToPhysicalAddr(End(b)) <= m
  /\ \A w \in q.boundary : (b.base % w) + b.size <= w

HandOut(b, q) ==
  /\ Meets(b, q)
  /\ \A c \in live : Disjoint(b, c)
  /\ live' = live \cup {b}

TakeBack(b) == live' = live \ {b}

Init == live = {}

Next ==
  \/ \E a \in Areas, q \in Requests :
       \E base \in a.base .. (End(a) - q.size) :
         HandOut([base |-> base, size |-> q.size], q)
  \/ \E b \in live : TakeBack(b)

Spec == Init /\ [][Next]_live
=============================================================================
