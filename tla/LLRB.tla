-------------------------------- MODULE LLRB --------------------------------
(***************************************************************************)
(* The left-leaning red-black tree of allocator/tree_alloc.rs: nodes are   *)
(* free regions keyed by base, each with the largest size of its subtree.  *)
(*                                                                         *)
(* A tree is Nil (None) or a node.  Operations that unwrap an Option the   *)
(* code does not test return a set of results, which is empty when the     *)
(* unwrap panics.                                                          *)
(***************************************************************************)
EXTENDS Integers, Sequences, FiniteSets

CONSTANT
  MaxHeight  (* Bound: the black nodes on a path down the tree.             *)

ASSUME MaxHeightAssumption == MaxHeight \in Nat

Nil == <<>>

Nodes(S) ==
  [base : Nat, size : Nat, red : BOOLEAN, max_size : Nat, left : S, right : S]

(* The trees of at most n levels.  A balanced tree has two levels for each *)
(* black node of a path and two more while its root is red, and an         *)
(* insertion adds two.                                                     *)
Trees[n \in Nat] == IF n = 0 THEN {Nil} ELSE {Nil} \cup Nodes(Trees[n - 1])

Tree == Trees[2 * MaxHeight + 4]

IsRed(t) == t # Nil /\ t.red

Max2(m, n) == IF m >= n THEN m ELSE n

MaxSize(t) == IF t = Nil THEN 0 ELSE t.max_size

(* TreeRegion::new, and what alloc_node makes of a recycled node. *)
NewNode(base, size) ==
  [base |-> base, size |-> size, red |-> TRUE, max_size |-> size,
   left |-> Nil, right |-> Nil]

UpdateMaxSize(n) ==
  [n EXCEPT !.max_size = Max2(n.size, Max2(MaxSize(n.left), MaxSize(n.right)))]

Paint(t, red) == IF t = Nil THEN Nil ELSE [t EXCEPT !.red = red]

Flip(t) == Paint(t, ~IsRed(t))

-----------------------------------------------------------------------------
(* Rotations; both children of the color swap exist where they are called. *)

(* Mutation of RotateLeft: the node that goes down keeps its old max_size. *)
RotateLeftStale(h) ==
  LET x    == h.right
      down == [h EXCEPT !.right = x.left, !.red = TRUE]
  IN UpdateMaxSize([x EXCEPT !.left = down, !.red = h.red])

RotateLeft(h) ==
  LET x    == h.right
      down == UpdateMaxSize([h EXCEPT !.right = x.left, !.red = TRUE])
  IN UpdateMaxSize([x EXCEPT !.left = down, !.red = h.red])

RotateRight(h) ==
  LET x    == h.left
      down == UpdateMaxSize([h EXCEPT !.left = x.right, !.red = TRUE])
  IN UpdateMaxSize([x EXCEPT !.right = down, !.red = h.red])

FlipColors(h) ==
  [h EXCEPT !.red = ~@, !.left = Flip(@), !.right = Flip(@)]

(* The three repairs that insert_node and fix_up end with, in their order. *)
SplitFours(h) ==
  LET h2 == IF IsRed(h.left) /\ IsRed(h.left.left) THEN RotateRight(h) ELSE h
      h3 == IF IsRed(h2.left) /\ IsRed(h2.right) THEN FlipColors(h2) ELSE h2
  IN UpdateMaxSize(h3)

(* Mutation of FixUp: a red right child stays where it is.                 *)
FixUpNoRotation(h) == SplitFours(h)

(* fix_up rotates a red right child even when the left one is red too. *)
FixUp(h) == SplitFours(IF IsRed(h.right) THEN RotateLeft(h) ELSE h)

-----------------------------------------------------------------------------
(* insert_node and insert; a region of size 0 is not inserted.             *)

InsertNode(t, node) ==
  LET insert[h \in Tree] ==
        IF h = Nil THEN node
        ELSE LET g == IF node.base < h.base
                      THEN [h EXCEPT !.left = insert[@]]
                      ELSE [h EXCEPT !.right = insert[@]]
             IN SplitFours(IF IsRed(g.right) /\ ~IsRed(g.left) THEN RotateLeft(g) ELSE g)
  IN insert[t]

Insert(t, region) ==
  IF region.size = 0 THEN t
  ELSE Paint(InsertNode(t, NewNode(region.base, region.size)), FALSE)

-----------------------------------------------------------------------------
(* Searches; the result is a set of at most one node.                      *)

PredecessorIn(t, addr) ==
  LET below[h \in Tree] ==
        IF h = Nil THEN {}
        ELSE IF h.base >= addr THEN below[h.left]
        ELSE IF below[h.right] = {} THEN {h} ELSE below[h.right]
  IN below[t]

SuccessorIn(t, addr) ==
  LET above[h \in Tree] ==
        IF h = Nil THEN {}
        ELSE IF h.base < addr THEN above[h.right]
        ELSE IF above[h.left] = {} THEN {h} ELSE above[h.left]
  IN above[t]

(* Mutation of MinNode: the descent to the left is missing.                *)
FirstNode(t) == t

MinNode(t) ==
  LET min[h \in Tree \ {Nil}] == IF h.left = Nil THEN h ELSE min[h.left]
  IN min[t]

-----------------------------------------------------------------------------
(* Deletion.  Each result carries the tree and the number of nodes given   *)
(* to the freelist.                                                        *)

(* Mutation of MoveRedLeft: the right child is not rotated first.          *)
MoveRedLeftOnce(h) ==
  LET f == FlipColors(h) IN
  IF f.right = Nil THEN {}
  ELSE IF IsRed(f.right.left) THEN {FlipColors(RotateLeft(f))}
  ELSE {f}

(* h.right.as_ref().unwrap() of move_red_left. *)
MoveRedLeft(h) ==
  LET f == FlipColors(h) IN
  IF f.right = Nil THEN {}
  ELSE IF IsRed(f.right.left)
  THEN {FlipColors(RotateLeft([f EXCEPT !.right = RotateRight(@)]))}
  ELSE {f}

(* h.left.as_ref().unwrap() of move_red_right. *)
MoveRedRight(h) ==
  LET f == FlipColors(h) IN
  IF f.left = Nil THEN {}
  ELSE IF IsRed(f.left.left) THEN {FlipColors(RotateRight(f))}
  ELSE {f}

(* The node to descend from, borrowing a red link for the child if it and  *)
(* its left child are black. *)
LeanLeft(h) ==
  IF ~IsRed(h.left) /\ ~IsRed(h.left.left) THEN MoveRedLeft(h) ELSE {h}

LeanRight(h) ==
  IF ~IsRed(h.right) /\ ~IsRed(h.right.left) THEN MoveRedRight(h) ELSE {h}

Removed(t, freed) == [tree |-> t, freed |-> freed]

(* The whole of h, its right subtree included, is replaced by None. *)
DeleteMin[h \in Tree \ {Nil}] ==
  IF h.left = Nil THEN {Removed(Nil, 1)}
  ELSE UNION {{Removed(FixUp([g EXCEPT !.left = sub.tree]), sub.freed) :
                 sub \in DeleteMin[g.left]} : g \in LeanLeft(h)}

(* delete[t] is what the call for the subtree t returns.                   *)
DeleteLeft(h, delete) ==
  IF h.left = Nil THEN {Removed(FixUp(h), 0)}
  ELSE UNION {{Removed(FixUp([g EXCEPT !.left = sub.tree]), sub.freed) :
                 sub \in delete[g.left]} : g \in LeanLeft(h)}

(* The node with the key takes over the smallest region of its right       *)
(* subtree, whose node is removed instead.                                 *)
DeleteBelow(g, key, delete) ==
  IF key = g.base
  THEN LET min == MinNode(g.right) IN
       {Removed(FixUp([g EXCEPT !.base = min.base, !.size = min.size,
                                !.right = sub.tree]), sub.freed) :
          sub \in DeleteMin[g.right]}
  ELSE {Removed(FixUp([g EXCEPT !.right = sub.tree]), sub.freed) :
          sub \in delete[g.right]}

(* Mutation of DeleteRight: the removed node does not go to the freelist.  *)
DeleteRightDropping(h, key, delete) ==
  IF h.right = Nil THEN {IF key = h.base THEN Removed(Nil, 0) ELSE Removed(FixUp(h), 0)}
  ELSE UNION {DeleteBelow(g, key, delete) : g \in LeanRight(h)}

DeleteRight(h, key, delete) ==
  IF h.right = Nil THEN {IF key = h.base THEN Removed(Nil, 1) ELSE Removed(FixUp(h), 0)}
  ELSE UNION {DeleteBelow(g, key, delete) : g \in LeanRight(h)}

Delete(t, key) ==
  LET delete[h \in Tree] ==
        IF h = Nil THEN {Removed(Nil, 0)}
        ELSE IF key < h.base THEN DeleteLeft(h, delete)
        ELSE DeleteRight(IF IsRed(h.left) THEN RotateRight(h) ELSE h, key, delete)
  IN delete[t]

-----------------------------------------------------------------------------
(* Reference definitions: what the tree stands for and what makes it sound.*)

Subtrees[t \in Tree] ==
  IF t = Nil THEN {} ELSE {t} \cup Subtrees[t.left] \cup Subtrees[t.right]

NodeCount[t \in Tree] ==
  IF t = Nil THEN 0 ELSE NodeCount[t.left] + 1 + NodeCount[t.right]

(* The numbers of black nodes on the paths from t to its missing children. *)
BlackHeights[t \in Tree] ==
  IF t = Nil THEN {0}
  ELSE {h + (IF t.red THEN 0 ELSE 1) : h \in BlackHeights[t.left] \cup BlackHeights[t.right]}

RegionOf(n) == [base |-> n.base, size |-> n.size]

(* In a node the pruning of alloc may trust. *)
SizesExact(t) ==
  \A n \in Subtrees[t] : n.max_size = UpdateMaxSize(n).max_size

Ordered(t) ==
  \A n \in Subtrees[t] :
    /\ \A l \in Subtrees[n.left] : l.base < n.base
    /\ \A r \in Subtrees[n.right] : n.base < r.base
=============================================================================
