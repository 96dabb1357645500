----------------------------- MODULE TreeAlloc -----------------------------
(***************************************************************************)
(* RBTreeAlloc of allocator/tree_alloc.rs: the regions of RegionPool kept  *)
(* in a left-leaning red-black tree whose nodes are recycled.              *)
(***************************************************************************)
EXTENDS LLRB

CONSTANTS
  AreaList,   (* The areas in the order in which init inserts them.         *)
  Requests,   (* The calls of alloc.                                        *)
  Hhdm        (* Virtual address of physical address 0.                     *)

VARIABLES
  root,       (* The tree.                                                  *)
  freelist,   (* How many nodes are in the freelist.                        *)
  boxes,      (* How many nodes the bump allocator has provided so far.     *)
  live,       (* The blocks handed out and not yet freed.                   *)
  panicked    (* An unwrap found None; the panic handler halts the machine. *)

vars == <<root, freelist, boxes, live, panicked>>

AreaSet == {AreaList[i] : i \in 1 .. Len(AreaList)}

(* The arithmetic of a cut is the pool's, and so is what the tree promises.*)
Regions(t) == {RegionOf(n) : n \in Subtrees[t]}

Pool == INSTANCE RegionPool WITH Areas <- AreaSet, free <- Regions(root)

-----------------------------------------------------------------------------
(***************************************************************************)
(* alloc_rec: the left subtree if its largest region may do, then the node *)
(* itself, then the right subtree.  The result is the tree and the set of  *)
(* blocks cut (none or one).                                               *)
(***************************************************************************)
Answer(t, out) == [tree |-> t, out |-> out]

AllocHere(n, q) ==
  LET rest == Pool!Rest(n, q) IN
  Answer(UpdateMaxSize([n EXCEPT !.base = rest.base, !.size = rest.size]), {Pool!Cut(n, q)})

(* Mutation of AllocIn: > for >= in the pruning test.                      *)
AllocInLarger(t, q, alloc) ==
  IF MaxSize(t) > q.size /\ t # Nil THEN alloc[t] ELSE Answer(t, {})

(* alloc[t] is what the call for the subtree t returns.                    *)
AllocIn(t, q, alloc) ==
  IF MaxSize(t) >= q.size /\ t # Nil THEN alloc[t] ELSE Answer(t, {})

AllocRec(n, q, alloc) ==
  LET l  == AllocIn(n.left, q, alloc)
      n1 == UpdateMaxSize([n EXCEPT !.left = l.tree])
      r  == AllocIn(n1.right, q, alloc)
  IN IF l.out # {} THEN Answer(n1, l.out)
     ELSE IF Pool!Fits(n1, q) THEN AllocHere(n1, q)
     ELSE Answer(UpdateMaxSize([n1 EXCEPT !.right = r.tree]), r.out)

Allocate(t, q) ==
  LET alloc[n \in Tree] == IF n = Nil THEN Answer(Nil, {}) ELSE AllocRec(n, q, alloc)
  IN alloc[t]

Alloc(q) ==
  LET a == Allocate(root, q) IN
  /\ ~panicked
  /\ root' = Paint(a.tree, FALSE)
  /\ live' = live \cup a.out
  /\ UNCHANGED <<freelist, boxes, panicked>>

-----------------------------------------------------------------------------
(***************************************************************************)
(* free.                                                                   *)
(***************************************************************************)

(* Mutation of Touching: > for >= in the test for a neighbour.             *)
Overlapping(b) == {p \in PredecessorIn(root, b.base) : Pool!End(p) > b.base}

(* The nodes that free merges the block with, as in RegionPool. *)
Touching(b) == {p \in PredecessorIn(root, b.base) : Pool!End(p) >= b.base}
Widened(b)  == IF Touching(b) = {} THEN {b}
               ELSE {Pool!MergePredecessor(p, b) : p \in Touching(b)}
Reached(m, b) == {s \in SuccessorIn(root, b.base) : Pool!End(m) >= s.base}
Merged(m, b)  == IF Reached(m, b) = {} THEN {m}
                 ELSE {Pool!MergeSuccessor(m, s) : s \in Reached(m, b)}

(* Delete the key of the node in the set, if there is one. *)
DeleteKey(t, nodes) ==
  IF nodes = {} THEN {Removed(t, 0)}
  ELSE UNION {Delete(t, n.base) : n \in nodes}

(* The tree without the merged regions, the nodes now in the freelist. *)
Unlinked(b, gone, reached) ==
  UNION {{Removed(d.tree, c.freed + d.freed) : d \in DeleteKey(c.tree, reached)} :
           c \in DeleteKey(root, gone)}

Free(b) ==
  \E m \in Widened(b) : \E region \in Merged(m, b) :
    LET results == Unlinked(b, Touching(b), Reached(m, b))
        inserts == region.size > 0
    IN
    /\ ~panicked
    /\ panicked' = (results = {})
    /\ live' = live \ {b}
    /\ IF results = {}
       THEN UNCHANGED <<root, freelist, boxes>>
       ELSE \E u \in results :
              LET stock   == freelist + u.freed
                  recycle == inserts /\ stock > 0
              IN /\ root' = Insert(u.tree, region)
                 /\ freelist' = IF recycle THEN stock - 1 ELSE stock
                 /\ boxes' = IF inserts /\ ~recycle THEN boxes + 1 ELSE boxes
                 /\ BlackHeights[root'] \subseteq 0 .. MaxHeight

-----------------------------------------------------------------------------
(* init inserts the areas one after the other, with nodes from the bump    *)
(* allocator.                                                              *)
ASSUME HeightAssumption == Len(AreaList) <= MaxHeight

InsertedFirst[i \in 0 .. Len(AreaList)] ==
  IF i = 0 THEN Nil ELSE Insert(InsertedFirst[i - 1], AreaList[i])

Init ==
  /\ root = InsertedFirst[Len(AreaList)]
  /\ freelist = 0
  /\ boxes = Cardinality({i \in 1 .. Len(AreaList) : AreaList[i].size > 0})
  /\ live = {}
  /\ panicked = FALSE

Next ==
  \/ \E q \in Requests : Alloc(q)
  \/ \E b \in live : Free(b)

Spec == Init /\ [][Next]_vars
-----------------------------------------------------------------------------
(* The tree keeps its keys in order, none of them twice: with a duplicate, *)
(* delete(key) takes the wrong node.                                       *)
KeysOrdered == Ordered(root)

(* All paths have as many black nodes, red links lean left, and only the   *)
(* root may be red above a red node (free leaves a red root when the block *)
(* is dropped): what delete's unwraps rely on.                             *)
Balanced ==
  /\ Cardinality(BlackHeights[root]) = 1
  /\ \A n \in Subtrees[root] :
       /\ ~IsRed(n.right)
       /\ IsRed(n) /\ IsRed(n.left) => n = root

(* The largest size in every node is exact after rotations, cuts and       *)
(* deletes, so that alloc neither skips a region nor searches in vain.     *)
MaxSizeExact == SizesExact(root)

(* alloc fails only when no region of the tree fits, and takes the lowest. *)
AllocComplete ==
  \A q \in Requests :
    LET fitting == {r \in Regions(root) : Pool!Fits(r, q)}
        lowest  == {r \in fitting : \A s \in fitting : r.base <= s.base}
    IN Allocate(root, q).out = {Pool!Cut(r, q) : r \in lowest}

(* Every node the bump allocator has provided is in the tree or in the     *)
(* freelist: no deletion drops a node, since the bump allocator never      *)
(* takes one back.                                                         *)
NodesConserved == NodeCount[root] + freelist = boxes

(* The unwraps of move_red_left and move_red_right find a child. *)
NoPanic == ~panicked

(* The tree is the pool: it holds the regions the pool holds. *)
PoolSpec == Pool!Spec

(* What is freed is in the tree afterwards ("free back into the tree       *)
(* allocator", Allocator::deallocate).                                     *)
FreedIsFree ==
  [][\A b \in live \ live' : \A x \in b.base .. (Pool!End(b) - 1) :
       \E r \in Regions(root') : r.base <= x /\ x < Pool!End(r)]_vars
=============================================================================
