--------------------------- MODULE TreeAllocProofs --------------------------
(***************************************************************************)
(* Proofs about TreeAlloc, for every list of heap areas that are apart and *)
(* every set of calls: the tree stays ordered, balanced and exact, no      *)
(* unwrap fails, no node is lost, and the tree implements RegionPool, and  *)
(* so the heap that its callers rely on.                                   *)
(***************************************************************************)
EXTENDS TreeHeap, LLRBProofs

-----------------------------------------------------------------------------
(***************************************************************************)
(* The pool that the tree implements.                                      *)
(***************************************************************************)

PoolProofs == INSTANCE RegionPoolProofs WITH Areas <- AreaSet, free <- Regions(root)

(* The assumptions of Regions hold of the areas of the list. *)
LEMMA ElementOf ==
  ASSUME NEW S, NEW s \in Seq(S), NEW i \in 1 .. Len(s)
  PROVE  s[i] \in S
  OBVIOUS

(* The areas, the calls and the mapping are as RegionPool assumes them. *)
LEMMA ListAreas ==
  /\ AreaSet \subseteq PoolProofs!Region
  /\ \A r, s \in AreaSet : r = s \/ PoolProofs!Before(r, s) \/ PoolProofs!Before(s, r)
  /\ Requests \subseteq PoolProofs!Request
  /\ Hhdm \in Nat
  /\ \A r \in AreaSet : Hhdm <= r.base
<1>1. AreaSet \subseteq PoolProofs!Region
  <2> SUFFICES ASSUME NEW i \in 1 .. Len(AreaList) PROVE AreaList[i] \in Pool!Region
    BY DEF AreaSet, Pool!Region, PoolProofs!Region
  <2> QED
    BY AreaListAssumption, ElementOf
<1>2. \A r, s \in AreaSet : r = s \/ PoolProofs!Before(r, s) \/ PoolProofs!Before(s, r)
  BY AreaListAssumption DEF AreaSet, Pool!Before, PoolProofs!Before, Pool!End, PoolProofs!End
<1>3. Requests \subseteq PoolProofs!Request
  BY RequestsAssumption DEF Pool!Request, PoolProofs!Request
<1> QED
  BY <1>1, <1>2, <1>3, HhdmAssumption

(* The two instances of the pool speak of the same regions. *)
LEMMA SameRegions ==
  /\ Pool!Region = PoolProofs!Region
  /\ Pool!Request = PoolProofs!Request
  /\ \A r : Pool!End(r) = PoolProofs!End(r)
  /\ \A r, s : Pool!Before(r, s) <=> PoolProofs!Before(r, s)
  BY DEF Pool!Region, PoolProofs!Region, Pool!Request, PoolProofs!Request,
         Pool!End, PoolProofs!End, Pool!Before, PoolProofs!Before

(* The two instances of the pool have the same invariant. *)
LEMMA SameApart ==
  /\ Pool!Apart <=> PoolProofs!Apart
  /\ Pool!Apart' <=> PoolProofs!Apart'
  BY DEF Pool!Apart, PoolProofs!Apart, Pool!TypeOK, PoolProofs!TypeOK,
         Pool!FreeApart, PoolProofs!FreeApart,
         Pool!FreeClearOfLive, PoolProofs!FreeClearOfLive,
         Pool!LiveDisjoint, PoolProofs!LiveDisjoint,
         Pool!Region, PoolProofs!Region, Pool!End, PoolProofs!End,
         Pool!Before, PoolProofs!Before, Pool!Disjoint, PoolProofs!Disjoint

(* The two instances of the pool have the same operations. *)
LEMMA SameOperations ==
  /\ \A q : Pool!Alloc(q) => PoolProofs!Alloc(q)
  /\ \A b : Pool!Free(b) => PoolProofs!Free(b)
<1>1. \A q : Pool!Alloc(q) => PoolProofs!Alloc(q)
  BY DEF Pool!Alloc, PoolProofs!Alloc, Pool!Fits, PoolProofs!Fits, Pool!Cut, PoolProofs!Cut,
         Pool!Rest, PoolProofs!Rest, Pool!AlignUp, PoolProofs!AlignUp,
         Pool!End, PoolProofs!End, Pool!SameWindow, PoolProofs!SameWindow,
         Pool!ToPhysicalAddr, PoolProofs!ToPhysicalAddr
<1>2. \A b : Pool!Free(b) => PoolProofs!Free(b)
  BY DEF Pool!Free, PoolProofs!Free, Pool!Predecessor, PoolProofs!Predecessor,
         Pool!Successor, PoolProofs!Successor,
         Pool!MergePredecessor, PoolProofs!MergePredecessor,
         Pool!MergeSuccessor, PoolProofs!MergeSuccessor,
         Pool!End, PoolProofs!End, Pool!Max2, PoolProofs!Max2
<1> QED
  BY <1>1, <1>2

(* alloc of the pool keeps its regions apart. *)
LEMMA PoolAllocApart ==
  ASSUME Pool!Apart, NEW q \in Pool!Request, Pool!Alloc(q)
  PROVE  Pool!Apart'
<1>1. q \in PoolProofs!Request /\ PoolProofs!Apart /\ PoolProofs!Alloc(q)
  BY SameRegions, SameApart, SameOperations
<1>2. PoolProofs!Apart'
  BY <1>1, ListAreas, PoolProofs!AllocOutcome
<1> QED
  BY <1>2, SameApart

(* free of the pool keeps its regions apart. *)
LEMMA PoolFreeApart ==
  ASSUME Pool!Apart, NEW b \in live, Pool!Free(b)
  PROVE  Pool!Apart'
<1>1. PoolProofs!Apart /\ PoolProofs!Free(b)
  BY SameApart, SameOperations
<1>2. PoolProofs!Apart'
  BY <1>1, ListAreas, PoolProofs!FreeOutcome
<1> QED
  BY <1>2, SameApart

(* A region that fits, the block cut from it and what is left of it.       *)
LEMMA CutFrom ==
  ASSUME NEW r \in Pool!Region, NEW q \in Pool!Request, Pool!Fits(r, q)
  PROVE  /\ Pool!Cut(r, q) \in [base : Nat, size : Nat \ {0}]
         /\ Pool!Rest(r, q) \in Pool!Region
         /\ r.base < Pool!Rest(r, q).base
         /\ Pool!Rest(r, q).base + Pool!Rest(r, q).size = r.base + r.size
         /\ q.size <= r.size
<1>1. r \in PoolProofs!Region /\ q \in PoolProofs!Request
  BY SameRegions
<1>2. PoolProofs!Fits(r, q) /\ Pool!Cut(r, q) = PoolProofs!Cut(r, q) /\ Pool!Rest(r, q) = PoolProofs!Rest(r, q)
  BY DEF Pool!Fits, PoolProofs!Fits, Pool!Cut, PoolProofs!Cut,
         Pool!Rest, PoolProofs!Rest, Pool!AlignUp, PoolProofs!AlignUp,
         Pool!End, PoolProofs!End, Pool!SameWindow, PoolProofs!SameWindow,
         Pool!ToPhysicalAddr, PoolProofs!ToPhysicalAddr
<1>3. /\ PoolProofs!Cut(r, q) \in [base : Nat, size : Nat \ {0}]
      /\ PoolProofs!Rest(r, q) \in PoolProofs!Region
      /\ r.base <= PoolProofs!Cut(r, q).base
      /\ PoolProofs!End(PoolProofs!Cut(r, q)) = PoolProofs!Rest(r, q).base
      /\ PoolProofs!End(PoolProofs!Rest(r, q)) = PoolProofs!End(r)
      /\ r.base < PoolProofs!Rest(r, q).base
  BY <1>1, <1>2, ListAreas, PoolProofs!CutAndRest
<1>4. Pool!Rest(r, q).base + Pool!Rest(r, q).size = r.base + r.size
  BY <1>2, <1>3 DEF PoolProofs!End
<1>5. q.size <= r.size
  <2>1. PoolProofs!Cut(r, q).size = q.size
    BY DEF PoolProofs!Cut
  <2>2. /\ PoolProofs!Cut(r, q).base \in Nat /\ q.size \in Nat /\ r.base \in Nat /\ r.size \in Nat
        /\ PoolProofs!Rest(r, q).base \in Nat /\ PoolProofs!Rest(r, q).size \in Nat
    BY <1>1, <1>3 DEF PoolProofs!Region, PoolProofs!Request
  <2> QED
    BY <1>3, <2>1, <2>2 DEF PoolProofs!End
<1> QED
  BY <1>2, <1>3, <1>4, <1>5, SameRegions

-----------------------------------------------------------------------------
(***************************************************************************)
(* alloc_rec, unfolded once.                                               *)
(***************************************************************************)

(* The allocation is the pool's, whether a node or its region is meant.    *)
LEMMA NodeAsRegion ==
  ASSUME NEW t, IsNode(t)
  PROVE  /\ RegionOf(t) \in Pool!Region /\ RegionOf(t).base = t.base /\ RegionOf(t).size = t.size
         /\ \A q : /\ Pool!Fits(t, q) <=> Pool!Fits(RegionOf(t), q)
                   /\ Pool!Cut(t, q) = Pool!Cut(RegionOf(t), q)
                   /\ Pool!Rest(t, q) = Pool!Rest(RegionOf(t), q)
<1>1. t.base \in Nat /\ t.size \in Nat
  BY NodeParts DEF IsNode
<1>2. RegionOf(t) \in Pool!Region /\ RegionOf(t).base = t.base /\ RegionOf(t).size = t.size
  BY <1>1 DEF RegionOf, Pool!Region
<1> QED
  BY <1>2 DEF Pool!Fits, Pool!Cut, Pool!Rest, Pool!End

Blocks == [base : Nat, size : Nat \ {0}]

Answers == [tree : AnyTree, out : SUBSET Blocks]

(* alloc_rec of a node, given the answers of its subtrees. *)
Pruned(t, q, a) == IF MaxSize(t) >= q.size /\ t # Nil THEN a ELSE Answer(t, {})

AllocAt(n, q, a, b) ==
  LET l  == Pruned(n.left, q, a)
      n1 == UpdateMaxSize([n EXCEPT !.left = l.tree])
      r  == Pruned(n.right, q, b)
  IN IF l.out # {} THEN Answer(n1, l.out)
     ELSE IF Pool!Fits(n1, q) THEN AllocHere(n1, q)
     ELSE Answer(UpdateMaxSize([n1 EXCEPT !.right = r.tree]), r.out)

(* A subtree that is not searched is an answer too. *)
LEMMA PrunedType ==
  ASSUME NEW t \in AnyTree, NEW q, NEW a \in Answers
  PROVE  Pruned(t, q, a) \in Answers
BY DEF Pruned, Answers, Answer

(* alloc_rec on the way back from the left, part by part                   *)
(* (tree_alloc.rs:466-478).                                                *)
LEMMA WithLeft ==
  ASSUME NEW n, IsNode(n), NEW l \in AnyTree
  PROVE  LET u == UpdateMaxSize([n EXCEPT !.left = l]) IN
         /\ IsNode(u) /\ SameNode(u, n) /\ u.red = n.red /\ u.left = l /\ u.right = n.right
         /\ u.max_size = Largest(u)
<1> DEFINE e == [n EXCEPT !.left = l]
<1>1. IsNode(e) /\ SameNode(e, n) /\ e.red = n.red /\ e.left = l /\ e.right = n.right
  BY ReplacedParts
<1> HIDE DEF e
<1>2. LET u == UpdateMaxSize(e) IN
      /\ IsNode(u) /\ SameNode(u, n) /\ u.red = n.red /\ u.left = l /\ u.right = n.right
      /\ u.max_size = Largest(u)
  BY <1>1, UpdateParts DEF SameNode
<1> QED
  BY <1>2 DEF e

(* alloc_rec on the way back from the right, part by part                  *)
(* (tree_alloc.rs:510-525).                                                *)
LEMMA WithRight ==
  ASSUME NEW n, IsNode(n), NEW r \in AnyTree
  PROVE  LET u == UpdateMaxSize([n EXCEPT !.right = r]) IN
         /\ IsNode(u) /\ SameNode(u, n) /\ u.red = n.red /\ u.right = r /\ u.left = n.left
         /\ u.max_size = Largest(u)
<1> DEFINE e == [n EXCEPT !.right = r]
<1>1. IsNode(e) /\ SameNode(e, n) /\ e.red = n.red /\ e.right = r /\ e.left = n.left
  BY ReplacedParts
<1> HIDE DEF e
<1>2. LET u == UpdateMaxSize(e) IN
      /\ IsNode(u) /\ SameNode(u, n) /\ u.red = n.red /\ u.right = r /\ u.left = n.left
      /\ u.max_size = Largest(u)
  BY <1>1, UpdateParts DEF SameNode
<1> QED
  BY <1>2 DEF e

(* alloc_rec at the node it cuts, part by part (tree_alloc.rs:497-503). *)
LEMMA WithRest ==
  ASSUME NEW n, IsNode(n), NEW q \in Pool!Request, Pool!Fits(n, q)
  PROVE  LET u    == AllocHere(n, q).tree
             rest == Pool!Rest(RegionOf(n), q)
         IN
         /\ IsNode(u) /\ RegionOf(u) = rest /\ u.base = rest.base
         /\ u.red = n.red /\ u.left = n.left /\ u.right = n.right
         /\ u.max_size = Largest(u)
         /\ n.base < rest.base /\ rest.base + rest.size = n.base + n.size
         /\ rest \in Pool!Region /\ q.size <= n.size
         /\ AllocHere(n, q).out = {Pool!Cut(RegionOf(n), q)} /\ Pool!Cut(RegionOf(n), q) \in Blocks
<1> DEFINE rest == Pool!Rest(RegionOf(n), q)
           e == [n EXCEPT !.base = rest.base, !.size = rest.size]
<1>1. /\ rest \in Pool!Region /\ n.base < rest.base /\ rest.base + rest.size = n.base + n.size
      /\ q.size <= n.size /\ Pool!Cut(RegionOf(n), q) \in Blocks
  BY NodeAsRegion, CutFrom DEF Blocks
<1>2. AllocHere(n, q).tree = UpdateMaxSize(e) /\ AllocHere(n, q).out = {Pool!Cut(RegionOf(n), q)}
  BY NodeAsRegion DEF AllocHere, Answer
<1>3. rest = [base |-> rest.base, size |-> rest.size] /\ rest.base \in Nat /\ rest.size \in Nat
  BY <1>1 DEF Pool!Region
<1> HIDE DEF rest
<1>4. IsNode(e) /\ e.base = rest.base /\ e.size = rest.size /\ e.red = n.red /\ e.left = n.left /\ e.right = n.right
  <2>1. n \in AnyNode
    BY NodeOrNot
  <2>2. e \in AnyNode /\ e.base = rest.base /\ e.size = rest.size /\ e.red = n.red /\ e.left = n.left /\ e.right = n.right
    BY <1>3, <2>1 DEF AnyNode, Nodes
  <2> QED
    BY <2>2, NodeOrNot
<1> HIDE DEF e
<1>5. LET u == UpdateMaxSize(e) IN
      /\ IsNode(u) /\ RegionOf(u) = rest /\ u.base = rest.base
      /\ u.red = n.red /\ u.left = n.left /\ u.right = n.right
      /\ u.max_size = Largest(u)
  BY <1>3, <1>4, UpdateParts DEF SameNode, RegionOf
<1> QED
  BY <1>1, <1>2, <1>5 DEF rest

(* alloc_rec returns a tree and at most one block. *)
LEMMA AllocAtType ==
  ASSUME NEW n, IsNode(n), NEW q \in Pool!Request, NEW a \in Answers, NEW b \in Answers
  PROVE  AllocAt(n, q, a, b) \in Answers
<1> DEFINE l  == Pruned(n.left, q, a)
           n1 == UpdateMaxSize([n EXCEPT !.left = l.tree])
           r  == Pruned(n.right, q, b)
<1>1. n.left \in AnyTree /\ n.right \in AnyTree
  BY NodeParts DEF IsNode
<1>2. l \in Answers /\ r \in Answers
  BY <1>1, PrunedType
<1> HIDE DEF l, r
<1>3. l.tree \in AnyTree /\ r.tree \in AnyTree /\ l.out \in SUBSET Blocks /\ r.out \in SUBSET Blocks
  BY <1>2 DEF Answers
<1>4. IsNode(n1)
  BY <1>3, WithLeft
<1> HIDE DEF n1
<1>5. Answer(n1, l.out) \in Answers
  BY <1>3, <1>4 DEF Answer, Answers, IsNode
<1>6. Pool!Fits(n1, q) => AllocHere(n1, q) \in Answers
  <2> SUFFICES ASSUME Pool!Fits(n1, q) PROVE AllocHere(n1, q) \in Answers
    OBVIOUS
  <2>1. IsNode(AllocHere(n1, q).tree) /\ AllocHere(n1, q).out \in SUBSET Blocks
    BY <1>4, WithRest
  <2> QED
    BY <2>1 DEF AllocHere, Answer, Answers, IsNode
<1>7. Answer(UpdateMaxSize([n1 EXCEPT !.right = r.tree]), r.out) \in Answers
  BY <1>3, <1>4, WithRight DEF Answer, Answers, IsNode
<1> QED
  BY <1>5, <1>6, <1>7 DEF AllocAt, l, r, n1

(* One call of alloc_rec in terms of the calls below it                    *)
(* (tree_alloc.rs:449-526).                                                *)
LEMMA AllocateUnfolded ==
  ASSUME NEW q \in Pool!Request, NEW t \in Tree
  PROVE  /\ Allocate(t, q) =
              IF t = Nil THEN Answer(Nil, {})
              ELSE AllocAt(t, q, Allocate(t.left, q), Allocate(t.right, q))
         /\ Allocate(t, q) \in Answers
<1> DEFINE V == Answers
           v == Answer(Nil, {})
           E == [p \in Tree \X V \X V |-> IF p[1] = Nil THEN v ELSE AllocAt(p[1], q, p[2], p[3])]
           Step(f) == [n \in Tree |-> IF n = Nil THEN Answer(Nil, {}) ELSE AllocRec(n, q, f)]
           F == CHOOSE f : f = Step(f)
<1>1. \A h \in Tree : h # Nil => IsNode(h) /\ h.left \in Tree /\ h.right \in Tree
  BY TreeIs DEF Closed, IsNode
<1>2. \A h \in Tree, a \in V, b \in V : h # Nil => AllocAt(h, q, a, b) \in V
  BY <1>1, AllocAtType
<1>3. v \in V
  BY AnyTreeIs DEF Answer, Answers
<1>4. E \in [Tree \X V \X V -> V]
  <2> HIDE DEF V, v
  <2> QED
    BY <1>2, <1>3
<1>5. \A h \in Tree, a \in V, b \in V : h # Nil => E[<<h, a, b>>] = AllocAt(h, q, a, b)
  <2> HIDE DEF V, v
  <2> QED
    OBVIOUS
<1>6. Closed(Tree)
  BY TreeIs
<1> HIDE DEF E, V, v
<1>7. FoldExists(Tree, V, v, E)
  BY <1>3, <1>4, <1>6, StructuralRecursion
<1>8. PICK f \in [Tree -> V] : Folds(f, Tree, v, E)
  BY <1>7 DEF FoldExists
<1>9. ASSUME NEW ff, NEW h \in Tree, h # Nil,
             h.left # Nil => ff[h.left] \in Answers
      PROVE  AllocRec(h, q, ff) = AllocAt(h, q, ff[h.left], ff[h.right])
  <2>1. \A u : AllocIn(u, q, ff) = Pruned(u, q, ff[u])
    BY DEF AllocIn, Pruned
  <2> DEFINE l  == AllocIn(h.left, q, ff)
             n1 == UpdateMaxSize([h EXCEPT !.left = l.tree])
  <2>2. l.tree \in AnyTree
    BY <1>1, <1>9, TreeIs DEF AllocIn, Answer, Answers
  <2> HIDE DEF l
  <2>3. n1.right = h.right
    BY <1>1, <1>9, <2>2, WithLeft
  <2> HIDE DEF n1
  <2>4. AllocIn(n1.right, q, ff) = Pruned(h.right, q, ff[h.right])
    BY <2>1, <2>3
  <2>5. l = Pruned(h.left, q, ff[h.left])
    BY <2>1 DEF l
  <2> DEFINE R(r) == IF l.out # {} THEN Answer(n1, l.out)
                     ELSE IF Pool!Fits(n1, q) THEN AllocHere(n1, q)
                     ELSE Answer(UpdateMaxSize([n1 EXCEPT !.right = r.tree]), r.out)
  <2>6. AllocRec(h, q, ff) = R(AllocIn(n1.right, q, ff))
    BY Zenon DEF AllocRec, l, n1
  <2>7. AllocAt(h, q, ff[h.left], ff[h.right]) = R(Pruned(h.right, q, ff[h.right]))
    BY <2>5, Zenon DEF AllocAt, n1
  <2> HIDE DEF R
  <2> QED
    BY <2>4, <2>6, <2>7
<1>10. f = Step(f)
  <2> SUFFICES ASSUME NEW h \in Tree
               PROVE  f[h] = IF h = Nil THEN Answer(Nil, {}) ELSE AllocRec(h, q, f)
    BY Zenon
  <2>1. CASE h = Nil
    BY <1>8, <2>1 DEF Folds, v
  <2>2. CASE h # Nil
    <3>1. h.left \in Tree /\ h.right \in Tree
      BY <1>1, <2>2
    <3>2. f[h] = E[<<h, f[h.left], f[h.right]>>]
      BY <1>8, <2>2 DEF Folds
    <3>3. f[h.left] \in V /\ f[h.right] \in V
      BY <3>1
    <3>4. f[h] = AllocAt(h, q, f[h.left], f[h.right])
      BY <1>5, <2>2, <3>1, <3>2, <3>3
    <3>5. AllocRec(h, q, f) = AllocAt(h, q, f[h.left], f[h.right])
      BY <1>9, <2>2, <3>3 DEF V
    <3> QED
      BY <2>2, <3>4, <3>5
  <2> QED
    BY <2>1, <2>2
<1>11. F = Step(F)
  <2> HIDE DEF Step
  <2> QED
    BY <1>10
<1>12. \A h : Allocate(h, q) = F[h]
  BY Zenon DEF Allocate
<1> HIDE DEF F
<1>13. \A h \in Tree : F[h] = IF h = Nil THEN Answer(Nil, {}) ELSE AllocRec(h, q, F)
  BY <1>11, Zenon
<1> DEFINE P == {u \in AnyTree : u \in Tree => F[u] \in Answers}
<1>14. Nil \in P
  <2>1. Nil \in AnyTree /\ Nil \in Tree
    BY TreeIs
  <2>2. F[Nil] = v
    BY <1>13, <2>1 DEF v
  <2> QED
    BY <1>3, <2>1, <2>2 DEF V
<1>15. ASSUME NEW u \in AnyNode, u.left \in P, u.right \in P
       PROVE  u \in P
  <2>1. u \in AnyTree /\ u # Nil
    BY NodeOrNot DEF IsNode
  <2> SUFFICES ASSUME u \in Tree PROVE F[u] \in Answers
    BY <2>1
  <2>2. IsNode(u) /\ F[u.left] \in Answers /\ F[u.right] \in Answers
    BY <1>1, <1>15, <2>1
  <2>3. F[u] = AllocAt(u, q, F[u.left], F[u.right])
    BY <1>9, <1>13, <2>1, <2>2
  <2> QED
    BY <2>2, <2>3, AllocAtType
<1>16. \A u \in Tree : F[u] \in Answers
  <2>1. AnyTree \subseteq P
    <3> HIDE DEF P
    <3> QED
      BY <1>14, <1>15, TreeInduction
  <2> QED
    BY <2>1, TreeIs
<1>17. CASE t = Nil
  BY <1>12, <1>13, <1>16, <1>17
<1>18. CASE t # Nil
  <2>1. F[t.left] \in Answers
    BY <1>1, <1>16, <1>18
  <2>2. F[t] = AllocAt(t, q, F[t.left], F[t.right])
    BY <1>9, <1>13, <1>18, <2>1
  <2> QED
    BY <1>12, <1>16, <1>18, <2>2
<1> QED
  BY <1>17, <1>18

-----------------------------------------------------------------------------
(***************************************************************************)
(* alloc_rec takes the lowest region that fits.                            *)
(***************************************************************************)

(* Allocation changes neither colours nor heights.                         *)
Alike(t, u) ==
  /\ t = Nil => u = Nil
  /\ \A c \in BOOLEAN, n \in Nat : /\ TwoNode(t, c, n) => TwoNode(u, c, n)
                                   /\ ThreeNode(t, c, n) => ThreeNode(u, c, n)

(* Alike subtrees are both red or both black, at the same height. *)
LEMMA AlikeBelow ==
  ASSUME NEW t, NEW u \in AnyTree, Alike(t, u), NEW n \in Nat
  PROVE  (Black(t, n) => Black(u, n)) /\ (Red(t, n) => Red(u, n))
<1>1. ASSUME Black(t, n)
      PROVE  Black(u, n)
  <2>1. CASE t = Nil
    BY <1>1, <2>1 DEF Alike
  <2>2. CASE t # Nil
    <3>1. n # 0 /\ n - 1 \in Nat /\ Proper(t, FALSE, n - 1)
      BY <1>1, <2>2, BlackNode
    <3>2. Proper(u, FALSE, n - 1)
      BY <3>1 DEF Alike, Proper
    <3> QED
      BY <3>1, <3>2, BlackIs
  <2> QED
    BY <2>1, <2>2
<1>2. ASSUME Red(t, n)
      PROVE  Red(u, n)
  <2>1. TwoNode(t, TRUE, n)
    BY <1>2, RedIs DEF Red
  <2>2. TwoNode(u, TRUE, n)
    BY <2>1 DEF Alike
  <2> QED
    BY <2>2, RedIs
<1> QED
  BY <1>1, <1>2

(* Nodes of one colour with alike children are alike. *)
LEMMA AlikeNode ==
  ASSUME NEW t, IsNode(t), NEW u, IsNode(u), t.red = u.red,
         Alike(t.left, u.left), Alike(t.right, u.right)
  PROVE  Alike(t, u)
<1>1. u.left \in AnyTree /\ u.right \in AnyTree
  BY NodeParts DEF IsNode
<1>2. \A n \in Nat : /\ (Black(t.left, n) => Black(u.left, n)) /\ (Red(t.left, n) => Red(u.left, n))
                     /\ Black(t.right, n) => Black(u.right, n)
  BY <1>1, AlikeBelow
<1> QED
  BY <1>2 DEF Alike, TwoNode, ThreeNode, IsNode

(* A tree is like itself. *)
LEMMA AlikeItself == ASSUME NEW t PROVE Alike(t, t)
BY DEF Alike

-----------------------------------------------------------------------------
(* No region of the tree is larger than its max_size. *)
LEMMA LargestBound ==
  ASSUME NEW t \in AnyTree, Exact(t), NEW r \in Regs(t)
  PROVE  r.size <= MaxSize(t)
<1> DEFINE P == {u \in AnyTree : Exact(u) => \A x \in Regs(u) : x.size <= MaxSize(u)}
<1>1. Nil \in P
  BY NilIs
<1>2. ASSUME NEW u \in AnyNode, u.left \in P, u.right \in P
      PROVE  u \in P
  <2>1. u # Nil /\ u \in AnyTree /\ u.left \in AnyTree /\ u.right \in AnyTree /\ u.size \in Nat
    BY NodeOrNot, NodeParts DEF IsNode
  <2> SUFFICES ASSUME Exact(u), NEW x \in Regs(u) PROVE x.size <= MaxSize(u)
    BY <2>1
  <2>2. Regs(u) = {RegionOf(u)} \cup Regs(u.left) \cup Regs(u.right) /\ RegionOf(u).size = u.size
    BY <2>1, NodeIs DEF RegionOf
  <2>3. Exact(u.left) /\ Exact(u.right) /\ u.max_size = Largest(u)
    BY <2>1, NodeIs
  <2>4. MaxSize(u.left) \in Nat /\ MaxSize(u.right) \in Nat /\ x.size \in Nat
    BY <2>1, TypesOf
  <2>5. x.size <= u.size \/ x.size <= MaxSize(u.left) \/ x.size <= MaxSize(u.right)
    BY <1>2, <2>1, <2>2, <2>3, <2>4
  <2>6. MaxSize(u) = Max2(u.size, Max2(MaxSize(u.left), MaxSize(u.right)))
    BY <2>1, <2>3 DEF MaxSize, Largest
  <2> QED
    BY <2>1, <2>4, <2>5, <2>6 DEF Max2
<1>3. AnyTree \subseteq P
  <2> HIDE DEF P
  <2> QED
    BY <1>1, <1>2, TreeInduction
<1> QED
  BY <1>3

Spaced(t) == \A r, s \in Regs(t) : r.base < s.base => r.base + r.size < s.base

(* The answer is the lowest region that fits, cut in its place. *)
Takes(t, q, a, r) ==
  /\ a.tree \in AnyTree /\ Pool!Fits(r, q)
  /\ \A s \in Regs(t) : Pool!Fits(s, q) => r.base <= s.base
  /\ a.out = {Pool!Cut(r, q)}
  /\ Regs(a.tree) = (Regs(t) \ {r}) \cup {Pool!Rest(r, q)}
  /\ Count[a.tree] = Count[t] /\ InOrder(a.tree) /\ Exact(a.tree) /\ Alike(t, a.tree)

Allocated(t, q, a) ==
  \/ a = Answer(t, {}) /\ \A s \in Regs(t) : ~Pool!Fits(s, q)
  \/ \E r \in Regs(t) : Takes(t, q, a, r)

(* What the nodes of a tree stand for are regions of the pool. *)
LEMMA RegsType ==
  ASSUME NEW t \in AnyTree
  PROVE  Regs(t) \subseteq Pool!Region
BY NodesOfIs DEF Regs, RegionOf, Pool!Region, AnyNode, Nodes

(* The test of max_size skips no region that fits (tree_alloc.rs:466-478). *)
LEMMA PrunedIs ==
  ASSUME NEW t \in AnyTree, Exact(t), NEW q \in Pool!Request, NEW a, Allocated(t, q, a)
  PROVE  Allocated(t, q, Pruned(t, q, a))
<1>1. CASE MaxSize(t) >= q.size /\ t # Nil
  BY <1>1 DEF Pruned
<1>2. CASE ~(MaxSize(t) >= q.size /\ t # Nil)
  <2>1. Pruned(t, q, a) = Answer(t, {})
    BY <1>2 DEF Pruned
  <2>2. ASSUME NEW s \in Regs(t), Pool!Fits(s, q)
        PROVE  FALSE
    <3>1. s \in Pool!Region /\ t # Nil
      BY RegsType, NilIs
    <3>2. q.size <= s.size /\ s.size <= MaxSize(t)
      BY <2>2, <3>1, CutFrom, LargestBound
    <3>3. q.size \in Nat /\ s.size \in Nat /\ MaxSize(t) \in Nat
      BY <3>1, TypesOf DEF Pool!Request, Pool!Region
    <3> QED
      BY <1>2, <3>1, <3>2, <3>3
  <2> QED
    BY <2>1, <2>2 DEF Allocated
<1> QED
  BY <1>1, <1>2

(* A node is its parts. *)
LEMMA SameRecord ==
  ASSUME NEW t, IsNode(t), NEW u, IsNode(u), SameNode(t, u), t.red = u.red,
         t.max_size = u.max_size, t.left = u.left, t.right = u.right
  PROVE  t = u
BY NodeOrNot DEF AnyNode, Nodes, SameNode

(* The node after the call for its left subtree. *)
LEMMA AllocGoesLeft ==
  ASSUME NEW t, IsNode(t), InOrder(t), Exact(t), Spaced(t), NEW q \in Pool!Request,
         NEW l, NEW r \in Regs(t.left), Takes(t.left, q, l, r)
  PROVE  Takes(t, q, Answer(UpdateMaxSize([t EXCEPT !.left = l.tree]), l.out), r)
<1> DEFINE u == UpdateMaxSize([t EXCEPT !.left = l.tree])
           rest == Pool!Rest(r, q)
<1>1. /\ l.tree \in AnyTree /\ Pool!Fits(r, q)
      /\ \A s \in Regs(t.left) : Pool!Fits(s, q) => r.base <= s.base
      /\ l.out = {Pool!Cut(r, q)}
      /\ Regs(l.tree) = (Regs(t.left) \ {r}) \cup {rest}
      /\ Count[l.tree] = Count[t.left] /\ InOrder(l.tree) /\ Exact(l.tree) /\ Alike(t.left, l.tree)
  BY DEF Takes
<1>2. /\ IsNode(u) /\ SameNode(u, t) /\ u.red = t.red /\ u.left = l.tree /\ u.right = t.right
      /\ u.max_size = Largest(u)
  BY <1>1, WithLeft
<1>3. t.left \in AnyTree /\ t.right \in AnyTree /\ t.base \in Nat
  BY NodeParts DEF IsNode
<1> HIDE DEF u
<1>4. /\ Regs(t) = {RegionOf(t)} \cup Regs(t.left) \cup Regs(t.right)
      /\ Regs(u) = {RegionOf(u)} \cup Regs(u.left) \cup Regs(u.right)
  BY <1>2, NodeIs DEF IsNode
<1>5. RegionOf(u) = RegionOf(t) /\ RegionOf(t).base = t.base /\ u.base = t.base
  BY <1>2 DEF RegionOf, SameNode
<1>6. /\ InOrder(t.right) /\ \A s \in Regs(t.left) : s.base < t.base
      /\ \A s \in Regs(t.right) : t.base < s.base
      /\ Exact(t.right)
  BY NodeIs DEF IsNode
<1>7. r \in Pool!Region
  BY <1>3, RegsType
<1>8. /\ rest \in Pool!Region /\ r.base < rest.base /\ rest.base + rest.size = r.base + r.size
  BY <1>1, <1>7, CutFrom
<1>9. /\ rest.base \in Nat /\ rest.size \in Nat /\ r.base \in Nat /\ r.size \in Nat
  BY <1>7, <1>8 DEF Pool!Region
<1> HIDE DEF rest
<1>10. rest.base < t.base
  <2>1. r.base + r.size < t.base
    BY <1>4, <1>5, <1>6 DEF Spaced
  <2> QED
    BY <1>3, <1>8, <1>9, <2>1
<1>11. \A s \in Regs(t.right) : s.base \in Nat /\ r.base < s.base
  BY <1>3, <1>6, <1>9, TypesOf
<1>12. r.base < t.base
  BY <1>6
<1>13. Regs(u) = (Regs(t) \ {r}) \cup {rest}
  <2>1. r \notin Regs(t.right) /\ r # RegionOf(t)
    BY <1>5, <1>9, <1>11, <1>12
  <2> QED
    BY <1>1, <1>2, <1>4, <1>5, <2>1
<1>14. \A s \in Regs(t) : Pool!Fits(s, q) => r.base <= s.base
  BY <1>1, <1>3, <1>4, <1>5, <1>9, <1>11, <1>12
<1>15. InOrder(u)
  <2>1. \A s \in Regs(l.tree) : s.base < t.base
    BY <1>1, <1>6, <1>10
  <2> QED
    BY <1>1, <1>2, <1>5, <1>6, <2>1, NodeIs DEF IsNode
<1>16. Exact(u)
  BY <1>1, <1>2, <1>6, NodeIs DEF IsNode
<1>17. Count[u] = Count[t]
  <2>1. Count[u] = Count[u.left] + 1 + Count[u.right] /\ Count[t] = Count[t.left] + 1 + Count[t.right]
    BY <1>2, NodeIs DEF IsNode
  <2> QED
    BY <1>1, <1>2, <2>1
<1>18. Alike(t, u)
  BY <1>1, <1>2, AlikeNode, AlikeItself
<1> HIDE DEF Alike
<1>19. Answer(u, l.out).tree = u /\ Answer(u, l.out).out = l.out
  BY DEF Answer
<1>20. Takes(t, q, Answer(u, l.out), r)
  BY <1>1, <1>2, <1>13, <1>14, <1>15, <1>16, <1>17, <1>18, <1>19 DEF Takes, IsNode, rest
<1> QED
  BY <1>20 DEF u

(* The node after the call for its right subtree (tree_alloc.rs:510-525). *)
LEMMA AllocGoesRight ==
  ASSUME NEW t, IsNode(t), InOrder(t), Exact(t), Spaced(t), NEW q \in Pool!Request,
         ~Pool!Fits(t, q), \A s \in Regs(t.left) : ~Pool!Fits(s, q),
         NEW l, NEW r \in Regs(t.right), Takes(t.right, q, l, r)
  PROVE  Takes(t, q, Answer(UpdateMaxSize([t EXCEPT !.right = l.tree]), l.out), r)
<1> DEFINE u == UpdateMaxSize([t EXCEPT !.right = l.tree])
           rest == Pool!Rest(r, q)
<1>1. /\ l.tree \in AnyTree /\ Pool!Fits(r, q)
      /\ \A s \in Regs(t.right) : Pool!Fits(s, q) => r.base <= s.base
      /\ l.out = {Pool!Cut(r, q)}
      /\ Regs(l.tree) = (Regs(t.right) \ {r}) \cup {rest}
      /\ Count[l.tree] = Count[t.right] /\ InOrder(l.tree) /\ Exact(l.tree) /\ Alike(t.right, l.tree)
  BY DEF Takes
<1>2. /\ IsNode(u) /\ SameNode(u, t) /\ u.red = t.red /\ u.right = l.tree /\ u.left = t.left
      /\ u.max_size = Largest(u)
  BY <1>1, WithRight
<1>3. t.left \in AnyTree /\ t.right \in AnyTree /\ t.base \in Nat
  BY NodeParts DEF IsNode
<1> HIDE DEF u
<1>4. /\ Regs(t) = {RegionOf(t)} \cup Regs(t.left) \cup Regs(t.right)
      /\ Regs(u) = {RegionOf(u)} \cup Regs(u.left) \cup Regs(u.right)
  BY <1>2, NodeIs DEF IsNode
<1>5. RegionOf(u) = RegionOf(t) /\ RegionOf(t).base = t.base /\ u.base = t.base
  BY <1>2 DEF RegionOf, SameNode
<1>6. /\ InOrder(t.left) /\ \A s \in Regs(t.left) : s.base < t.base
      /\ \A s \in Regs(t.right) : t.base < s.base
      /\ Exact(t.left)
  BY NodeIs DEF IsNode
<1>7. r \in Pool!Region
  BY <1>3, RegsType
<1>8. /\ rest \in Pool!Region /\ r.base < rest.base
  BY <1>1, <1>7, CutFrom
<1>9. /\ rest.base \in Nat /\ r.base \in Nat
  BY <1>7, <1>8 DEF Pool!Region
<1> HIDE DEF rest
<1>10. t.base < r.base /\ t.base < rest.base
  BY <1>3, <1>6, <1>8, <1>9
<1>11. \A s \in Regs(t.left) : s.base \in Nat /\ s.base < r.base
  BY <1>3, <1>6, <1>9, <1>10, TypesOf
<1>13. Regs(u) = (Regs(t) \ {r}) \cup {rest}
  <2>1. r \notin Regs(t.left) /\ r # RegionOf(t)
    BY <1>5, <1>9, <1>10, <1>11
  <2> QED
    BY <1>1, <1>2, <1>4, <1>5, <2>1
<1>14. \A s \in Regs(t) : Pool!Fits(s, q) => r.base <= s.base
  <2>1. ~Pool!Fits(RegionOf(t), q)
    BY NodeAsRegion
  <2> QED
    BY <1>1, <1>4, <2>1
<1>15. InOrder(u)
  <2>1. \A s \in Regs(l.tree) : t.base < s.base
    BY <1>1, <1>6, <1>10
  <2> QED
    BY <1>1, <1>2, <1>5, <1>6, <2>1, NodeIs DEF IsNode
<1>16. Exact(u)
  BY <1>1, <1>2, <1>6, NodeIs DEF IsNode
<1>17. Count[u] = Count[t]
  <2>1. Count[u] = Count[u.left] + 1 + Count[u.right] /\ Count[t] = Count[t.left] + 1 + Count[t.right]
    BY <1>2, NodeIs DEF IsNode
  <2> QED
    BY <1>1, <1>2, <2>1
<1>18. Alike(t, u)
  BY <1>1, <1>2, AlikeNode, AlikeItself
<1>19. Answer(u, l.out).tree = u /\ Answer(u, l.out).out = l.out
  BY DEF Answer
<1>20. Takes(t, q, Answer(u, l.out), r)
  BY <1>1, <1>2, <1>13, <1>14, <1>15, <1>16, <1>17, <1>18, <1>19 DEF Takes, IsNode, rest
<1> QED
  BY <1>20 DEF u

(* The node that is cut itself stays between its neighbours                *)
(* (tree_alloc.rs:497-503).                                                *)
LEMMA AllocHereIs ==
  ASSUME NEW t, IsNode(t), InOrder(t), Exact(t), Spaced(t), NEW q \in Pool!Request,
         Pool!Fits(t, q), \A s \in Regs(t.left) : ~Pool!Fits(s, q)
  PROVE  Takes(t, q, AllocHere(t, q), RegionOf(t)) /\ RegionOf(t) \in Regs(t)
<1> DEFINE a == AllocHere(t, q)
           u == a.tree
           rest == Pool!Rest(RegionOf(t), q)
<1>1. /\ IsNode(u) /\ RegionOf(u) = rest /\ u.base = rest.base
      /\ u.red = t.red /\ u.left = t.left /\ u.right = t.right
      /\ u.max_size = Largest(u)
      /\ t.base < rest.base /\ rest.base + rest.size = t.base + t.size
      /\ rest \in Pool!Region /\ a.out = {Pool!Cut(RegionOf(t), q)}
  BY WithRest
<1>2. t.left \in AnyTree /\ t.right \in AnyTree /\ t.base \in Nat /\ t.size \in Nat
  BY NodeParts DEF IsNode
<1>3. rest.base \in Nat /\ rest.size \in Nat
  BY <1>1 DEF Pool!Region
<1>4. RegionOf(t).base = t.base /\ RegionOf(t).size = t.size /\ Pool!Fits(RegionOf(t), q)
  BY NodeAsRegion
<1> HIDE DEF a, u, rest
<1>5. /\ Regs(t) = {RegionOf(t)} \cup Regs(t.left) \cup Regs(t.right)
      /\ Regs(u) = {rest} \cup Regs(t.left) \cup Regs(t.right)
  BY <1>1, NodeIs DEF IsNode
<1>6. /\ InOrder(t.left) /\ InOrder(t.right) /\ \A s \in Regs(t.left) : s.base < t.base
      /\ \A s \in Regs(t.right) : t.base < s.base
      /\ Exact(t.left) /\ Exact(t.right)
  BY NodeIs DEF IsNode
<1>7. \A s \in Regs(t.right) : rest.base < s.base
  <2> SUFFICES ASSUME NEW s \in Regs(t.right) PROVE rest.base < s.base
    OBVIOUS
  <2>1. t.base + t.size < s.base
    BY <1>4, <1>5, <1>6 DEF Spaced
  <2>2. s.base \in Nat
    BY <1>2, TypesOf
  <2> QED
    BY <1>1, <1>2, <1>3, <2>1, <2>2
<1>8. \A s \in Regs(t.left) : s.base < rest.base
  BY <1>1, <1>2, <1>3, <1>6, TypesOf
<1>9. Regs(u) = (Regs(t) \ {RegionOf(t)}) \cup {rest}
  <2>1. RegionOf(t) \notin Regs(t.left) /\ RegionOf(t) \notin Regs(t.right)
    BY <1>2, <1>4, <1>6
  <2> QED
    BY <1>5, <2>1
<1>10. \A s \in Regs(t) : Pool!Fits(s, q) => RegionOf(t).base <= s.base
  BY <1>2, <1>4, <1>5, <1>6, TypesOf
<1>11. InOrder(u) /\ Exact(u)
  BY <1>1, <1>6, <1>7, <1>8, NodeIs DEF IsNode
<1>12. Count[u] = Count[t]
  BY <1>1, NodeIs DEF IsNode
<1>13. Alike(t, u)
  BY <1>1, AlikeNode, AlikeItself
<1>14. Takes(t, q, a, RegionOf(t))
  BY <1>1, <1>4, <1>9, <1>10, <1>11, <1>12, <1>13 DEF Takes, IsNode, u, rest
<1> QED
  BY <1>5, <1>14 DEF a

(* One call of alloc_rec takes the lowest region that fits when the calls  *)
(* below it do (tree_alloc.rs:449-526).                                    *)
LEMMA AllocAtIs ==
  ASSUME NEW t, IsNode(t), InOrder(t), Exact(t), Spaced(t), NEW q \in Pool!Request,
         NEW a, Allocated(t.left, q, a), NEW b, Allocated(t.right, q, b)
  PROVE  Allocated(t, q, AllocAt(t, q, a, b))
<1> DEFINE l == Pruned(t.left, q, a)
           r == Pruned(t.right, q, b)
           n1 == UpdateMaxSize([t EXCEPT !.left = l.tree])
<1>1. t.left \in AnyTree /\ t.right \in AnyTree /\ Exact(t.left) /\ Exact(t.right) /\ t.max_size = Largest(t)
      /\ Regs(t) = {RegionOf(t)} \cup Regs(t.left) \cup Regs(t.right)
  BY NodeParts, NodeIs DEF IsNode
<1>2. Allocated(t.left, q, l) /\ Allocated(t.right, q, r)
  BY <1>1, PrunedIs
<1>3. AllocAt(t, q, a, b) =
        IF l.out # {} THEN Answer(n1, l.out)
        ELSE IF Pool!Fits(n1, q) THEN AllocHere(n1, q)
        ELSE Answer(UpdateMaxSize([n1 EXCEPT !.right = r.tree]), r.out)
  BY Zenon DEF AllocAt
<1> HIDE DEF l, r
<1>4. CASE \E x \in Regs(t.left) : Takes(t.left, q, l, x)
  <2>1. PICK x \in Regs(t.left) : Takes(t.left, q, l, x)
    BY <1>4
  <2>2. AllocAt(t, q, a, b) = Answer(n1, l.out)
    <3>1. l.out # {}
      BY <2>1 DEF Takes
    <3> QED
      BY <1>3, <3>1
  <2>3. Takes(t, q, Answer(n1, l.out), x)
    BY <2>1, AllocGoesLeft
  <2> QED
    BY <1>1, <2>1, <2>2, <2>3 DEF Allocated
<1>5. CASE l = Answer(t.left, {}) /\ \A s \in Regs(t.left) : ~Pool!Fits(s, q)
  <2>1. l.tree = t.left /\ l.out = {}
    BY <1>5 DEF Answer
  <2>2. n1 = t
    <3>1. /\ IsNode(n1) /\ SameNode(n1, t) /\ n1.red = t.red /\ n1.left = t.left /\ n1.right = t.right
          /\ n1.max_size = Largest(n1)
      BY <1>1, <2>1, WithLeft
    <3>2. Largest(n1) = Largest(t)
      BY <3>1 DEF Largest, SameNode
    <3> HIDE DEF n1
    <3> QED
      BY <1>1, <3>1, <3>2, SameRecord
  <2>3. AllocAt(t, q, a, b) = IF Pool!Fits(t, q) THEN AllocHere(t, q)
                              ELSE Answer(UpdateMaxSize([t EXCEPT !.right = r.tree]), r.out)
    BY <1>3, <2>1, <2>2
  <2>4. CASE Pool!Fits(t, q)
    BY <1>5, <2>3, <2>4, AllocHereIs DEF Allocated
  <2>5. CASE ~Pool!Fits(t, q) /\ \E x \in Regs(t.right) : Takes(t.right, q, r, x)
    <3>1. PICK x \in Regs(t.right) : Takes(t.right, q, r, x)
      BY <2>5
    <3>2. Takes(t, q, Answer(UpdateMaxSize([t EXCEPT !.right = r.tree]), r.out), x)
      BY <1>5, <2>5, <3>1, AllocGoesRight
    <3> QED
      BY <1>1, <2>3, <2>5, <3>1, <3>2 DEF Allocated
  <2>6. CASE ~Pool!Fits(t, q) /\ r = Answer(t.right, {}) /\ \A s \in Regs(t.right) : ~Pool!Fits(s, q)
    <3> DEFINE u == UpdateMaxSize([t EXCEPT !.right = r.tree])
    <3>1. r.tree = t.right /\ r.out = {}
      BY <2>6 DEF Answer
    <3>2. u = t
      <4>1. /\ IsNode(u) /\ SameNode(u, t) /\ u.red = t.red /\ u.left = t.left /\ u.right = t.right
            /\ u.max_size = Largest(u)
        BY <1>1, <3>1, WithRight
      <4>2. Largest(u) = Largest(t)
        BY <4>1 DEF Largest, SameNode
      <4> HIDE DEF u
      <4> QED
        BY <1>1, <4>1, <4>2, SameRecord
    <3>3. AllocAt(t, q, a, b) = Answer(t, {})
      BY <2>3, <2>6, <3>1, <3>2
    <3>4. \A s \in Regs(t) : ~Pool!Fits(s, q)
      BY <1>1, <1>5, <2>6, NodeAsRegion
    <3> QED
      BY <3>3, <3>4 DEF Allocated
  <2> QED
    BY <1>2, <2>4, <2>5, <2>6 DEF Allocated
<1> QED
  BY <1>2, <1>4, <1>5 DEF Allocated

(* alloc_rec takes the lowest region that fits, and none only when none    *)
(* fits (tree_alloc.rs:449-526).                                           *)
LEMMA AllocateIs ==
  ASSUME NEW q \in Pool!Request, NEW t \in Tree, InOrder(t), Exact(t), Spaced(t)
  PROVE  Allocated(t, q, Allocate(t, q))
<1> DEFINE P == {u \in AnyTree : u \in Tree /\ InOrder(u) /\ Exact(u) /\ Spaced(u) => Allocated(u, q, Allocate(u, q))}
<1>1. Nil \in P
  BY TreeIs, NilIs, AllocateUnfolded DEF Allocated
<1>2. ASSUME NEW u \in AnyNode, u.left \in P, u.right \in P
      PROVE  u \in P
  <2>1. IsNode(u) /\ u \in AnyTree /\ u # Nil
    BY NodeOrNot DEF IsNode
  <2> SUFFICES ASSUME u \in Tree, InOrder(u), Exact(u), Spaced(u) PROVE Allocated(u, q, Allocate(u, q))
    BY <2>1
  <2>2. u.left \in Tree /\ u.right \in Tree
    BY <2>1, TreeIs DEF Closed
  <2>3. /\ Regs(u) = {RegionOf(u)} \cup Regs(u.left) \cup Regs(u.right)
        /\ InOrder(u.left) /\ InOrder(u.right) /\ Exact(u.left) /\ Exact(u.right)
    BY <2>1, NodeIs
  <2>4. Spaced(u.left) /\ Spaced(u.right)
    BY <2>3 DEF Spaced
  <2>5. Allocated(u.left, q, Allocate(u.left, q)) /\ Allocated(u.right, q, Allocate(u.right, q))
    BY <1>2, <2>2, <2>3, <2>4
  <2>6. Allocate(u, q) = AllocAt(u, q, Allocate(u.left, q), Allocate(u.right, q))
    BY <2>1, AllocateUnfolded
  <2> QED
    BY <2>1, <2>5, <2>6, AllocAtIs
<1>3. AnyTree \subseteq P
  <2> HIDE DEF P
  <2> QED
    BY <1>1, <1>2, TreeInduction
<1> QED
  BY <1>3, TreeIs

-----------------------------------------------------------------------------
(***************************************************************************)
(* insert and delete of whole trees.                                       *)
(***************************************************************************)

(* A tree between two calls, its root above at most k black nodes.         *)
Whole(t, k) == Rooted(t, k) /\ InOrder(t) /\ Exact(t)

(* A change of the root's colour keeps the shape. *)
LEMMA PaintShape ==
  ASSUME NEW t, NEW d \in BOOLEAN, NEW c, NEW n
  PROVE  /\ TwoNode(t, c, n) => TwoNode(Paint(t, d), d, n)
         /\ ThreeNode(t, c, n) => ThreeNode(Paint(t, d), d, n)
<1>1. IsNode(t) => /\ IsNode(Paint(t, d)) /\ Paint(t, d).red = d
                   /\ Paint(t, d).left = t.left /\ Paint(t, d).right = t.right
  BY PaintParts DEF IsNode
<1> QED
  BY <1>1 DEF TwoNode, ThreeNode

(* A balanced tree is a tree. *)
LEMMA InAnyTree == ASSUME NEW t, NEW k, Rooted(t, k) PROVE t \in AnyTree
BY NilIs DEF Rooted, Proper, TwoNode, ThreeNode, IsNode

(* Painting the root black keeps a tree whole (tree_alloc.rs:216-218). *)
LEMMA PaintWhole ==
  ASSUME NEW t, NEW k, Whole(t, k), NEW d \in BOOLEAN
  PROVE  /\ Whole(Paint(t, d), k) /\ Regs(Paint(t, d)) = Regs(t)
         /\ Count[Paint(t, d)] = Count[t]
<1>1. t \in AnyTree
  BY InAnyTree DEF Whole
<1>2. /\ Regs(Paint(t, d)) = Regs(t) /\ Count[Paint(t, d)] = Count[t]
      /\ InOrder(Paint(t, d)) /\ Exact(Paint(t, d))
  BY <1>1, PaintKeeps DEF Whole
<1>3. Rooted(Paint(t, d), k)
  <2>1. CASE t = Nil
    BY <2>1 DEF Rooted, Paint
  <2>2. CASE t # Nil
    <3>1. PICK c \in BOOLEAN, n \in 0 .. k : Proper(t, c, n)
      BY <2>2 DEF Rooted, Whole
    <3>2. Proper(Paint(t, d), d, n)
      BY <3>1, PaintShape DEF Proper
    <3> QED
      BY <3>2 DEF Rooted
  <2> QED
    BY <2>1, <2>2
<1> QED
  BY <1>2, <1>3 DEF Whole

(* A region of the pool, and the node that is made of it                   *)
(* (tree_alloc.rs:37-47).                                                  *)
LEMMA RecordOf ==
  ASSUME NEW r \in Pool!Region
  PROVE  /\ r.base \in Nat /\ r.size \in Nat
         /\ \A s \in Pool!Region : r.base = s.base /\ r.size = s.size => r = s
         /\ Fresh(NewNode(r.base, r.size)) /\ RegionOf(NewNode(r.base, r.size)) = r
<1> DEFINE u == NewNode(r.base, r.size)
<1>1. r.base \in Nat /\ r.size \in Nat /\ r = [base |-> r.base, size |-> r.size]
  BY DEF Pool!Region
<1>2. u \in AnyNode
  BY <1>1, NilIs DEF NewNode, AnyNode, Nodes
<1>3. IsNode(u)
  BY <1>2, NodeOrNot
<1>4. Fresh(u) /\ RegionOf(u) = r
  BY <1>1, <1>3 DEF Fresh, NewNode, RegionOf
<1> QED
  BY <1>1, <1>4 DEF Pool!Region

(* insert. *)
LEMMA InsertIs ==
  ASSUME NEW t, NEW k \in Int, k >= -1, k <= MaxHeight, Whole(t, k),
         NEW r \in Pool!Region, r.size > 0, \A s \in Regs(t) : s.base # r.base
  PROVE  /\ Whole(Insert(t, r), k + 1) /\ Regs(Insert(t, r)) = Regs(t) \cup {r}
         /\ Count[Insert(t, r)] = Count[t] + 1
<1> DEFINE node == NewNode(r.base, r.size)
           u == InsertNode(t, node)
<1>1. Fresh(node) /\ RegionOf(node) = r
  BY RecordOf
<1>2. t \in Tree /\ t \in AnyTree
  <2>1. k <= MaxHeight + 1 /\ MaxHeight + 1 \in Int
    BY MaxHeightAssumption
  <2>2. Rooted(t, MaxHeight + 1)
    BY <2>1, RootedGrows DEF Whole
  <2> QED
    BY <2>2, RootedInTree, TreeIs
<1>3. NewKey(t, node)
  BY DEF NewKey, NewNode
<1> HIDE DEF node
<1>4. InsertedInto(t, node, u) /\ Grows(t, u)
  BY <1>1, <1>2, <1>3, InsertNodeIs DEF Whole
<1>5. Insert(t, r) = Paint(u, FALSE)
  <2>1. r.size # 0
    BY RecordOf
  <2> QED
    BY <2>1 DEF Insert, node
<1> HIDE DEF u
<1>6. Rooted(u, k + 1)
  <2>1. CASE t = Nil
    <3>1. TwoNode(u, TRUE, 0)
      BY <1>4, <2>1 DEF Grows
    <3>2. 0 \in 0 .. (k + 1)
      OBVIOUS
    <3> QED
      BY <3>1, <3>2 DEF Rooted, Proper
  <2>2. CASE t # Nil
    <3>1. PICK c \in BOOLEAN, n \in 0 .. k : Proper(t, c, n)
      BY <2>2 DEF Rooted, Whole
    <3>2. n \in Nat /\ n \in 0 .. (k + 1) /\ n + 1 \in 0 .. (k + 1)
      OBVIOUS
    <3>3. Proper(u, c, n) \/ TwoNode(u, ~c, n + 1)
      BY <1>4, <3>1, <3>2 DEF Grows, Proper
    <3> QED
      BY <3>2, <3>3 DEF Rooted, Proper
  <2> QED
    BY <2>1, <2>2
<1>7. Whole(u, k + 1)
  BY <1>4, <1>6 DEF Whole, InsertedInto
<1> QED
  BY <1>1, <1>4, <1>5, <1>7, PaintWhole DEF InsertedInto

-----------------------------------------------------------------------------
RegionsOf(N) == {RegionOf(n) : n \in N}

(* At most one node, the region of which is in the tree.                   *)
Named(t, N) == N = {} \/ \E p : N = {p} /\ RegionOf(p) \in Regs(t)

KeyDeleted(t, k, N, d) ==
  /\ Whole(d.tree, k) /\ Regs(d.tree) = Regs(t) \ RegionsOf(N)
  /\ d.freed \in Nat /\ Count[d.tree] + d.freed = Count[t]

(* One of the two deletes of free: the key is removed if there is one      *)
(* (tree_alloc.rs:243-246).                                                *)
LEMMA DeleteKeyIs ==
  ASSUME NEW t, NEW k \in Nat, k <= MaxHeight, Whole(t, k), NEW N, Named(t, N)
  PROVE  /\ DeleteKey(t, N) # {}
         /\ \A d \in DeleteKey(t, N) : KeyDeleted(t, k, N, d)
<1>1. t \in Tree /\ t \in AnyTree /\ Count[t] \in Nat
  <2>1. k <= MaxHeight + 1 /\ MaxHeight + 1 \in Int
    BY MaxHeightAssumption
  <2>2. Rooted(t, MaxHeight + 1)
    BY <2>1, RootedGrows DEF Whole
  <2> QED
    BY <2>2, RootedInTree, TreeIs, TypesOf
<1>2. CASE N = {}
  <2>1. DeleteKey(t, N) = {Removed(t, 0)}
    BY <1>2 DEF DeleteKey
  <2>2. KeyDeleted(t, k, N, Removed(t, 0))
    BY <1>1, <1>2 DEF KeyDeleted, Removed, RegionsOf
  <2> QED
    BY <2>1, <2>2
<1>3. ASSUME NEW p, N = {p}, RegionOf(p) \in Regs(t)
      PROVE  /\ DeleteKey(t, N) # {}
             /\ \A d \in DeleteKey(t, N) : KeyDeleted(t, k, N, d)
  <2>1. DeleteKey(t, N) = DeleteFn(p.base)[t]
    <3>1. DeleteKey(t, N) = Delete(t, p.base)
      BY <1>3 DEF DeleteKey
    <3> QED
      BY <3>1, DeleteUnfolded
  <2>2. t # Nil /\ HasKey(t, p.base)
    <3>1. RegionOf(p).base = p.base
      BY DEF RegionOf
    <3> QED
      BY <1>3, <3>1, NilIs DEF HasKey
  <2>3. PICK c \in BOOLEAN, n \in 0 .. k : Proper(t, c, n)
    BY <2>2 DEF Whole, Rooted
  <2>4. Fit(t, p.base)
    BY <2>2, <2>3 DEF Fit, Whole
  <2>5. DeletedFrom(t, p.base)
    BY <1>1, <2>2, <2>4, DeleteIs
  <2>6. ASSUME NEW d \in DeleteKey(t, N)
        PROVE  KeyDeleted(t, k, N, d)
    <3>1. RemovedFrom(t, p.base, d) /\ Shrinks(t, d.tree)
      BY <2>1, <2>5 DEF DeletedFrom
    <3>2. /\ d.tree \in AnyTree /\ d.freed = 1 /\ Count[d.tree] + 1 = Count[t]
          /\ Regs(d.tree) = Without(Regs(t), p.base) /\ InOrder(d.tree) /\ Exact(d.tree)
      BY <3>1 DEF RemovedFrom
    <3>3. Without(Regs(t), p.base) = Regs(t) \ RegionsOf(N)
      <4>1. RegionOf(p).base = p.base /\ RegionsOf(N) = {RegionOf(p)}
        BY <1>3 DEF RegionOf, RegionsOf
      <4>2. \A r \in Regs(t) : r.base = p.base => r = RegionOf(p)
        BY <1>1, <1>3, <4>1, KeysUnique DEF Whole
      <4> QED
        BY <4>1, <4>2 DEF Without
    <3>4. Rooted(d.tree, k)
      <4>1. \/ d.tree = Nil \/ Proper(d.tree, c, n)
            \/ n # 0 /\ Proper(d.tree, ~c, n - 1)
        <5>1. n \in Nat
          OBVIOUS
        <5> QED
          BY <2>3, <3>1, <5>1 DEF Shrinks, Proper
      <4>2. n # 0 => n - 1 \in 0 .. k
        OBVIOUS
      <4>3. (~c) \in BOOLEAN
        OBVIOUS
      <4> QED
        BY <4>1, <4>2, <4>3 DEF Rooted
    <3> QED
      BY <3>2, <3>3, <3>4 DEF KeyDeleted, Whole
  <2> QED
    BY <2>1, <2>5, <2>6 DEF DeletedFrom
<1> QED
  BY <1>2, <1>3 DEF Named

(* The two deletes of free. *)
DeletedTwice(t, M, N) ==
  UNION {{Removed(d.tree, c.freed + d.freed) : d \in DeleteKey(c.tree, N)} : c \in DeleteKey(t, M)}

(* Both deletes: the predecessor's and the successor's regions are gone,   *)
(* and their nodes are given to the freelist (tree_alloc.rs:243-250).      *)
LEMMA DeletedTwiceIs ==
  ASSUME NEW t, NEW k \in Nat, k <= MaxHeight, Whole(t, k), NEW M, NEW N, Named(t, M), Named(t, N),
         RegionsOf(M) \cap RegionsOf(N) = {}
  PROVE  /\ DeletedTwice(t, M, N) # {}
         /\ \A d \in DeletedTwice(t, M, N) : KeyDeleted(t, k, M \cup N, d)
<1>1. DeleteKey(t, M) # {} /\ \A c \in DeleteKey(t, M) : KeyDeleted(t, k, M, c)
  BY DeleteKeyIs
<1>2. ASSUME NEW c \in DeleteKey(t, M)
      PROVE  /\ DeleteKey(c.tree, N) # {}
             /\ \A d \in DeleteKey(c.tree, N) : KeyDeleted(t, k, M \cup N, Removed(d.tree, c.freed + d.freed))
  <2>1. /\ Whole(c.tree, k) /\ Regs(c.tree) = Regs(t) \ RegionsOf(M)
        /\ c.freed \in Nat /\ Count[c.tree] + c.freed = Count[t]
    BY <1>1 DEF KeyDeleted
  <2>2. Named(c.tree, N)
    BY <2>1 DEF Named, RegionsOf
  <2>3. DeleteKey(c.tree, N) # {} /\ \A d \in DeleteKey(c.tree, N) : KeyDeleted(c.tree, k, N, d)
    BY <2>1, <2>2, DeleteKeyIs
  <2>4. ASSUME NEW d \in DeleteKey(c.tree, N)
        PROVE  KeyDeleted(t, k, M \cup N, Removed(d.tree, c.freed + d.freed))
    <3>1. /\ Whole(d.tree, k) /\ Regs(d.tree) = Regs(c.tree) \ RegionsOf(N)
          /\ d.freed \in Nat /\ Count[d.tree] + d.freed = Count[c.tree]
      BY <2>3 DEF KeyDeleted
    <3>2. Regs(d.tree) = Regs(t) \ RegionsOf(M \cup N)
      BY <2>1, <3>1 DEF RegionsOf
    <3>3. Count[d.tree] + (c.freed + d.freed) = Count[t]
      <4>1. d.tree \in AnyTree
        BY <3>1, InAnyTree DEF Whole
      <4>2. Count[d.tree] \in Nat
        BY <4>1, TypesOf
      <4> QED
        BY <2>1, <3>1, <4>2
    <3>4. c.freed + d.freed \in Nat
      BY <2>1, <3>1
    <3>5. Removed(d.tree, c.freed + d.freed).tree = d.tree /\ Removed(d.tree, c.freed + d.freed).freed = c.freed + d.freed
      BY DEF Removed
    <3> QED
      BY <3>1, <3>2, <3>3, <3>4, <3>5 DEF KeyDeleted
  <2> QED
    BY <2>3, <2>4
<1> DEFINE Second(c) == {Removed(d.tree, c.freed + d.freed) : d \in DeleteKey(c.tree, N)}
<1>3. \A c \in DeleteKey(t, M) : Second(c) # {} /\ \A d \in Second(c) : KeyDeleted(t, k, M \cup N, d)
  BY <1>2
<1>4. DeletedTwice(t, M, N) = UNION {Second(c) : c \in DeleteKey(t, M)}
  BY DEF DeletedTwice
<1> HIDE DEF Second
<1> QED
  BY <1>1, <1>3, <1>4

-----------------------------------------------------------------------------
(***************************************************************************)
(* init.                                                                   *)
(***************************************************************************)

(* init: the areas are inserted one after the other.                       *)
InsertedUpTo(n, g) ==
  g = [i \in 0 .. n |-> IF i = 0 THEN Nil ELSE Insert(g[i - 1], AreaList[i])]

(* init can be approximated up to every area. *)
LEMMA InsertedExist == \A n \in Nat : \E g : InsertedUpTo(n, g)
<1> DEFINE T == {n \in Nat : \E g : InsertedUpTo(n, g)}
<1>1. ASSUME NEW n \in Nat, \A k \in Nat : k < n => k \in T
      PROVE  n \in T
  <2>1. CASE n = 0
    <3> DEFINE g == [i \in 0 .. 0 |-> Nil]
    <3>1. InsertedUpTo(0, g)
      BY DEF InsertedUpTo
    <3> QED
      BY <2>1, <3>1
  <2>2. CASE n # 0
    <3>1. n - 1 \in T /\ n - 1 \in Nat
      BY <1>1, <2>2
    <3>2. PICK p : InsertedUpTo(n - 1, p)
      BY <3>1
    <3> DEFINE g == [i \in 0 .. n |-> IF i = n THEN Insert(p[n - 1], AreaList[n]) ELSE p[i]]
    <3>3. \A i \in 0 .. (n - 1) : p[i] = IF i = 0 THEN Nil ELSE Insert(p[i - 1], AreaList[i])
      BY <3>2 DEF InsertedUpTo
    <3>4. \A i \in 0 .. n : g[i] = IF i = 0 THEN Nil ELSE Insert(g[i - 1], AreaList[i])
      <4> SUFFICES ASSUME NEW i \in 0 .. n
                   PROVE  g[i] = IF i = 0 THEN Nil ELSE Insert(g[i - 1], AreaList[i])
        OBVIOUS
      <4>1. CASE i = n
        <5>1. g[n - 1] = p[n - 1] /\ i # 0
          BY <2>2, <4>1
        <5> QED
          BY <4>1, <5>1
      <4>2. CASE i # n
        <5>1. i \in 0 .. (n - 1) /\ g[i] = p[i]
          BY <4>2
        <5>2. i # 0 => g[i - 1] = p[i - 1]
          BY <4>2
        <5> QED
          BY <3>3, <5>1, <5>2
      <4> QED
        BY <4>1, <4>2
    <3>5. InsertedUpTo(n, g)
      <4> HIDE DEF g
      <4>1. g = [i \in 0 .. n |-> g[i]]
        BY DEF g
      <4> QED
        BY <3>4, <4>1 DEF InsertedUpTo
    <3> QED
      BY <3>5
  <2> QED
    BY <2>1, <2>2
<1>2. \A n \in Nat : n \in T
  <2> HIDE DEF T
  <2> QED
    BY <1>1, Inductive
<1> QED
  BY <1>2

(* One round of the loop of init (tree_alloc.rs:577-579). *)
LEMMA InsertedFirstUnfolded ==
  \A i \in 0 .. Len(AreaList) :
    InsertedFirst[i] = IF i = 0 THEN Nil ELSE Insert(InsertedFirst[i - 1], AreaList[i])
<1>1. Len(AreaList) \in Nat
  BY AreaListAssumption
<1>2. PICK g : InsertedUpTo(Len(AreaList), g)
  BY <1>1, InsertedExist
<1> DEFINE Step(f) == [i \in 0 .. Len(AreaList) |-> IF i = 0 THEN Nil ELSE Insert(f[i - 1], AreaList[i])]
<1>3. g = Step(g)
  BY <1>2 DEF InsertedUpTo
<1>4. InsertedFirst = CHOOSE f : f = Step(f)
  BY Zenon DEF InsertedFirst
<1>5. InsertedFirst = Step(InsertedFirst)
  <2> HIDE DEF Step
  <2> QED
    BY <1>3, <1>4
<1> QED
  BY <1>5, Zenon

(* The areas that are inserted. *)
Given(n) == {j \in 1 .. n : AreaList[j].size > 0}

InsertedSoFar(n) ==
  /\ Whole(InsertedFirst[n], n - 1)
  /\ Regs(InsertedFirst[n]) = {AreaList[j] : j \in Given(n)}
  /\ IsFiniteSet(Given(n)) /\ Count[InsertedFirst[n]] = Cardinality(Given(n))

(* After n rounds of init the tree is whole and holds the first n areas,   *)
(* those of size 0 left out (tree_alloc.rs:577-579).                       *)
LEMMA InsertedFirstIs ==
  ASSUME NEW n \in 0 .. Len(AreaList)
  PROVE  InsertedSoFar(n)
<1> DEFINE T == {i \in Nat : i <= Len(AreaList) => InsertedSoFar(i)}
<1>0. Len(AreaList) \in Nat /\ Len(AreaList) <= MaxHeight /\ MaxHeight \in Nat
  BY AreaListAssumption, HeightAssumption, MaxHeightAssumption
<1>1. ASSUME NEW i \in Nat, \A k \in Nat : k < i => k \in T
      PROVE  i \in T
  <2> SUFFICES ASSUME i <= Len(AreaList) PROVE InsertedSoFar(i)
    OBVIOUS
  <2>1. CASE i = 0
    <3>1. InsertedFirst[0] = Nil
      BY <1>0, InsertedFirstUnfolded
    <3>2. Given(0) = {}
      BY DEF Given
    <3>3. Whole(Nil, 0 - 1)
      BY NilIs DEF Whole, Rooted
    <3> QED
      BY <2>1, <3>1, <3>2, <3>3, NilIs, FS_EmptySet DEF InsertedSoFar
  <2>2. CASE i # 0
    <3> DEFINE t == InsertedFirst[i - 1]
               r == AreaList[i]
    <3>1. i - 1 \in Nat /\ i - 1 < i /\ i \in 1 .. Len(AreaList) /\ i \in 0 .. Len(AreaList)
      BY <1>0, <2>2
    <3>2. InsertedSoFar(i - 1)
      <4>1. i - 1 <= Len(AreaList)
        BY <1>0
      <4> QED
        BY <1>1, <3>1, <4>1
    <3>3. InsertedFirst[i] = Insert(t, r)
      BY <2>2, <3>1, InsertedFirstUnfolded
    <3>4. /\ Whole(t, (i - 1) - 1) /\ Regs(t) = {AreaList[j] : j \in Given(i - 1)}
          /\ IsFiniteSet(Given(i - 1)) /\ Count[t] = Cardinality(Given(i - 1))
      BY <3>2 DEF InsertedSoFar
    <3>5. r \in Pool!Region
      BY <3>1, AreaListAssumption, ElementOf
    <3>6. r.size \in Nat
      BY <3>5, RecordOf
    <3>7. \A j \in 1 .. i : j = i \/ j \in 1 .. (i - 1)
      BY <3>1
    <3>8. CASE r.size = 0
      <4>1. Given(i) = Given(i - 1)
        BY <3>1, <3>7, <3>8 DEF Given
      <4>2. InsertedFirst[i] = t
        BY <3>3, <3>8 DEF Insert
      <4>3. Rooted(t, i - 1)
        <5>1. (i - 1) - 1 \in Int /\ i - 1 \in Int /\ (i - 1) - 1 <= i - 1
          OBVIOUS
        <5> QED
          BY <3>4, <5>1, RootedGrows DEF Whole
      <4> HIDE DEF t
      <4> QED
        BY <3>4, <4>1, <4>2, <4>3 DEF Whole, InsertedSoFar
    <3>9. CASE r.size > 0
      <4>1. Given(i) = Given(i - 1) \cup {i} /\ i \notin Given(i - 1)
        BY <3>1, <3>7, <3>9 DEF Given
      <4>2. \A s \in Regs(t) : s.base # r.base
        <5> SUFFICES ASSUME NEW j \in Given(i - 1) PROVE AreaList[j].base # r.base
          BY <3>4
        <5>1. j \in 1 .. Len(AreaList) /\ j # i
          BY <1>0, <3>1 DEF Given
        <5>2. AreaList[j] \in Pool!Region
          BY <5>1, AreaListAssumption, ElementOf
        <5>3. Pool!Before(AreaList[j], r) \/ Pool!Before(r, AreaList[j])
          BY <3>1, <5>1, AreaListAssumption
        <5>4. AreaList[j].base \in Nat /\ AreaList[j].size \in Nat /\ r.base \in Nat
          BY <3>5, <5>2, RecordOf
        <5> QED
          BY <3>6, <5>3, <5>4 DEF Pool!Before, Pool!End
      <4>3. (i - 1) - 1 \in Int /\ (i - 1) - 1 >= -1 /\ (i - 1) - 1 <= MaxHeight /\ ((i - 1) - 1) + 1 = i - 1
        BY <1>0, <3>1
      <4> HIDE DEF t, r
      <4>4. /\ Whole(Insert(t, r), i - 1) /\ Regs(Insert(t, r)) = Regs(t) \cup {r}
            /\ Count[Insert(t, r)] = Count[t] + 1
        <5>1. /\ Whole(Insert(t, r), ((i - 1) - 1) + 1) /\ Regs(Insert(t, r)) = Regs(t) \cup {r}
              /\ Count[Insert(t, r)] = Count[t] + 1
          BY <3>4, <3>5, <3>9, <4>2, <4>3, InsertIs
        <5> QED
          BY <4>3, <5>1
      <4>5. IsFiniteSet(Given(i)) /\ Cardinality(Given(i)) = Cardinality(Given(i - 1)) + 1
        BY <3>4, <4>1, FS_AddElement
      <4>6. Regs(Insert(t, r)) = {AreaList[j] : j \in Given(i)}
        BY <3>4, <4>1, <4>4 DEF r
      <4> QED
        BY <3>3, <3>4, <4>4, <4>5, <4>6 DEF InsertedSoFar
    <3> QED
      BY <3>6, <3>8, <3>9
  <2> QED
    BY <2>1, <2>2
<1>2. \A i \in Nat : i \in T
  <2> HIDE DEF T
  <2> QED
    BY <1>1, Inductive
<1>3. n \in Nat /\ n <= Len(AreaList)
  BY <1>0
<1> QED
  BY <1>2, <1>3

-----------------------------------------------------------------------------
(***************************************************************************)
(* The inductive invariant, and that init and alloc keep it.               *)
(***************************************************************************)

(* The inductive invariant. *)
TreeInv ==
  /\ Whole(root, MaxHeight)
  /\ freelist \in Nat /\ Count[root] + freelist = boxes
  /\ ~panicked
  /\ Pool!Apart

(* A whole tree is in the bounded set, on which the definitions of LLRB    *)
(* are given.                                                              *)
LEMMA WholeInTree ==
  ASSUME NEW t, Whole(t, MaxHeight)
  PROVE  /\ t \in Tree /\ t \in AnyTree /\ Count[t] \in Nat
         /\ Regions(t) = Regs(t)
<1>1. MaxHeight \in Int /\ MaxHeight + 1 \in Int /\ MaxHeight <= MaxHeight + 1
  BY MaxHeightAssumption
<1>2. t \in Tree
  BY <1>1, RootedGrows, RootedInTree DEF Whole
<1> QED
  BY <1>2, TreeIs, TypesOf, SameReference DEF Regions, Regs

(* The regions that init leaves in the tree. *)
LEMMA InitialTree ==
  ASSUME Init
  PROVE  /\ Whole(root, MaxHeight) /\ Count[root] = boxes /\ freelist = 0 /\ live = {} /\ ~panicked
         /\ Regions(root) = {r \in AreaSet : r.size > 0}
<1> DEFINE n == Len(AreaList)
<1>1. n \in Nat /\ n \in 0 .. n /\ n <= MaxHeight /\ MaxHeight \in Nat
  BY AreaListAssumption, HeightAssumption, MaxHeightAssumption
<1>2. /\ root = InsertedFirst[n] /\ freelist = 0 /\ boxes = Cardinality(Given(n))
      /\ live = {} /\ ~panicked
  BY DEF Init, Given
<1>3. InsertedSoFar(n)
  BY <1>1, InsertedFirstIs
<1> HIDE DEF n
<1>4. Whole(root, n - 1) /\ Regs(root) = {AreaList[j] : j \in Given(n)} /\ Count[root] = boxes
  BY <1>2, <1>3 DEF InsertedSoFar
<1>5. Whole(root, MaxHeight)
  <2>1. n - 1 \in Int /\ MaxHeight \in Int /\ n - 1 <= MaxHeight
    BY <1>1
  <2> QED
    BY <1>4, <2>1, RootedGrows DEF Whole
<1>6. Regions(root) = {r \in AreaSet : r.size > 0}
  BY <1>4, <1>5, WholeInTree DEF AreaSet, Given, n
<1> QED
  BY <1>2, <1>4, <1>5, <1>6

(* The invariant holds after init (tree_alloc.rs:565-582). *)
LEMMA InitTree == Init => TreeInv
<1> SUFFICES ASSUME Init PROVE TreeInv
  OBVIOUS
<1>1. /\ Whole(root, MaxHeight) /\ Count[root] = boxes /\ freelist = 0 /\ live = {} /\ ~panicked
      /\ Regions(root) = {r \in AreaSet : r.size > 0}
  BY InitialTree
<1>2. Count[root] + freelist = boxes /\ freelist \in Nat
  BY <1>1, WholeInTree
<1>3. Pool!Apart
  <2>1. PoolProofs!Init
    BY <1>1 DEF PoolProofs!Init
  <2>2. PoolProofs!IInv
    BY <2>1, ListAreas, PoolProofs!InitHolds
  <2> QED
    BY <2>2, SameApart DEF PoolProofs!IInv
<1> QED
  BY <1>1, <1>2, <1>3 DEF TreeInv

(* What the invariant says of the root. *)
LEMMA RootSpaced ==
  ASSUME TreeInv
  PROVE  /\ root \in Tree /\ root \in AnyTree /\ InOrder(root) /\ Exact(root) /\ Spaced(root)
         /\ Regions(root) = Regs(root) /\ Regs(root) \subseteq Pool!Region
<1>1. /\ root \in Tree /\ root \in AnyTree /\ InOrder(root) /\ Exact(root)
      /\ Regions(root) = Regs(root)
  BY WholeInTree DEF TreeInv, Whole
<1>2. Regs(root) \subseteq Pool!Region
  BY <1>1, RegsType
<1>3. Spaced(root)
  <2> SUFFICES ASSUME NEW r \in Regs(root), NEW s \in Regs(root), r.base < s.base
               PROVE  r.base + r.size < s.base
    BY DEF Spaced
  <2>1. r.base \in Nat /\ r.size \in Nat /\ s.base \in Nat /\ s.size \in Nat
    BY <1>2, RecordOf
  <2>2. r = s \/ Pool!Before(r, s) \/ Pool!Before(s, r)
    BY <1>1 DEF TreeInv, Pool!Apart, Pool!FreeApart
  <2> QED
    BY <2>1, <2>2 DEF Pool!Before, Pool!End
<1> QED
  BY <1>1, <1>2, <1>3

-----------------------------------------------------------------------------
(* Allocation does not change the height. *)
LEMMA AlikeRooted ==
  ASSUME NEW t, NEW k \in Nat, Rooted(t, k), NEW u, Alike(t, u)
  PROVE  Rooted(u, k)
<1>1. \A n \in 0 .. k : n \in Nat
  OBVIOUS
<1> QED
  BY <1>1 DEF Rooted, Alike, Proper

(* alloc keeps the invariant, and does to the regions what the pool does,  *)
(* or nothing (tree_alloc.rs:381-394).                                     *)
LEMMA AllocStep ==
  ASSUME TreeInv, NEW q \in Requests, Alloc(q)
  PROVE  /\ TreeInv'
         /\ Pool!Alloc(q) \/ (UNCHANGED live /\ Regions(root') = Regions(root))
<1> DEFINE a == Allocate(root, q)
<1>1. /\ root' = Paint(a.tree, FALSE) /\ live' = live \cup a.out
      /\ freelist' = freelist /\ boxes' = boxes /\ panicked' = panicked
  BY DEF Alloc
<1>2. q \in Pool!Request
  BY RequestsAssumption
<1>3. Allocated(root, q, a)
  BY <1>2, RootSpaced, AllocateIs
<1> HIDE DEF a
<1>4. MaxHeight \in Nat
  BY MaxHeightAssumption
<1>5. CASE a = Answer(root, {})
  <2>1. a.tree = root /\ a.out = {}
    BY <1>5 DEF Answer
  <2>2. Whole(root', MaxHeight) /\ Regs(root') = Regs(root) /\ Count[root'] = Count[root]
    BY <1>1, <2>1, PaintWhole DEF TreeInv
  <2>3. Regions(root') = Regions(root) /\ live' = live
    BY <1>1, <2>1, <2>2, WholeInTree, RootSpaced
  <2>4. Pool!Apart'
    BY <2>3 DEF TreeInv, Pool!Apart, Pool!TypeOK, Pool!FreeApart, Pool!FreeClearOfLive, Pool!LiveDisjoint
  <2> QED
    BY <1>1, <2>2, <2>3, <2>4 DEF TreeInv
<1>6. ASSUME NEW r \in Regs(root), Takes(root, q, a, r)
      PROVE  TreeInv' /\ Pool!Alloc(q)
  <2>1. /\ Pool!Fits(r, q)
        /\ \A s \in Regs(root) : Pool!Fits(s, q) => r.base <= s.base
        /\ a.out = {Pool!Cut(r, q)}
        /\ Regs(a.tree) = (Regs(root) \ {r}) \cup {Pool!Rest(r, q)}
        /\ Count[a.tree] = Count[root] /\ InOrder(a.tree) /\ Exact(a.tree) /\ Alike(root, a.tree)
    BY <1>6 DEF Takes
  <2>2. Whole(a.tree, MaxHeight)
    BY <1>4, <2>1, AlikeRooted DEF TreeInv, Whole
  <2>3. Whole(root', MaxHeight) /\ Regs(root') = Regs(a.tree) /\ Count[root'] = Count[root]
    BY <1>1, <2>1, <2>2, PaintWhole
  <2>4. Regions(root') = (Regions(root) \ {r}) \cup {Pool!Rest(r, q)} /\ live' = live \cup {Pool!Cut(r, q)}
    BY <1>1, <2>1, <2>3, WholeInTree, RootSpaced
  <2>5. Pool!Alloc(q)
    BY <1>6, <2>1, <2>4, RootSpaced DEF Pool!Alloc
  <2>6. Pool!Apart'
    BY <1>2, <2>5, PoolAllocApart DEF TreeInv
  <2> QED
    BY <1>1, <2>3, <2>5, <2>6 DEF TreeInv
<1> QED
  BY <1>3, <1>5, <1>6, <1>1 DEF Allocated, TreeInv

-----------------------------------------------------------------------------
(***************************************************************************)
(* The neighbours that free finds are those of the pool.                   *)
(***************************************************************************)

(* N is empty and S is, or N has one node and S its region.                *)
Stands(t, N, S) == Named(t, N) /\ S = RegionsOf(N)

(* The sets of free in RegionPool. *)
PoolTouching(b)   == {p \in Pool!Predecessor(b.base) : Pool!End(p) >= b.base}
PoolReached(m, b) == {s \in Pool!Successor(b.base) : Pool!End(m) >= s.base}
PoolWidened(b)    == IF PoolTouching(b) = {} THEN {b}
                     ELSE {Pool!MergePredecessor(p, b) : p \in PoolTouching(b)}
PoolMerged(m, b)  == IF PoolReached(m, b) = {} THEN {m}
                     ELSE {Pool!MergeSuccessor(m, s) : s \in PoolReached(m, b)}

(* predecessor finds the node of the pool's predecessor                    *)
(* (tree_alloc.rs:258-273).                                                *)
LEMMA PredecessorStands ==
  ASSUME TreeInv, NEW addr \in Nat
  PROVE  Stands(root, PredecessorIn(root, addr), Pool!Predecessor(addr))
<1> DEFINE N == PredecessorIn(root, addr)
<1>1. GreatestBelow(root, addr, N)
  BY PredecessorIs, RootSpaced
<1>2. /\ Regions(root) = Regs(root) /\ root \in AnyTree /\ InOrder(root)
      /\ \A r \in Regs(root) : r.base \in Nat
  BY RootSpaced, TypesOf
<1> HIDE DEF N
<1>3. CASE N = {} /\ \A r \in Regs(root) : addr <= r.base
  <2>1. Pool!Predecessor(addr) = {}
    BY <1>2, <1>3 DEF Pool!Predecessor
  <2> QED
    BY <1>3, <2>1 DEF Stands, Named, RegionsOf, N
<1>4. ASSUME NEW p, N = {p}, RegionOf(p) \in Regs(root), p.base < addr,
             \A r \in Regs(root) : r.base < addr => r.base <= p.base
      PROVE  Stands(root, N, Pool!Predecessor(addr))
  <2>1. RegionOf(p).base = p.base
    BY DEF RegionOf
  <2>2. ASSUME NEW s \in Pool!Predecessor(addr) PROVE s = RegionOf(p)
    <3>1. /\ s \in Regs(root) /\ s.base < addr
          /\ \A r \in Regs(root) : r.base < addr => r.base <= s.base
      BY <1>2, <2>2 DEF Pool!Predecessor
    <3>2. s.base = p.base
      BY <1>2, <1>4, <2>1, <3>1
    <3> QED
      BY <1>2, <1>4, <2>1, <3>1, <3>2, KeysUnique
  <2>3. RegionOf(p) \in Pool!Predecessor(addr)
    BY <1>2, <1>4, <2>1 DEF Pool!Predecessor
  <2>4. Pool!Predecessor(addr) = {RegionOf(p)}
    BY <2>2, <2>3
  <2> QED
    BY <1>4, <2>4 DEF Stands, Named, RegionsOf
<1> QED
  BY <1>1, <1>3, <1>4 DEF GreatestBelow, N

(* successor finds the node of the pool's successor                        *)
(* (tree_alloc.rs:275-286).                                                *)
LEMMA SuccessorStands ==
  ASSUME TreeInv, NEW addr \in Nat
  PROVE  Stands(root, SuccessorIn(root, addr), Pool!Successor(addr))
<1> DEFINE N == SuccessorIn(root, addr)
<1>1. LeastFrom(root, addr, N)
  BY SuccessorIs, RootSpaced
<1>2. /\ Regions(root) = Regs(root) /\ root \in AnyTree /\ InOrder(root)
      /\ \A r \in Regs(root) : r.base \in Nat
  BY RootSpaced, TypesOf
<1> HIDE DEF N
<1>3. CASE N = {} /\ \A r \in Regs(root) : r.base < addr
  <2>1. Pool!Successor(addr) = {}
    BY <1>2, <1>3 DEF Pool!Successor
  <2> QED
    BY <1>3, <2>1 DEF Stands, Named, RegionsOf, N
<1>4. ASSUME NEW p, N = {p}, RegionOf(p) \in Regs(root), addr <= p.base,
             \A r \in Regs(root) : addr <= r.base => p.base <= r.base
      PROVE  Stands(root, N, Pool!Successor(addr))
  <2>1. RegionOf(p).base = p.base
    BY DEF RegionOf
  <2>2. ASSUME NEW s \in Pool!Successor(addr) PROVE s = RegionOf(p)
    <3>1. /\ s \in Regs(root) /\ addr <= s.base
          /\ \A r \in Regs(root) : addr <= r.base => s.base <= r.base
      BY <1>2, <2>2 DEF Pool!Successor
    <3>2. s.base = p.base
      BY <1>2, <1>4, <2>1, <3>1
    <3> QED
      BY <1>2, <1>4, <2>1, <3>1, <3>2, KeysUnique
  <2>3. RegionOf(p) \in Pool!Successor(addr)
    BY <1>2, <1>4, <2>1 DEF Pool!Successor
  <2>4. Pool!Successor(addr) = {RegionOf(p)}
    BY <2>2, <2>3
  <2> QED
    BY <1>4, <2>4 DEF Stands, Named, RegionsOf
<1> QED
  BY <1>1, <1>3, <1>4 DEF LeastFrom, N

-----------------------------------------------------------------------------
(* free merges the block with the predecessor when the pool does, to the   *)
(* same region (tree_alloc.rs:228-234).                                    *)
LEMMA TouchingStands ==
  ASSUME TreeInv, NEW b, b.base \in Nat
  PROVE  /\ Stands(root, Touching(b), PoolTouching(b))
         /\ Widened(b) = PoolWidened(b)
<1>1. Stands(root, PredecessorIn(root, b.base), Pool!Predecessor(b.base))
  BY PredecessorStands
<1> DEFINE N == PredecessorIn(root, b.base)
           S == Pool!Predecessor(b.base)
<1>2. /\ Touching(b) = {p \in N : Pool!End(p) >= b.base}
      /\ PoolTouching(b) = {p \in S : Pool!End(p) >= b.base}
  BY DEF Touching, PoolTouching
<1> HIDE DEF N, S
<1>3. CASE N = {} /\ S = {}
  BY <1>2, <1>3 DEF Stands, Named, RegionsOf, Widened, PoolWidened
<1>4. ASSUME NEW p, N = {p}, S = {RegionOf(p)}, RegionOf(p) \in Regs(root)
      PROVE  /\ Stands(root, Touching(b), PoolTouching(b))
             /\ Widened(b) = PoolWidened(b)
  <2>1. /\ Pool!End(RegionOf(p)) = Pool!End(p)
        /\ Pool!MergePredecessor(RegionOf(p), b) = Pool!MergePredecessor(p, b)
    BY DEF RegionOf, Pool!End, Pool!MergePredecessor, Pool!Max2
  <2>2. CASE Pool!End(p) >= b.base
    <3>1. Touching(b) = {p} /\ PoolTouching(b) = {RegionOf(p)}
      BY <1>2, <1>4, <2>1, <2>2
    <3>2. Widened(b) = {Pool!MergePredecessor(p, b)}
      BY <3>1 DEF Widened
    <3>3. PoolWidened(b) = {Pool!MergePredecessor(p, b)}
      BY <2>1, <3>1 DEF PoolWidened
    <3> QED
      BY <1>4, <3>1, <3>2, <3>3 DEF Stands, Named, RegionsOf
  <2>3. CASE ~(Pool!End(p) >= b.base)
    <3>1. Touching(b) = {} /\ PoolTouching(b) = {}
      BY <1>2, <1>4, <2>1, <2>3
    <3> QED
      BY <3>1 DEF Stands, Named, RegionsOf, Widened, PoolWidened
  <2> QED
    BY <2>2, <2>3
<1> QED
  BY <1>1, <1>3, <1>4 DEF Stands, Named, RegionsOf, N, S

(* free merges the region with the successor when the pool does, to the    *)
(* same region (tree_alloc.rs:236-241).                                    *)
LEMMA ReachedStands ==
  ASSUME TreeInv, NEW b, b.base \in Nat, NEW m
  PROVE  /\ Stands(root, Reached(m, b), PoolReached(m, b))
         /\ Merged(m, b) = PoolMerged(m, b)
<1>1. Stands(root, SuccessorIn(root, b.base), Pool!Successor(b.base))
  BY SuccessorStands
<1> DEFINE N == SuccessorIn(root, b.base)
           S == Pool!Successor(b.base)
<1>2. /\ Reached(m, b) = {s \in N : Pool!End(m) >= s.base}
      /\ PoolReached(m, b) = {s \in S : Pool!End(m) >= s.base}
  BY DEF Reached, PoolReached
<1> HIDE DEF N, S
<1>3. CASE N = {} /\ S = {}
  BY <1>2, <1>3 DEF Stands, Named, RegionsOf, Merged, PoolMerged
<1>4. ASSUME NEW p, N = {p}, S = {RegionOf(p)}, RegionOf(p) \in Regs(root)
      PROVE  /\ Stands(root, Reached(m, b), PoolReached(m, b))
             /\ Merged(m, b) = PoolMerged(m, b)
  <2>1. /\ RegionOf(p).base = p.base
        /\ Pool!MergeSuccessor(m, RegionOf(p)) = Pool!MergeSuccessor(m, p)
    BY DEF RegionOf, Pool!End, Pool!MergeSuccessor
  <2>2. CASE Pool!End(m) >= p.base
    <3>1. Reached(m, b) = {p} /\ PoolReached(m, b) = {RegionOf(p)}
      BY <1>2, <1>4, <2>1, <2>2
    <3>2. Merged(m, b) = {Pool!MergeSuccessor(m, p)}
      BY <3>1 DEF Merged
    <3>3. PoolMerged(m, b) = {Pool!MergeSuccessor(m, p)}
      BY <2>1, <3>1 DEF PoolMerged
    <3> QED
      BY <1>4, <3>1, <3>2, <3>3 DEF Stands, Named, RegionsOf
  <2>3. CASE ~(Pool!End(m) >= p.base)
    <3>1. Reached(m, b) = {} /\ PoolReached(m, b) = {}
      BY <1>2, <1>4, <2>1, <2>3
    <3> QED
      BY <3>1 DEF Stands, Named, RegionsOf, Merged, PoolMerged
  <2> QED
    BY <2>2, <2>3
<1> QED
  BY <1>1, <1>3, <1>4 DEF Stands, Named, RegionsOf, N, S

-----------------------------------------------------------------------------
(***************************************************************************)
(* free keeps the invariant.                                               *)
(***************************************************************************)

(* What free merges the block with from below.                             *)
LEMMA WidenedIs ==
  ASSUME TreeInv, NEW b \in live, NEW m \in PoolWidened(b)
  PROVE  /\ b.base \in Nat /\ m \in Pool!Region /\ m.base <= b.base /\ b.base <= Pool!End(m)
         /\ \/ PoolTouching(b) = {} /\ m.base = b.base
            \/ \E p \in Regs(root) : PoolTouching(b) = {p} /\ m.base = p.base /\ p.base < b.base
<1>1. b.base \in Nat /\ b.size \in Nat /\ b \in Pool!Region
  BY DEF TreeInv, Pool!Apart, Pool!TypeOK, Pool!Region
<1>2. Stands(root, Touching(b), PoolTouching(b))
  BY <1>1, TouchingStands
<1>3. CASE PoolTouching(b) = {}
  BY <1>1, <1>3 DEF PoolWidened, Pool!End
<1>4. ASSUME NEW p \in Regs(root), PoolTouching(b) = {p}
      PROVE  /\ m \in Pool!Region /\ m.base <= b.base /\ b.base <= Pool!End(m)
             /\ m.base = p.base /\ p.base < b.base
  <2>1. p.base \in Nat /\ p.size \in Nat
    BY RootSpaced, RecordOf
  <2>2. p.base < b.base /\ p.base + p.size >= b.base
    BY <1>4 DEF PoolTouching, Pool!Predecessor, Pool!End
  <2>3. m = Pool!MergePredecessor(p, b)
    BY <1>4 DEF PoolWidened
  <2>4. /\ m = [base |-> p.base, size |-> Pool!Max2(p.base + b.size, p.base + p.size) - p.base]
    BY <2>3 DEF Pool!MergePredecessor, Pool!End
  <2>5. /\ Pool!Max2(p.base + b.size, p.base + p.size) \in Nat
        /\ Pool!Max2(p.base + b.size, p.base + p.size) >= p.base + p.size
    BY <1>1, <2>1 DEF Pool!Max2
  <2>6. m.base \in Nat /\ m.size \in Nat /\ p.base + m.size >= p.base + p.size
    BY <2>1, <2>4, <2>5
  <2> QED
    BY <1>1, <2>1, <2>2, <2>4, <2>6 DEF Pool!Region, Pool!End
<1> QED
  BY <1>1, <1>2, <1>3, <1>4 DEF Stands, Named, RegionsOf

(* free inserts a region with a key that the tree does not have any more.  *)
LEMMA MergedIsNew ==
  ASSUME TreeInv, NEW b \in live, NEW m \in PoolWidened(b), NEW region \in PoolMerged(m, b)
  PROVE  /\ region \in Pool!Region
         /\ PoolTouching(b) \cap PoolReached(m, b) = {}
         /\ \A s \in Regs(root) \ (PoolTouching(b) \cup PoolReached(m, b)) : s.base # region.base
<1>1. /\ b.base \in Nat /\ m \in Pool!Region /\ m.base <= b.base /\ b.base <= Pool!End(m)
      /\ m.base \in Nat /\ m.size \in Nat
  BY WidenedIs, RecordOf
<1>2. Stands(root, Reached(m, b), PoolReached(m, b))
  BY <1>1, ReachedStands
<1>3. \A s \in PoolReached(m, b) : s.base >= b.base
  BY DEF PoolReached, Pool!Successor
<1>4. region \in Pool!Region /\ region.base = m.base
  <2>1. CASE PoolReached(m, b) = {}
    BY <1>1, <2>1 DEF PoolMerged
  <2>2. ASSUME NEW s \in Regs(root), PoolReached(m, b) = {s}
        PROVE  region \in Pool!Region /\ region.base = m.base
    <3>1. s.base \in Nat /\ s.size \in Nat
      BY RootSpaced, RecordOf
    <3>2. region = Pool!MergeSuccessor(m, s)
      BY <2>2 DEF PoolMerged
    <3>3. region = [base |-> m.base, size |-> (s.base + s.size) - m.base]
      BY <3>2 DEF Pool!MergeSuccessor, Pool!End
    <3>4. (s.base + s.size) - m.base \in Nat
      BY <1>1, <1>3, <2>2, <3>1
    <3> QED
      BY <1>1, <3>3, <3>4 DEF Pool!Region
  <2> QED
    BY <1>2, <2>1, <2>2 DEF Stands, Named, RegionsOf
<1>5. /\ \A s \in PoolTouching(b) : s.base < b.base
      /\ \A s \in PoolTouching(b) \cup PoolReached(m, b) : s.base \in Nat
  <2>1. PoolTouching(b) \cup PoolReached(m, b) \subseteq Regs(root)
    BY RootSpaced DEF PoolTouching, PoolReached, Pool!Predecessor, Pool!Successor
  <2> QED
    BY <2>1, RootSpaced, RecordOf DEF PoolTouching, Pool!Predecessor
<1>6. PoolTouching(b) \cap PoolReached(m, b) = {}
  BY <1>1, <1>3, <1>5
<1>7. ASSUME NEW s \in Regs(root), s \notin PoolTouching(b), s \notin PoolReached(m, b),
             s.base = region.base
      PROVE  FALSE
  <2>1. CASE PoolTouching(b) = {} /\ m.base = b.base
    <3>1. s.base = b.base
      BY <1>4, <1>7, <2>1
    <3>2. s \in Pool!Successor(b.base)
      BY <1>1, <3>1, RootSpaced, RecordOf DEF Pool!Successor
    <3> QED
      BY <1>1, <1>7, <3>1, <3>2 DEF PoolReached
  <2>2. ASSUME NEW p \in Regs(root), PoolTouching(b) = {p}, m.base = p.base
        PROVE  FALSE
    BY <1>4, <1>7, <2>2, RootSpaced, KeysUnique
  <2> QED
    BY <2>1, <2>2, WidenedIs
<1> QED
  BY <1>4, <1>6, <1>7

-----------------------------------------------------------------------------
(* The node that is inserted comes from the freelist, or else is a new one.*)
LEMMA NodeTaken ==
  ASSUME NEW stock \in Nat, NEW count \in Nat, count + stock = boxes, NEW inserts \in BOOLEAN,
         LET recycle == inserts /\ stock > 0 IN
           /\ freelist' = IF recycle THEN stock - 1 ELSE stock
           /\ boxes' = IF inserts /\ ~recycle THEN boxes + 1 ELSE boxes
  PROVE  /\ freelist' \in Nat
         /\ inserts => count + 1 + freelist' = boxes'
         /\ ~inserts => count + freelist' = boxes'
<1>1. boxes \in Nat
  BY SMT
<1> QED
  BY <1>1

(* What free makes of a tree without the merged regions.                   *)
LEMMA InsertedBack ==
  ASSUME NEW t, Whole(t, MaxHeight), NEW region \in Pool!Region,
         \A s \in Regs(t) : s.base # region.base, NEW v, v = Insert(t, region),
         BlackHeights[v] \subseteq 0 .. MaxHeight
  PROVE  /\ Whole(v, MaxHeight)
         /\ Regs(v) = Regs(t) \cup {r \in {region} : r.size > 0}
         /\ region.size > 0 => Count[v] = Count[t] + 1
         /\ ~(region.size > 0) => Count[v] = Count[t]
<1>1. region.size \in Nat
  BY RecordOf
<1>2. CASE region.size = 0
  <2>1. v = t
    BY <1>2 DEF Insert
  <2> QED
    BY <1>1, <1>2, <2>1
<1>3. CASE region.size > 0
  <2>1. MaxHeight \in Nat /\ MaxHeight \in Int /\ MaxHeight >= -1
    BY MaxHeightAssumption
  <2>2. Whole(v, MaxHeight + 1) /\ Regs(v) = Regs(t) \cup {region} /\ Count[v] = Count[t] + 1
    BY <1>3, <2>1, InsertIs
  <2>3. Whole(v, MaxHeight)
    BY <2>2, HeightBound DEF Whole
  <2> QED
    BY <1>3, <2>2, <2>3
<1> QED
  BY <1>1, <1>2, <1>3

(* free does not panic, keeps the invariant, and does to the regions what  *)
(* the pool does (tree_alloc.rs:221-256).                                  *)
LEMMA FreeStep ==
  ASSUME TreeInv, NEW b \in live, Free(b)
  PROVE  TreeInv' /\ Pool!Free(b)
<1>1. PICK m \in Widened(b) : \E region \in Merged(m, b) :
        LET results == Unlinked(b, Touching(b), Reached(m, b))
            inserts == region.size > 0
        IN
        /\ panicked' = (results = {})
        /\ live' = live \ {b}
        /\ IF results = {}
           THEN UNCHANGED <<root, freelist, boxes>>
           ELSE \E u \in results :
                  LET stock   == freelist + u.freed
                      recycle == inserts /\ stock > 0
                  IN /\ root' = Insert(u.tree, region)
                     /\ freelist' = IF recycle THEN stock - 1 ELSE stock
                     /\ boxes' = IF inserts /\ ~recycle THEN boxes + 1 ELSE boxes
                     /\ BlackHeights[root'] \subseteq 0 .. MaxHeight
  BY DEF Free
<1> DEFINE T == Touching(b)
           N == Reached(m, b)
           results == Unlinked(b, T, N)
<1>2. PICK region \in Merged(m, b) :
        /\ panicked' = (results = {})
        /\ live' = live \ {b}
        /\ results # {} =>
             \E u \in results :
                  LET recycle == region.size > 0 /\ freelist + u.freed > 0
                  IN /\ root' = Insert(u.tree, region)
                     /\ freelist' = IF recycle THEN (freelist + u.freed) - 1 ELSE freelist + u.freed
                     /\ boxes' = IF region.size > 0 /\ ~recycle THEN boxes + 1 ELSE boxes
                     /\ BlackHeights[root'] \subseteq 0 .. MaxHeight
  BY <1>1
<1>3. results = DeletedTwice(root, T, N)
  BY DEF Unlinked, DeletedTwice
<1> HIDE DEF T, N, results
<1>4. b.base \in Nat
  BY DEF TreeInv, Pool!Apart, Pool!TypeOK
<1>5. /\ Stands(root, T, PoolTouching(b)) /\ Widened(b) = PoolWidened(b)
      /\ Stands(root, N, PoolReached(m, b)) /\ Merged(m, b) = PoolMerged(m, b)
  BY <1>4, TouchingStands, ReachedStands DEF T, N
<1>6. /\ region \in Pool!Region /\ PoolTouching(b) \cap PoolReached(m, b) = {}
      /\ \A s \in Regs(root) \ (PoolTouching(b) \cup PoolReached(m, b)) : s.base # region.base
  BY <1>1, <1>2, <1>5, MergedIsNew
<1>7. MaxHeight \in Nat /\ MaxHeight <= MaxHeight
  BY MaxHeightAssumption
<1>8. results # {} /\ \A d \in results : KeyDeleted(root, MaxHeight, T \cup N, d)
  BY <1>3, <1>5, <1>6, <1>7, DeletedTwiceIs DEF TreeInv, Stands
<1>9. PICK u \in results :
        LET recycle == region.size > 0 /\ freelist + u.freed > 0
        IN /\ root' = Insert(u.tree, region)
           /\ freelist' = IF recycle THEN (freelist + u.freed) - 1 ELSE freelist + u.freed
           /\ boxes' = IF region.size > 0 /\ ~recycle THEN boxes + 1 ELSE boxes
           /\ BlackHeights[root'] \subseteq 0 .. MaxHeight
  BY <1>2, <1>8
<1>10. /\ Whole(u.tree, MaxHeight)
       /\ Regs(u.tree) = Regs(root) \ (PoolTouching(b) \cup PoolReached(m, b))
       /\ u.freed \in Nat /\ Count[u.tree] + u.freed = Count[root]
  <2>1. RegionsOf(T \cup N) = RegionsOf(T) \cup RegionsOf(N)
    BY DEF RegionsOf
  <2> QED
    BY <1>5, <1>8, <1>9, <2>1 DEF KeyDeleted, Stands
<1>11. /\ Whole(root', MaxHeight)
       /\ Regs(root') = Regs(u.tree) \cup {r \in {region} : r.size > 0}
       /\ region.size > 0 => Count[root'] = Count[u.tree] + 1
       /\ ~(region.size > 0) => Count[root'] = Count[u.tree]
  BY <1>6, <1>9, <1>10, InsertedBack
<1>12. freelist' \in Nat /\ Count[root'] + freelist' = boxes'
  <2>1. /\ freelist \in Nat /\ Count[root] + freelist = boxes
    BY DEF TreeInv
  <2>2. Count[u.tree] \in Nat
    BY <1>10, WholeInTree
  <2>3. freelist + u.freed \in Nat /\ Count[u.tree] + (freelist + u.freed) = boxes
    BY <1>10, <2>1, <2>2
  <2>4. /\ freelist' \in Nat
        /\ region.size > 0 => Count[u.tree] + 1 + freelist' = boxes'
        /\ ~(region.size > 0) => Count[u.tree] + freelist' = boxes'
    BY <1>9, <2>2, <2>3, NodeTaken
  <2> QED
    BY <1>11, <2>4
<1>13. Pool!Free(b)
  <2>1. Merged(m, b) = {region}
    BY <1>2, <1>5 DEF PoolMerged, Stands, Named, RegionsOf
  <2>2. /\ Regions(root) = Regs(root) /\ Regions(root') = Regs(root')
    BY <1>11, WholeInTree DEF TreeInv
  <2>3. Regions(root') = (Regions(root) \ (PoolTouching(b) \cup PoolReached(m, b)))
                           \cup {r \in PoolMerged(m, b) : r.size > 0}
    BY <1>5, <1>10, <1>11, <2>1, <2>2
  <2> QED
    BY <1>1, <1>2, <1>5, <2>3 DEF Pool!Free, PoolWidened, PoolTouching, PoolMerged, PoolReached
<1>14. Pool!Apart'
  BY <1>13, PoolFreeApart DEF TreeInv
<1>15. panicked' = FALSE
  BY <1>2, <1>8
<1> QED
  BY <1>11, <1>12, <1>13, <1>14, <1>15 DEF TreeInv

-----------------------------------------------------------------------------
(***************************************************************************)
(* The invariant of the specification, and what follows from it.           *)
(***************************************************************************)

(* Every step keeps the invariant, and is a step of the pool or none. *)
LEMMA StepTree ==
  ASSUME TreeInv, [Next]_vars
  PROVE  TreeInv' /\ (Pool!Next \/ UNCHANGED Pool!vars)
<1>1. CASE UNCHANGED vars
  <2>1. Regions(root') = Regions(root) /\ live' = live
    BY <1>1 DEF vars
  <2>2. Pool!Apart'
    BY <2>1 DEF TreeInv, Pool!Apart, Pool!TypeOK, Pool!FreeApart, Pool!FreeClearOfLive, Pool!LiveDisjoint
  <2> QED
    BY <1>1, <2>1, <2>2 DEF vars, TreeInv, Pool!vars
<1>2. ASSUME NEW q \in Requests, Alloc(q)
      PROVE  TreeInv' /\ (Pool!Next \/ UNCHANGED Pool!vars)
  BY <1>2, AllocStep DEF Pool!Next, Pool!vars
<1>3. ASSUME NEW b \in live, Free(b)
      PROVE  TreeInv' /\ (Pool!Next \/ UNCHANGED Pool!vars)
  BY <1>3, FreeStep DEF Pool!Next
<1> QED
  BY <1>1, <1>2, <1>3 DEF Next

(* Whatever the heap areas and the calls are, the tree that the code calls *)
(* root is balanced, ordered and exact between two calls, its regions keep *)
(* apart from each other and from the blocks in use, and every node is in  *)
(* it or in the freelist.                                                  *)
THEOREM TreeInvariant == Spec => []TreeInv
<1>1. Init => TreeInv
  BY InitTree
<1>2. TreeInv /\ [Next]_vars => TreeInv'
  BY StepTree
<1> QED
  BY <1>1, <1>2, PTL DEF Spec

-----------------------------------------------------------------------------
(* On the root the reference definitions agree with the lemmas' ones. *)
LEMMA RootNodes ==
  ASSUME TreeInv
  PROVE  /\ Subtrees[root] = NodesOf[root] /\ NodeCount[root] = Count[root]
         /\ \A n \in NodesOf[root] : /\ Subtrees[n.left] = NodesOf[n.left]
                                     /\ Subtrees[n.right] = NodesOf[n.right]
<1> DEFINE P == {u \in AnyTree : \A n \in NodesOf[u] : n.left \in Tree /\ n.right \in Tree}
<1>1. Nil \in P
  BY NilIs, NodesOfIs
<1> DEFINE Q == {u \in AnyTree : u \in Tree => u \in P}
<1>2. Nil \in Q
  BY <1>1, NilIs
<1>3. ASSUME NEW u \in AnyNode, u.left \in Q, u.right \in Q
      PROVE  u \in Q
  <2>1. u \in AnyTree /\ u # Nil
    BY NodeOrNot DEF IsNode
  <2>2. NodesOf[u] = {u} \cup NodesOf[u.left] \cup NodesOf[u.right]
    BY <2>1, NodesOfIs
  <2>3. u \in Tree => u.left \in Tree /\ u.right \in Tree
    BY <2>1, TreeIs DEF Closed
  <2> QED
    BY <1>3, <2>1, <2>2, <2>3
<1>4. root \in Tree /\ root \in AnyTree
  BY RootSpaced
<1>5. root \in P
  <2> HIDE DEF P
  <2>1. AnyTree \subseteq Q
    BY <1>2, <1>3, TreeInduction
  <2> QED
    BY <1>4, <2>1
<1> QED
  BY <1>4, <1>5, SameReference

(* delete(key) takes the right node: the keys of the tree are in order and *)
(* none is in it twice, after any sequence of alloc and free.              *)
THEOREM KeysHold == Spec => []KeysOrdered
<1>1. TreeInv => KeysOrdered
  BY RootNodes, RootSpaced DEF KeysOrdered, Ordered, InOrder
<1> QED
  BY <1>1, TreeInvariant, PTL

(* insert, delete and alloc leave a left-leaning red-black tree behind, on *)
(* which the unwraps of delete rely.                                       *)
THEOREM BalanceHolds == Spec => []Balanced
<1>1. ASSUME TreeInv PROVE Balanced
  <2>1. PICK k \in Nat : BlackHeights[root] = {k}
    BY <1>1, RootedBalance DEF TreeInv, Whole
  <2>2. Cardinality(BlackHeights[root]) = 1
    BY <2>1, FS_Singleton
  <2> QED
    BY <1>1, <2>2, RootedBalance DEF Balanced, TreeInv, Whole
<1> QED
  BY <1>1, TreeInvariant, PTL

(* The largest size that alloc_rec prunes with is exact in every node.     *)
THEOREM MaxSizeHolds == Spec => []MaxSizeExact
<1>1. ASSUME TreeInv PROVE MaxSizeExact
  <2>1. ASSUME NEW n \in NodesOf[root]
        PROVE  n.max_size = UpdateMaxSize(n).max_size
    <3>1. n.max_size = Largest(n)
      BY <1>1, <2>1, RootSpaced DEF Exact
    <3>2. n \in AnyNode
      BY <1>1, <2>1, RootSpaced, NodesOfIs
    <3>3. UpdateMaxSize(n).max_size = Largest(n)
      BY <3>2 DEF UpdateMaxSize, Largest, AnyNode, Nodes
    <3> QED
      BY <3>1, <3>3
  <2> QED
    BY <1>1, <2>1, RootNodes DEF MaxSizeExact, SizesExact
<1> QED
  BY <1>1, TreeInvariant, PTL

(* alloc fails only when no region fits, and otherwise takes the lowest:   *)
(* the pruning by max_size and the descent lose none.                      *)
THEOREM AllocFindsLowest == Spec => []AllocComplete
<1>1. ASSUME TreeInv, NEW q \in Requests
      PROVE  LET fitting == {r \in Regions(root) : Pool!Fits(r, q)}
                 lowest  == {r \in fitting : \A s \in fitting : r.base <= s.base}
             IN Allocate(root, q).out = {Pool!Cut(r, q) : r \in lowest}
  <2> DEFINE fitting == {r \in Regs(root) : Pool!Fits(r, q)}
             lowest  == {r \in fitting : \A s \in fitting : r.base <= s.base}
             a == Allocate(root, q)
  <2>1. q \in Pool!Request
    BY RequestsAssumption
  <2>2. Allocated(root, q, a)
    BY <1>1, <2>1, RootSpaced, AllocateIs
  <2> HIDE DEF a
  <2>3. a.out = {Pool!Cut(r, q) : r \in lowest}
    <3>1. CASE a = Answer(root, {}) /\ \A s \in Regs(root) : ~Pool!Fits(s, q)
      BY <3>1 DEF Answer
    <3>2. ASSUME NEW r \in Regs(root), Takes(root, q, a, r)
          PROVE  a.out = {Pool!Cut(x, q) : x \in lowest}
      <4>1. /\ Pool!Fits(r, q) /\ a.out = {Pool!Cut(r, q)}
            /\ \A s \in Regs(root) : Pool!Fits(s, q) => r.base <= s.base
        BY <3>2 DEF Takes
      <4>2. r \in lowest
        BY <4>1
      <4>3. ASSUME NEW s \in lowest PROVE s = r
        <5>1. s \in Regs(root) /\ s.base <= r.base /\ r.base <= s.base
          BY <4>1, <4>2
        <5>2. s.base = r.base
          BY <1>1, <5>1, RootSpaced, RecordOf
        <5> QED
          BY <1>1, <5>1, <5>2, RootSpaced, KeysUnique
      <4>4. lowest = {r}
        BY <4>2, <4>3
      <4> QED
        BY <4>1, <4>4
    <3> QED
      BY <2>2, <3>1, <3>2 DEF Allocated
  <2> QED
    BY <1>1, <2>3, RootSpaced DEF a
<1>2. TreeInv => AllocComplete
  BY <1>1 DEF AllocComplete
<1> QED
  BY <1>2, TreeInvariant, PTL

(* No deletion drops a node: what the bump allocator gave is in the tree   *)
(* or in the freelist.                                                     *)
THEOREM NodesHold == Spec => []NodesConserved
<1>1. TreeInv => NodesConserved
  BY RootNodes DEF TreeInv, NodesConserved
<1> QED
  BY <1>1, TreeInvariant, PTL

(* The unwraps of move_red_left, move_red_right and delete find a child.   *)
THEOREM NeverPanics == Spec => []NoPanic
<1>1. TreeInv => NoPanic
  BY DEF TreeInv, NoPanic
<1> QED
  BY <1>1, TreeInvariant, PTL

(* The tree implements the pool of regions: every call of alloc and free   *)
(* does to the regions of the tree what RegionPool says.                   *)
THEOREM TreeIsPool == Spec => PoolSpec
<1>1. Init => Pool!Init
  <2> SUFFICES ASSUME Init PROVE Pool!Init
    OBVIOUS
  <2>1. Regions(root) = {r \in AreaSet : r.size > 0} /\ live = {}
    BY InitialTree
  <2> QED
    BY <2>1 DEF Pool!Init
<1>2. TreeInv /\ [Next]_vars => [Pool!Next]_(Pool!vars)
  BY StepTree
<1> QED
  BY <1>1, <1>2, TreeInvariant, PTL DEF Spec, PoolSpec, Pool!Spec

(* The tree keeps the promise of the heap. *)
THEOREM TreeKeepsPromise == Spec => Pool!HeapSpec
<1>1. PoolProofs!Spec => PoolProofs!HeapSpec
  BY ListAreas, PoolProofs!PoolImplementsHeap
<1>2. Pool!Init => PoolProofs!Init
  BY DEF Pool!Init, PoolProofs!Init
<1>3. [Pool!Next]_(Pool!vars) => [PoolProofs!Next]_(PoolProofs!vars)
  BY SameOperations DEF Pool!Next, PoolProofs!Next, Pool!vars, PoolProofs!vars
<1>4. Spec => PoolProofs!Spec
  BY <1>2, <1>3, TreeIsPool, PTL DEF PoolSpec, Pool!Spec, PoolProofs!Spec
<1>5. PoolProofs!Heap!Init => Pool!Heap!Init
  BY DEF PoolProofs!Heap!Init, Pool!Heap!Init
<1>6. [PoolProofs!Heap!Next]_(live) => [Pool!Heap!Next]_(live)
  BY DEF PoolProofs!Heap!Next, Pool!Heap!Next, PoolProofs!Heap!HandOut, Pool!Heap!HandOut,
     PoolProofs!Heap!TakeBack, Pool!Heap!TakeBack,
     PoolProofs!Heap!Meets, Pool!Heap!Meets,
     PoolProofs!Heap!Disjoint, Pool!Heap!Disjoint,
     PoolProofs!Heap!ToPhysicalAddr, Pool!Heap!ToPhysicalAddr,
     PoolProofs!Heap!End, Pool!Heap!End
<1>7. PoolProofs!HeapSpec => Pool!HeapSpec
  BY <1>5, <1>6, PTL DEF PoolProofs!HeapSpec, PoolProofs!Heap!Spec, Pool!HeapSpec, Pool!Heap!Spec
<1> QED
  BY <1>1, <1>4, <1>7
=============================================================================
