----------------------------- MODULE LLRBProofs -----------------------------
(***************************************************************************)
(* Proofs about LLRB: insert, delete and the searches of the left-leaning  *)
(* red-black tree, for every tree. What an operation keeps (regions,       *)
(* order, the largest sizes, the number of nodes) and what it does to the  *)
(* shape are proved apart; the shapes are those of the 2-3-4 tree that a   *)
(* left-leaning red-black tree stands for.                                 *)
(***************************************************************************)
EXTENDS LLRB, FiniteSetTheorems, WellFoundedInduction, TLAPS

-----------------------------------------------------------------------------
(***************************************************************************)
(* Recursion, the trees of any height, and induction on them.              *)
(***************************************************************************)

(* A set of numbers that is not empty has a least element.                 *)
LEMMA LeastNumber ==
  ASSUME NEW T, T \subseteq Nat, T # {}
  PROVE  \E m \in T : \A k \in T : m <= k
<1> DEFINE R == OpToRel(<, Nat)
<1>1. IsWellFoundedOn(R, Nat)
  BY NatLessThanWellFounded
<1>2. \A x, y \in Nat : x < y => <<x, y>> \in R
  BY DEF OpToRel
<1> HIDE DEF R
<1>3. \E x \in T : \A y \in T : ~(<<y, x>> \in R)
  BY <1>1, WFMin
<1>4. PICK m \in T : \A y \in T : ~(<<y, m>> \in R)
  BY <1>3
<1>5. \A y \in T : ~(y < m)
  BY <1>2, <1>4
<1> QED
  BY <1>4, <1>5

(* A set of numbers that holds with a number's predecessors the number.    *)
LEMMA Inductive ==
  ASSUME NEW T, \A n \in Nat : (\A k \in Nat : k < n => k \in T) => n \in T
  PROVE  \A n \in Nat : n \in T
<1> DEFINE U == {n \in Nat : n \notin T}
<1> SUFFICES ASSUME U # {} PROVE FALSE
  OBVIOUS
<1>1. PICK m \in U : \A k \in U : m <= k
  <2>1. U \subseteq Nat
    OBVIOUS
  <2> HIDE DEF U
  <2> QED
    BY <2>1, LeastNumber
<1>2. \A k \in Nat : k < m => k \in T
  BY <1>1
<1> QED
  BY <1>2

-----------------------------------------------------------------------------
(* Recursion.  A step that looks only at what is smaller has a solution:   *)
(* the approximations agree as far as they go.                             *)

(* f solves the step for everything below n.                               *)
Solves(f, n, S, D, m) == \A x \in S : m[x] < n => f[x] = D[<<x, f>>]

(* D[<<x, f>>] depends on f only below x.                                  *)
Local(S, V, D, m) ==
  \A x \in S : \A f, g \in [S -> V] :
    (\A y \in S : m[y] < m[x] => f[y] = g[y]) => D[<<x, f>>] = D[<<x, g>>]

Recursion(S, V, D, m) ==
  m \in [S -> Nat] /\ D \in [S \X [S -> V] -> V] /\ Local(S, V, D, m)

(* Two solutions of such a step agree as far as both go. *)
LEMMA SolutionsAgree ==
  ASSUME NEW S, NEW V, NEW m, NEW D, Recursion(S, V, D, m)
  PROVE  \A f, g \in [S -> V] : \A n \in Nat :
           Solves(f, n, S, D, m) /\ Solves(g, n, S, D, m)
             => \A x \in S : m[x] < n => f[x] = g[x]
<1> SUFFICES ASSUME NEW f \in [S -> V], NEW g \in [S -> V], NEW n \in Nat,
                    Solves(f, n, S, D, m), Solves(g, n, S, D, m)
             PROVE  \A x \in S : m[x] < n => f[x] = g[x]
  OBVIOUS
<1> DEFINE T == {k \in Nat : \A x \in S : m[x] = k /\ k < n => f[x] = g[x]}
<1>1. ASSUME NEW k \in Nat, \A j \in Nat : j < k => j \in T
      PROVE  k \in T
  <2> SUFFICES ASSUME NEW x \in S, m[x] = k, k < n PROVE f[x] = g[x]
    OBVIOUS
  <2>1. \A y \in S : m[y] < m[x] => f[y] = g[y]
    BY <1>1 DEF Recursion
  <2>2. D[<<x, f>>] = D[<<x, g>>]
    BY <2>1 DEF Local, Recursion
  <2> QED
    BY <2>2 DEF Solves
<1>2. \A k \in Nat : k \in T
  <2> HIDE DEF T
  <2> QED
    BY <1>1, Inductive
<1> QED
  BY <1>2 DEF Recursion

(* Such a step can be solved as far as one likes. *)
LEMMA SolutionsExist ==
  ASSUME NEW S, NEW V, V # {}, NEW m, NEW D, Recursion(S, V, D, m)
  PROVE  \A n \in Nat : \E f \in [S -> V] : Solves(f, n, S, D, m)
<1> DEFINE T == {n \in Nat : \E f \in [S -> V] : Solves(f, n, S, D, m)}
<1>0. m \in [S -> Nat] /\ D \in [S \X [S -> V] -> V] /\ Local(S, V, D, m)
  BY DEF Recursion
<1>1. ASSUME NEW n \in Nat, \A k \in Nat : k < n => k \in T
      PROVE  n \in T
  <2>1. CASE n = 0
    <3>1. PICK v \in V : TRUE
      BY <1>0
    <3>2. [x \in S |-> v] \in [S -> V] /\ Solves([x \in S |-> v], n, S, D, m)
      BY <1>0, <2>1 DEF Solves
    <3> QED
      BY <1>0, <3>2
  <2>2. CASE n > 0
    <3>0. n - 1 \in T
      <4>1. n - 1 \in Nat /\ n - 1 < n
        BY <1>0, <2>2
      <4> HIDE DEF T
      <4> QED
        BY <1>0, <1>1, <4>1
    <3>1. PICK f \in [S -> V] : Solves(f, n - 1, S, D, m)
      BY <1>0, <3>0
    <3> DEFINE g == [x \in S |-> D[<<x, f>>]]
    <3>2. g \in [S -> V]
      BY <1>0
    <3>3. ASSUME NEW x \in S, m[x] < n
          PROVE  g[x] = D[<<x, g>>]
      <4>1. \A y \in S : m[y] < m[x] => f[y] = g[y]
        BY <1>0, <2>2, <3>1, <3>3 DEF Solves
      <4> HIDE DEF g
      <4>2. D[<<x, f>>] = D[<<x, g>>]
        BY <1>0, <3>2, <4>1 DEF Local
      <4> QED
        BY <1>0, <4>2 DEF g
    <3> HIDE DEF g
    <3> QED
      BY <1>0, <3>2, <3>3 DEF Solves
  <2> QED
    BY <1>0, <2>1, <2>2
<1>2. \A n \in Nat : n \in T
  <2> HIDE DEF T
  <2> QED
    BY <1>0, <1>1, Inductive
<1> QED
  BY <1>0, <1>2

Solvable(S, V, D) == \E f \in [S -> V] : \A x \in S : f[x] = D[<<x, f>>]

(* Such a step has a solution: what TLA+ means by a recursive function. *)
LEMMA RecursionExists ==
  ASSUME NEW S, NEW V, V # {}, NEW m, NEW D, Recursion(S, V, D, m)
  PROVE  Solvable(S, V, D)
<1>0. m \in [S -> Nat] /\ D \in [S \X [S -> V] -> V] /\ Local(S, V, D, m)
  BY DEF Recursion
<1> DEFINE A(n) == CHOOSE f \in [S -> V] : Solves(f, n, S, D, m)
           f == [x \in S |-> A(m[x] + 1)[x]]
<1>1. \A n \in Nat : A(n) \in [S -> V] /\ Solves(A(n), n, S, D, m)
  BY <1>0, SolutionsExist
<1> HIDE DEF A
<1>2. \A x \in S : m[x] \in Nat /\ m[x] + 1 \in Nat
  BY <1>0
<1>3. f \in [S -> V]
  <2> SUFFICES ASSUME NEW x \in S PROVE A(m[x] + 1)[x] \in V
    BY <1>0
  <2> QED
    BY <1>0, <1>1, <1>2
<1>4. ASSUME NEW x \in S
      PROVE  f[x] = D[<<x, f>>]
  <2> DEFINE g == A(m[x] + 1)
  <2>1. g \in [S -> V] /\ Solves(g, m[x] + 1, S, D, m)
    BY <1>0, <1>1, <1>2
  <2> HIDE DEF g
  <2>2. g[x] = D[<<x, g>>]
    <3>1. m[x] < m[x] + 1
      BY <1>2
    <3> QED
      BY <2>1, <3>1 DEF Solves
  <2>3. ASSUME NEW y \in S, m[y] < m[x]
        PROVE  g[y] = f[y]
    <3> USE DEF g
    <3> DEFINE h == A(m[y] + 1)
    <3>1. h \in [S -> V] /\ Solves(h, m[y] + 1, S, D, m)
      BY <1>0, <1>1, <1>2
    <3>2. Solves(g, m[y] + 1, S, D, m)
      BY <1>0, <1>2, <2>1, <2>3 DEF Solves
    <3>3. m[y] < m[y] + 1 /\ m[y] + 1 \in Nat
      BY <1>0, <1>2
    <3> HIDE DEF g, h
    <3>4. \A z \in S : m[z] < m[y] + 1 => h[z] = g[z]
      BY <1>0, SolutionsAgree, <2>1, <3>1, <3>2, <3>3
    <3>6. g[y] = h[y]
      BY <1>0, <3>1, <3>2, <3>3, <3>4
    <3> QED
      BY <1>0, <3>6 DEF h, f
  <2> HIDE DEF f
  <2>4. D[<<x, g>>] = D[<<x, f>>]
    BY <1>0, <1>3, <2>1, <2>3 DEF Local
  <2> QED
    BY <1>0, <2>2, <2>4 DEF f, g
<1> HIDE DEF f
<1> QED
  BY <1>3, <1>4 DEF Solvable

-----------------------------------------------------------------------------
(* The trees of at most n levels.                                          *)

LevelsUpTo(n, g) ==
  g = [i \in 0..n |-> IF i = 0 THEN {Nil} ELSE {Nil} \cup Nodes(g[i - 1])]

(* One level of the approximation of Trees. *)
LEMMA LevelsAt ==
  ASSUME NEW n \in Nat, NEW g, LevelsUpTo(n, g), NEW i \in 0..n
  PROVE  g[i] = IF i = 0 THEN {Nil} ELSE {Nil} \cup Nodes(g[i - 1])
<1> DEFINE h == [j \in 0..n |-> IF j = 0 THEN {Nil} ELSE {Nil} \cup Nodes(g[j - 1])]
<1>1. g = h
  BY DEF LevelsUpTo
<1>2. h[i] = IF i = 0 THEN {Nil} ELSE {Nil} \cup Nodes(g[i - 1])
  OBVIOUS
<1> HIDE DEF h
<1> QED
  BY <1>1, <1>2

(* Two approximations of Trees agree as far as both go. *)
LEMMA LevelsAgree ==
  ASSUME NEW k \in Nat, NEW n \in Nat, k <= n, NEW p, NEW q, LevelsUpTo(k, p), LevelsUpTo(n, q)
  PROVE  \A i \in 0..k : p[i] = q[i]
<1> DEFINE T == {i \in Nat : i <= k => p[i] = q[i]}
<1>1. ASSUME NEW i \in Nat, \A j \in Nat : j < i => j \in T
      PROVE  i \in T
  <2> SUFFICES ASSUME i <= k PROVE p[i] = q[i]
    OBVIOUS
  <2>1. /\ p[i] = IF i = 0 THEN {Nil} ELSE {Nil} \cup Nodes(p[i - 1])
        /\ q[i] = IF i = 0 THEN {Nil} ELSE {Nil} \cup Nodes(q[i - 1])
    <3>1. i \in 0..k /\ i \in 0..n
      OBVIOUS
    <3>2. p[i] = IF i = 0 THEN {Nil} ELSE {Nil} \cup Nodes(p[i - 1])
      BY <3>1, LevelsAt
    <3>3. \A j \in 0..n : q[j] = IF j = 0 THEN {Nil} ELSE {Nil} \cup Nodes(q[j - 1])
      <4>1. n \in Nat /\ LevelsUpTo(n, q)
        OBVIOUS
      <4> QED
        BY <4>1, LevelsAt
    <3> QED
      BY <3>1, <3>2, <3>3
  <2>2. i # 0 => p[i - 1] = q[i - 1]
    BY <1>1
  <2> QED
    BY <2>1, <2>2
<1>2. \A i \in Nat : i \in T
  <2> HIDE DEF T
  <2> QED
    BY <1>1, Inductive
<1> QED
  BY <1>2

(* Trees can be approximated to every level. *)
LEMMA LevelsExist == \A n \in Nat : \E g : LevelsUpTo(n, g)
<1> DEFINE T == {n \in Nat : \E g : LevelsUpTo(n, g)}
<1>1. ASSUME NEW n \in Nat, \A k \in Nat : k < n => k \in T
      PROVE  n \in T
  <2>1. CASE n = 0
    <3> DEFINE g == [i \in 0..n |-> {Nil}]
    <3>1. LevelsUpTo(n, g)
      BY <2>1 DEF LevelsUpTo
    <3> QED
      BY <3>1
  <2>2. CASE n > 0
    <3>1. PICK f : LevelsUpTo(n - 1, f)
      BY <1>1, <2>2
    <3> DEFINE g == [i \in 0..n |-> IF i = 0 THEN {Nil} ELSE {Nil} \cup Nodes(f[i - 1])]
    <3>2. \A i \in 0..(n - 1) : f[i] = g[i]
      <4> SUFFICES ASSUME NEW i \in 0..(n - 1) PROVE f[i] = g[i]
        OBVIOUS
      <4>1. n - 1 \in Nat /\ i \in 0..n
        BY <2>2
      <4>2. f[i] = IF i = 0 THEN {Nil} ELSE {Nil} \cup Nodes(f[i - 1])
        BY <3>1, <4>1, LevelsAt
      <4> QED
        BY <4>1, <4>2
    <3>3. g = [i \in 0..n |-> IF i = 0 THEN {Nil} ELSE {Nil} \cup Nodes(g[i - 1])]
      <4>1. \A i \in 0..n : i # 0 => f[i - 1] = g[i - 1]
        <5> SUFFICES ASSUME NEW i \in 0..n, i # 0 PROVE f[i - 1] = g[i - 1]
          OBVIOUS
        <5>1. i - 1 \in 0..(n - 1)
          OBVIOUS
        <5> QED
          BY <3>2, <5>1, Zenon
      <4> QED
        BY <4>1, Zenon
    <3> QED
      BY <3>3 DEF LevelsUpTo
  <2> QED
    BY <2>1, <2>2
<1>2. \A n \in Nat : n \in T
  <2> HIDE DEF T
  <2> QED
    BY <1>1, Inductive
<1> QED
  BY <1>2

(* The recursion of Trees.                                                 *)
LEMMA TreesUnfolded ==
  \A n \in Nat : Trees[n] = IF n = 0 THEN {Nil} ELSE {Nil} \cup Nodes(Trees[n - 1])
<1> DEFINE Step(g) == [n \in Nat |-> IF n = 0 THEN {Nil} ELSE {Nil} \cup Nodes(g[n - 1])]
           L(n) == CHOOSE g : LevelsUpTo(n, g)
           f == [n \in Nat |-> L(n)[n]]
<1>1. Trees = CHOOSE g : g = Step(g)
  BY DEF Trees
<1>2. \A n \in Nat : LevelsUpTo(n, L(n))
  BY LevelsExist
<1>3. f = Step(f)
  <2>1. ASSUME NEW n \in Nat
        PROVE  f[n] = IF n = 0 THEN {Nil} ELSE {Nil} \cup Nodes(f[n - 1])
    <3> HIDE DEF L
    <3>1. L(n)[n] = IF n = 0 THEN {Nil} ELSE {Nil} \cup Nodes(L(n)[n - 1])
      <4>1. n \in 0..n
        OBVIOUS
      <4> QED
        BY <1>2, <4>1, LevelsAt
    <3>2. CASE n = 0
      BY <3>1, <3>2
    <3>3. CASE n > 0
      <4>1. n - 1 \in Nat /\ n - 1 <= n /\ n - 1 \in 0..(n - 1)
        BY <3>3
      <4>2. \A i \in 0..(n - 1) : L(n - 1)[i] = L(n)[i]
        BY <1>2, <4>1, LevelsAgree
      <4>3. L(n)[n - 1] = f[n - 1]
        BY <4>1, <4>2
      <4> QED
        BY <3>1, <3>3, <4>3
    <3> QED
      BY <3>2, <3>3
  <2> HIDE DEF L
  <2> QED
    BY <2>1, Zenon
<1> HIDE DEF f, L
<1>4. Trees = Step(Trees)
  <2>1. \E g : g = Step(g)
    BY <1>3
  <2> HIDE DEF Step
  <2> QED
    BY <1>1, <2>1
<1> QED
  BY <1>4
-----------------------------------------------------------------------------
(* All trees.                                                              *)
AnyTree == UNION {Trees[n] : n \in Nat}
AnyNode == Nodes(AnyTree)

(* None is not a node (tree_alloc.rs:28-35, the Options of TreeRegion). *)
LEMMA NilIsNoNode == ASSUME NEW S PROVE Nil \notin Nodes(S)
BY DEF Nil, Nodes

(* A tree of few levels is one of more levels. *)
LEMMA TreesGrow ==
  \A n \in Nat : \A m \in Nat : n <= m => Trees[n] \subseteq Trees[m]
<1> DEFINE T == {n \in Nat : \A m \in Nat : n <= m => Trees[n] \subseteq Trees[m]}
<1>1. ASSUME NEW n \in Nat, \A k \in Nat : k < n => k \in T
      PROVE  n \in T
  <2> SUFFICES ASSUME NEW m \in Nat, n <= m PROVE Trees[n] \subseteq Trees[m]
    OBVIOUS
  <2>1. CASE n = 0
    BY <2>1, TreesUnfolded
  <2>2. CASE n > 0
    <3>1. n - 1 \in Nat /\ m - 1 \in Nat /\ n - 1 < n /\ n - 1 <= m - 1 /\ m # 0 /\ n # 0
      BY <2>2
    <3>2. n - 1 \in T
      <4> HIDE DEF T
      <4> QED
        BY <1>1, <3>1
    <3>3. Trees[n - 1] \subseteq Trees[m - 1]
      BY <3>1, <3>2
    <3>4. Trees[n] = {Nil} \cup Nodes(Trees[n - 1]) /\ Trees[m] = {Nil} \cup Nodes(Trees[m - 1])
      BY <3>1, TreesUnfolded
    <3>5. Nodes(Trees[n - 1]) \subseteq Nodes(Trees[m - 1])
      BY <3>3 DEF Nodes
    <3> QED
      BY <3>4, <3>5
  <2> QED
    BY <2>1, <2>2
<1>2. \A n \in Nat : n \in T
  <2> HIDE DEF T
  <2> QED
    BY <1>1, Inductive
<1> QED
  BY <1>2

(* A tree that is not None is a node of two trees with one level less. *)
LEMMA TreeCases ==
  ASSUME NEW n \in Nat, NEW t \in Trees[n], t # Nil
  PROVE  /\ n # 0 /\ n - 1 \in Nat
         /\ t \in Nodes(Trees[n - 1])
         /\ t.left \in Trees[n - 1] /\ t.right \in Trees[n - 1]
<1>1. n # 0 /\ t \in Nodes(Trees[n - 1])
  BY TreesUnfolded
<1> QED
  BY <1>1 DEF Nodes

(* With more subtrees there are more nodes. *)
LEMMA NodesGrow == ASSUME NEW S, NEW T, S \subseteq T PROVE Nodes(S) \subseteq Nodes(T)
BY DEF Nodes

(* A tree is None or a node the children of which are trees. *)
LEMMA AnyTreeIs == AnyTree = {Nil} \cup AnyNode
<1>1. ASSUME NEW t \in AnyTree, t # Nil PROVE t \in AnyNode
  <2>1. PICK n \in Nat : t \in Trees[n]
    BY DEF AnyTree
  <2>2. n - 1 \in Nat /\ t \in Nodes(Trees[n - 1])
    BY <1>1, <2>1, TreeCases
  <2>3. Trees[n - 1] \subseteq AnyTree
    BY <2>2 DEF AnyTree
  <2> QED
    BY <2>2, <2>3, NodesGrow DEF AnyNode
<1>2. Nil \in AnyTree
  BY TreesUnfolded DEF AnyTree
<1>3. ASSUME NEW t \in AnyNode PROVE t \in AnyTree
  <2>1. t.left \in AnyTree /\ t.right \in AnyTree
    BY <1>3 DEF AnyNode, Nodes
  <2>2. PICK m \in Nat, n \in Nat : t.left \in Trees[m] /\ t.right \in Trees[n]
    BY <2>1 DEF AnyTree
  <2>3. PICK k \in Nat : m <= k /\ n <= k
    OBVIOUS
  <2>4. t.left \in Trees[k] /\ t.right \in Trees[k]
    BY <2>2, <2>3, TreesGrow
  <2>5. t \in Nodes(Trees[k])
    BY <1>3, <2>4 DEF AnyNode, Nodes
  <2>6. k + 1 \in Nat /\ k + 1 # 0 /\ (k + 1) - 1 = k
    OBVIOUS
  <2>7. t \in Trees[k + 1]
    BY <2>5, <2>6, TreesUnfolded
  <2> QED
    BY <2>6, <2>7 DEF AnyTree
<1> QED
  BY <1>1, <1>2, <1>3

(* The parts of a node. *)
LEMMA NodeParts ==
  ASSUME NEW t \in AnyTree, t # Nil
  PROVE  /\ t \in AnyNode
         /\ t.left \in AnyTree /\ t.right \in AnyTree
         /\ t.base \in Nat /\ t.size \in Nat /\ t.max_size \in Nat /\ t.red \in BOOLEAN
<1>1. t \in AnyNode
  BY AnyTreeIs
<1> QED
  BY <1>1 DEF AnyNode, Nodes

(* The levels of a tree.                                                   *)
Depth == [t \in AnyTree |-> CHOOSE n \in Nat : t \in Trees[n] /\ \A k \in Nat : t \in Trees[k] => n <= k]

(* The least number of levels that a tree is in. *)
LEMMA DepthIs ==
  ASSUME NEW t \in AnyTree
  PROVE  Depth[t] \in Nat /\ t \in Trees[Depth[t]] /\ \A k \in Nat : t \in Trees[k] => Depth[t] <= k
<1> DEFINE T == {n \in Nat : t \in Trees[n]}
<1>1. \E n \in Nat : t \in Trees[n] /\ \A k \in Nat : t \in Trees[k] => n <= k
  <2>1. T \subseteq Nat /\ T # {}
    BY DEF AnyTree
  <2> HIDE DEF T
  <2>2. PICK n \in T : \A k \in T : n <= k
    BY <2>1, LeastNumber
  <2> USE DEF T
  <2> QED
    BY <2>2
<1> QED
  BY <1>1 DEF Depth

(* Every tree has finitely many levels. *)
LEMMA DepthType == Depth \in [AnyTree -> Nat]
<1>1. \A t \in AnyTree : Depth[t] \in Nat
  BY DepthIs
<1>2. Depth = [t \in AnyTree |-> Depth[t]]
  BY DEF Depth
<1> HIDE DEF Depth
<1> QED
  BY <1>1, <1>2

(* A child has fewer levels than its parent: recursion on the children     *)
(* ends.                                                                   *)
LEMMA DepthOfChildren ==
  ASSUME NEW t \in AnyTree, t # Nil
  PROVE  Depth[t.left] < Depth[t] /\ Depth[t.right] < Depth[t]
<1>1. Depth[t] \in Nat /\ t \in Trees[Depth[t]]
  BY DepthIs
<1>2. Depth[t] - 1 \in Nat /\ t.left \in Trees[Depth[t] - 1] /\ t.right \in Trees[Depth[t] - 1]
  BY <1>1, TreeCases
<1>3. t.left \in AnyTree /\ t.right \in AnyTree
  BY NodeParts
<1>4. Depth[t.left] <= Depth[t] - 1 /\ Depth[t.right] <= Depth[t] - 1
  BY <1>2, <1>3, DepthIs
<1> QED
  BY <1>1, <1>3, <1>4, DepthIs

(* Induction on trees, in the form of a set: a property of None that a     *)
(* node has when its children have it is one of every tree.                *)
LEMMA TreeInduction ==
  ASSUME NEW P, Nil \in P,
         \A t \in AnyNode : t.left \in P /\ t.right \in P => t \in P
  PROVE  AnyTree \subseteq P
<1> DEFINE T == {n \in Nat : \A t \in AnyTree : Depth[t] = n => t \in P}
<1>1. ASSUME NEW n \in Nat, \A k \in Nat : k < n => k \in T
      PROVE  n \in T
  <2> SUFFICES ASSUME NEW t \in AnyTree, Depth[t] = n, t # Nil PROVE t \in P
    OBVIOUS
  <2>1. t \in AnyNode /\ t.left \in AnyTree /\ t.right \in AnyTree
    BY NodeParts
  <2>2. Depth[t.left] \in Nat /\ Depth[t.right] \in Nat /\ Depth[t.left] < n /\ Depth[t.right] < n
    BY <2>1, DepthOfChildren, DepthIs
  <2>3. t.left \in P /\ t.right \in P
    BY <1>1, <2>1, <2>2
  <2> QED
    BY <2>1, <2>3
<1>2. \A n \in Nat : n \in T
  <2> HIDE DEF T
  <2> QED
    BY <1>1, Inductive
<1> QED
  BY <1>2, DepthIs

(* A set of trees with their subtrees.                                     *)
Closed(S) == S \subseteq AnyTree /\ \A t \in S : t # Nil => t.left \in S /\ t.right \in S

(* The set of all trees, and that of the trees of n levels, hold the       *)
(* subtrees of their elements.                                             *)
LEMMA TreesClosed == Closed(AnyTree) /\ \A n \in Nat : Closed(Trees[n])
<1>1. Closed(AnyTree)
  BY NodeParts DEF Closed
<1>2. ASSUME NEW n \in Nat PROVE Closed(Trees[n])
  <2>1. Trees[n] \subseteq AnyTree
    BY DEF AnyTree
  <2>2. ASSUME NEW t \in Trees[n], t # Nil PROVE t.left \in Trees[n] /\ t.right \in Trees[n]
    <3>1. n - 1 \in Nat /\ n - 1 <= n /\ t.left \in Trees[n - 1] /\ t.right \in Trees[n - 1]
      BY <2>2, TreeCases
    <3> QED
      BY <3>1, TreesGrow
  <2> QED
    BY <2>1, <2>2 DEF Closed
<1> QED
  BY <1>1, <1>2

(* A function may be defined by what it is on the parts of a node.         *)
Folds(f, S, v, E) ==
  \A t \in S : f[t] = IF t = Nil THEN v ELSE E[<<t, f[t.left], f[t.right]>>]

FoldExists(S, V, v, E) == \E f \in [S -> V] : Folds(f, S, v, E)

(* A function on trees may be defined by recursion on the children. *)
LEMMA StructuralRecursion ==
  ASSUME NEW S, Closed(S), NEW V, NEW v \in V, NEW E \in [S \X V \X V -> V]
  PROVE  FoldExists(S, V, v, E)
<1> DEFINE D == [p \in S \X [S -> V] |->
                   IF p[1] = Nil THEN v ELSE E[<<p[1], p[2][p[1].left], p[2][p[1].right]>>]]
           m == [t \in S |-> Depth[t]]
<1>1. S \subseteq AnyTree /\ \A t \in S : t # Nil => t.left \in S /\ t.right \in S
  BY DEF Closed
<1>2. m \in [S -> Nat]
  BY <1>1, DepthType
<1>3. ASSUME NEW t \in S, NEW f \in [S -> V]
      PROVE  /\ D[<<t, f>>] = IF t = Nil THEN v ELSE E[<<t, f[t.left], f[t.right]>>]
             /\ D[<<t, f>>] \in V
  <2>1. D[<<t, f>>] = IF t = Nil THEN v ELSE E[<<t, f[t.left], f[t.right]>>]
    OBVIOUS
  <2> HIDE DEF D
  <2>2. CASE t = Nil
    BY <2>1, <2>2
  <2>3. CASE t # Nil
    <3>1. f[t.left] \in V /\ f[t.right] \in V
      BY <1>1, <2>3
    <3>2. E[<<t, f[t.left], f[t.right]>>] \in V
      BY <3>1
    <3> QED
      BY <2>1, <2>3, <3>2
  <2> QED
    BY <2>1, <2>2, <2>3
<1>4. D \in [S \X [S -> V] -> V]
  <2>1. \A p \in S \X [S -> V] : D[p] \in V
    <3> SUFFICES ASSUME NEW p \in S \X [S -> V] PROVE D[p] \in V
      OBVIOUS
    <3>1. p = <<p[1], p[2]>> /\ p[1] \in S /\ p[2] \in [S -> V]
      OBVIOUS
    <3> HIDE DEF D
    <3> QED
      BY <1>3, <3>1
  <2>2. D = [p \in S \X [S -> V] |-> D[p]]
    OBVIOUS
  <2> HIDE DEF D
  <2> QED
    BY <2>1, <2>2
<1> HIDE DEF D
<1>5. Local(S, V, D, m)
  <2> SUFFICES ASSUME NEW t \in S, NEW f \in [S -> V], NEW g \in [S -> V],
                      \A y \in S : m[y] < m[t] => f[y] = g[y]
               PROVE  D[<<t, f>>] = D[<<t, g>>]
    BY DEF Local
  <2>1. CASE t = Nil
    BY <1>3, <2>1
  <2>2. CASE t # Nil
    <3>1. t.left \in S /\ t.right \in S /\ m[t.left] < m[t] /\ m[t.right] < m[t]
      BY <1>1, <2>2, DepthOfChildren
    <3>2. f[t.left] = g[t.left] /\ f[t.right] = g[t.right]
      BY <3>1
    <3> QED
      BY <1>3, <2>2, <3>2
  <2> QED
    BY <2>1, <2>2
<1>6. V # {} /\ Recursion(S, V, D, m)
  BY <1>2, <1>4, <1>5 DEF Recursion
<1> HIDE DEF m
<1>7. PICK f \in [S -> V] : \A t \in S : f[t] = D[<<t, f>>]
  <2>1. Solvable(S, V, D)
    BY <1>6, RecursionExists
  <2> QED
    BY <2>1 DEF Solvable
<1> QED
  BY <1>3, <1>7 DEF FoldExists, Folds

-----------------------------------------------------------------------------
(***************************************************************************)
(* Reference definitions for all trees, and the elementary steps part by   *)
(* part.                                                                   *)
(***************************************************************************)

(* What the reference definitions of LLRB say, for all trees.              *)
NodesOf == CHOOSE f \in [AnyTree -> SUBSET AnyNode] :
  \A t \in AnyTree : f[t] = IF t = Nil THEN {} ELSE {t} \cup f[t.left] \cup f[t.right]

Count == CHOOSE f \in [AnyTree -> Nat] :
  \A t \in AnyTree : f[t] = IF t = Nil THEN 0 ELSE f[t.left] + 1 + f[t.right]

(* The number of black nodes on every path, or -1: the paths differ, a red *)
(* link leans right, or a red node has a red child.                        *)
HeightAbove(t, l, r) ==
  IF l = r /\ l >= 0 /\ ~IsRed(t.right) /\ ~(t.red /\ IsRed(t.left))
  THEN l + (IF t.red THEN 0 ELSE 1)
  ELSE -1

Height == CHOOSE f \in [AnyTree -> Int] :
  \A t \in AnyTree : f[t] = IF t = Nil THEN 0 ELSE HeightAbove(t, f[t.left], f[t.right])

(* The nodes of a tree, unfolded once. *)
LEMMA NodesOfIs ==
  /\ NodesOf \in [AnyTree -> SUBSET AnyNode]
  /\ NodesOf[Nil] = {}
  /\ \A t \in AnyTree : t # Nil => NodesOf[t] = {t} \cup NodesOf[t.left] \cup NodesOf[t.right]
<1> DEFINE V == SUBSET AnyNode
           E == [p \in AnyTree \X V \X V |-> (IF p[1] = Nil THEN {} ELSE {p[1]}) \cup p[2] \cup p[3]]
           Is(f) == \A t \in AnyTree : f[t] = IF t = Nil THEN {} ELSE {t} \cup f[t.left] \cup f[t.right]
<1>1. E \in [AnyTree \X V \X V -> V]
  BY AnyTreeIs
<1>2. Closed(AnyTree) /\ {} \in V
  BY TreesClosed
<1>3. \A t \in AnyTree, a \in V, b \in V : t # Nil => E[<<t, a, b>>] = {t} \cup a \cup b
  OBVIOUS
<1> HIDE DEF E, V
<1>4. FoldExists(AnyTree, V, {}, E)
  BY <1>1, <1>2, StructuralRecursion
<1>5. PICK f \in [AnyTree -> V] : Folds(f, AnyTree, {}, E)
  BY <1>4 DEF FoldExists
<1>6. Is(f)
  <2> SUFFICES ASSUME NEW t \in AnyTree
               PROVE  f[t] = IF t = Nil THEN {} ELSE {t} \cup f[t.left] \cup f[t.right]
    OBVIOUS
  <2>1. CASE t = Nil
    BY <1>5, <2>1 DEF Folds
  <2>2. CASE t # Nil
    <3>1. t.left \in AnyTree /\ t.right \in AnyTree
      BY <2>2, NodeParts
    <3>2. f[t] = E[<<t, f[t.left], f[t.right]>>]
      BY <1>5, <2>2 DEF Folds
    <3> QED
      BY <1>3, <2>2, <3>1, <3>2
  <2> QED
    BY <2>1, <2>2
<1> HIDE DEF Is
<1>7. NodesOf \in [AnyTree -> V] /\ Is(NodesOf)
  BY <1>6 DEF NodesOf, V, Is
<1> QED
  BY <1>7, AnyTreeIs DEF V, Is

(* The number of nodes of a tree, unfolded once. *)
LEMMA CountIs ==
  /\ Count \in [AnyTree -> Nat]
  /\ Count[Nil] = 0
  /\ \A t \in AnyTree : t # Nil => Count[t] = Count[t.left] + 1 + Count[t.right]
<1> DEFINE E == [p \in AnyTree \X Nat \X Nat |-> p[2] + 1 + p[3]]
           Is(f) == \A t \in AnyTree : f[t] = IF t = Nil THEN 0 ELSE f[t.left] + 1 + f[t.right]
<1>1. E \in [AnyTree \X Nat \X Nat -> Nat]
  OBVIOUS
<1>2. Closed(AnyTree)
  BY TreesClosed
<1>3. \A t \in AnyTree, a \in Nat, b \in Nat : E[<<t, a, b>>] = a + 1 + b
  OBVIOUS
<1> HIDE DEF E
<1>4. FoldExists(AnyTree, Nat, 0, E)
  BY <1>1, <1>2, StructuralRecursion
<1>5. PICK f \in [AnyTree -> Nat] : Folds(f, AnyTree, 0, E)
  BY <1>4 DEF FoldExists
<1>6. Is(f)
  <2> SUFFICES ASSUME NEW t \in AnyTree
               PROVE  f[t] = IF t = Nil THEN 0 ELSE f[t.left] + 1 + f[t.right]
    OBVIOUS
  <2>1. CASE t = Nil
    BY <1>5, <2>1 DEF Folds
  <2>2. CASE t # Nil
    <3>1. t.left \in AnyTree /\ t.right \in AnyTree
      BY <2>2, NodeParts
    <3>2. f[t] = E[<<t, f[t.left], f[t.right]>>]
      BY <1>5, <2>2 DEF Folds
    <3> QED
      BY <1>3, <2>2, <3>1, <3>2
  <2> QED
    BY <2>1, <2>2
<1> HIDE DEF Is
<1>7. Count \in [AnyTree -> Nat] /\ Is(Count)
  BY <1>6 DEF Count, Is
<1> QED
  BY <1>7, AnyTreeIs DEF Is

(* The height of a tree, unfolded once. *)
LEMMA HeightIs ==
  /\ Height \in [AnyTree -> Int]
  /\ Height[Nil] = 0
  /\ \A t \in AnyTree : t # Nil => Height[t] = HeightAbove(t, Height[t.left], Height[t.right])
<1> DEFINE E == [p \in AnyTree \X Int \X Int |-> HeightAbove(p[1], p[2], p[3])]
           Is(f) == \A t \in AnyTree : f[t] = IF t = Nil THEN 0 ELSE HeightAbove(t, f[t.left], f[t.right])
<1>1. E \in [AnyTree \X Int \X Int -> Int]
  BY DEF HeightAbove
<1>2. Closed(AnyTree)
  BY TreesClosed
<1>3. \A t \in AnyTree, a \in Int, b \in Int : E[<<t, a, b>>] = HeightAbove(t, a, b)
  OBVIOUS
<1> HIDE DEF E
<1>4. FoldExists(AnyTree, Int, 0, E)
  BY <1>1, <1>2, StructuralRecursion
<1>5. PICK f \in [AnyTree -> Int] : Folds(f, AnyTree, 0, E)
  BY <1>4 DEF FoldExists
<1>6. Is(f)
  <2> SUFFICES ASSUME NEW t \in AnyTree
               PROVE  f[t] = IF t = Nil THEN 0 ELSE HeightAbove(t, f[t.left], f[t.right])
    OBVIOUS
  <2>1. CASE t = Nil
    BY <1>5, <2>1 DEF Folds
  <2>2. CASE t # Nil
    <3>1. t.left \in AnyTree /\ t.right \in AnyTree
      BY <2>2, NodeParts
    <3>2. f[t] = E[<<t, f[t.left], f[t.right]>>]
      BY <1>5, <2>2 DEF Folds
    <3> QED
      BY <1>3, <2>2, <3>1, <3>2
  <2> QED
    BY <2>1, <2>2
<1> HIDE DEF Is
<1>7. Height \in [AnyTree -> Int] /\ Is(Height)
  BY <1>6 DEF Height, Is
<1> QED
  BY <1>7, AnyTreeIs DEF Is
-----------------------------------------------------------------------------
(* What a tree holds: its regions, in order, with exact largest sizes.     *)
Regs(t) == {RegionOf(n) : n \in NodesOf[t]}

InOrder(t) ==
  \A n \in NodesOf[t] :
    /\ \A l \in NodesOf[n.left] : l.base < n.base
    /\ \A r \in NodesOf[n.right] : n.base < r.base

Largest(t) == Max2(t.size, Max2(MaxSize(t.left), MaxSize(t.right)))

Exact(t) == \A n \in NodesOf[t] : n.max_size = Largest(n)

(* What holds of a node in terms of its children. *)
LEMMA NodeIs ==
  ASSUME NEW t \in AnyTree, t # Nil
  PROVE  /\ Regs(t) = {RegionOf(t)} \cup Regs(t.left) \cup Regs(t.right)
         /\ InOrder(t) <=> /\ InOrder(t.left) /\ InOrder(t.right)
                           /\ \A r \in Regs(t.left) : r.base < t.base
                           /\ \A r \in Regs(t.right) : t.base < r.base
         /\ Exact(t) <=> t.max_size = Largest(t) /\ Exact(t.left) /\ Exact(t.right)
         /\ Count[t] = Count[t.left] + 1 + Count[t.right]
         /\ Height[t] = HeightAbove(t, Height[t.left], Height[t.right])
<1>1. NodesOf[t] = {t} \cup NodesOf[t.left] \cup NodesOf[t.right]
  BY NodesOfIs
<1>2. Regs(t) = {RegionOf(t)} \cup Regs(t.left) \cup Regs(t.right)
  BY <1>1 DEF Regs
<1>3. InOrder(t) <=> /\ InOrder(t.left) /\ InOrder(t.right)
                     /\ \A l \in NodesOf[t.left] : l.base < t.base
                     /\ \A r \in NodesOf[t.right] : t.base < r.base
  BY <1>1 DEF InOrder
<1>4. ASSUME NEW u
      PROVE  /\ (\A l \in NodesOf[u] : l.base < t.base) <=> (\A r \in Regs(u) : r.base < t.base)
             /\ (\A l \in NodesOf[u] : t.base < l.base) <=> (\A r \in Regs(u) : t.base < r.base)
  <2>1. \A n : RegionOf(n).base = n.base
    BY DEF RegionOf
  <2>2. \A n \in NodesOf[u] : RegionOf(n) \in Regs(u)
    BY DEF Regs
  <2>3. \A r \in Regs(u) : \E n \in NodesOf[u] : r = RegionOf(n)
    BY DEF Regs
  <2> QED
    BY ONLY <2>1, <2>2, <2>3
<1>5. Exact(t) <=> t.max_size = Largest(t) /\ Exact(t.left) /\ Exact(t.right)
  BY <1>1 DEF Exact
<1> QED
  BY <1>2, <1>3, <1>4, <1>5, CountIs, HeightIs

(* What holds of None. *)
LEMMA NilIs ==
  /\ Nil \in AnyTree /\ Regs(Nil) = {} /\ InOrder(Nil) /\ Exact(Nil) /\ Count[Nil] = 0 /\ Height[Nil] = 0
BY AnyTreeIs, NodesOfIs, CountIs, HeightIs DEF Regs, InOrder, Exact

(* The types of what is read from a tree. *)
LEMMA TypesOf ==
  ASSUME NEW t \in AnyTree
  PROVE  /\ Count[t] \in Nat /\ Height[t] \in Int /\ MaxSize(t) \in Nat /\ IsRed(t) \in BOOLEAN
         /\ \A r \in Regs(t) : r.base \in Nat /\ r.size \in Nat
<1>1. MaxSize(t) \in Nat /\ IsRed(t) \in BOOLEAN
  BY NodeParts DEF MaxSize, IsRed
<1>2. NodesOf[t] \subseteq AnyNode
  BY NodesOfIs
<1>3. \A n \in AnyNode : n.base \in Nat /\ n.size \in Nat
  BY DEF AnyNode, Nodes
<1>4. \A r \in Regs(t) : r.base \in Nat /\ r.size \in Nat
  BY <1>2, <1>3 DEF Regs, RegionOf
<1> QED
  BY <1>1, <1>4, CountIs, HeightIs

-----------------------------------------------------------------------------
(* The parts of what the elementary steps build.                           *)
IsNode(t) == t \in AnyTree /\ t # Nil

SameNode(t, u) == t.base = u.base /\ t.size = u.size

(* update_max_size writes max_size and nothing else                        *)
(* (tree_alloc.rs:131-140).                                                *)
LEMMA UpdateParts ==
  ASSUME NEW h, IsNode(h)
  PROVE  LET u == UpdateMaxSize(h) IN
         /\ IsNode(u) /\ SameNode(u, h) /\ u.red = h.red /\ u.left = h.left /\ u.right = h.right
         /\ u.max_size = Largest(u) /\ Largest(u) = Largest(h)
<1>1. h \in AnyNode /\ h.left \in AnyTree /\ h.right \in AnyTree
  BY NodeParts DEF IsNode
<1>2. Largest(h) \in Nat
  BY <1>1, TypesOf, NodeParts DEF Largest, Max2, IsNode
<1> DEFINE u == UpdateMaxSize(h)
<1>3. u = [h EXCEPT !.max_size = Largest(h)]
  BY DEF UpdateMaxSize, Largest
<1>4. u \in AnyNode
  BY <1>1, <1>2, <1>3 DEF AnyNode, Nodes
<1>5. IsNode(u)
  BY <1>4, AnyTreeIs, NilIsNoNode DEF IsNode, AnyNode
<1>6. u.base = h.base /\ u.size = h.size /\ u.red = h.red /\ u.left = h.left /\ u.right = h.right /\ u.max_size = Largest(h)
  BY <1>1, <1>3 DEF AnyNode, Nodes
<1>7. Largest(u) = Largest(h)
  BY <1>6 DEF Largest
<1> QED
  BY <1>5, <1>6, <1>7 DEF SameNode

(* A node is a tree that is not None. *)
LEMMA NodeOrNot == \A u : IsNode(u) <=> u \in AnyNode
BY AnyTreeIs, NilIsNoNode DEF IsNode, AnyNode

(* A node with another child is a node. *)
LEMMA NodeWithChild ==
  ASSUME NEW h, IsNode(h), NEW l \in AnyTree
  PROVE  IsNode([h EXCEPT !.left = l]) /\ IsNode([h EXCEPT !.right = l])
BY NodeOrNot DEF AnyNode, Nodes

(* rotate_left, part by part (tree_alloc.rs:142-151). *)
LEMMA RotateLeftParts ==
  ASSUME NEW h, IsNode(h), h.right # Nil
  PROVE  LET u == RotateLeft(h) IN
         /\ IsNode(u) /\ IsNode(u.left) /\ SameNode(u, h.right) /\ SameNode(u.left, h)
         /\ u.red = h.red /\ u.left.red = TRUE
         /\ u.left.left = h.left /\ u.left.right = h.right.left /\ u.right = h.right.right
         /\ u.max_size = Largest(u) /\ u.left.max_size = Largest(u.left)
<1> DEFINE x == h.right
           d == [h EXCEPT !.right = x.left, !.red = TRUE]
           down == UpdateMaxSize(d)
           e == [x EXCEPT !.left = down, !.red = h.red]
           u == UpdateMaxSize(e)
<1>1. IsNode(x) /\ h.red \in BOOLEAN /\ x.left \in AnyTree
  BY NodeParts DEF IsNode
<1>2. IsNode(d)
  BY <1>1, NodeOrNot DEF AnyNode, Nodes
<1>3. d.right = x.left /\ d.red = TRUE /\ d.left = h.left /\ d.base = h.base /\ d.size = h.size
  BY NodeParts DEF IsNode, AnyNode, Nodes
<1> HIDE DEF d
<1>4. IsNode(down) /\ SameNode(down, d) /\ down.red = d.red /\ down.left = d.left /\ down.right = d.right
      /\ down.max_size = Largest(down)
  BY <1>2, UpdateParts
<1> HIDE DEF down
<1>5. IsNode(e)
  <2>1. x \in AnyNode /\ down \in AnyTree
    BY <1>1, <1>4, NodeOrNot DEF IsNode
  <2> HIDE DEF x
  <2>2. e \in AnyNode
    BY <1>1, <2>1 DEF AnyNode, Nodes
  <2> QED
    BY <2>2, NodeOrNot
<1>6. e.right = x.right /\ e.red = h.red /\ e.left = down /\ e.base = x.base /\ e.size = x.size
  BY <1>1, NodeParts DEF IsNode, AnyNode, Nodes
<1> HIDE DEF e
<1>7. IsNode(u) /\ SameNode(u, e) /\ u.red = e.red /\ u.left = e.left /\ u.right = e.right
      /\ u.max_size = Largest(u)
  BY <1>5, UpdateParts
<1> HIDE DEF u
<1>8. u = RotateLeft(h)
  BY DEF RotateLeft, u, e, down, d
<1> HIDE DEF x
<1>9. /\ IsNode(u) /\ IsNode(u.left) /\ SameNode(u, x) /\ SameNode(u.left, h)
      /\ u.red = h.red /\ u.left.red = TRUE
      /\ u.left.left = h.left /\ u.left.right = x.left /\ u.right = x.right
      /\ u.max_size = Largest(u) /\ u.left.max_size = Largest(u.left)
  BY <1>3, <1>4, <1>6, <1>7 DEF SameNode
<1> QED
  BY <1>8, <1>9 DEF x

(* rotate_right, part by part (tree_alloc.rs:153-162). *)
LEMMA RotateRightParts ==
  ASSUME NEW h, IsNode(h), h.left # Nil
  PROVE  LET u == RotateRight(h) IN
         /\ IsNode(u) /\ IsNode(u.right) /\ SameNode(u, h.left) /\ SameNode(u.right, h)
         /\ u.red = h.red /\ u.right.red = TRUE
         /\ u.right.right = h.right /\ u.right.left = h.left.right /\ u.left = h.left.left
         /\ u.max_size = Largest(u) /\ u.right.max_size = Largest(u.right)
<1> DEFINE x == h.left
           d == [h EXCEPT !.left = x.right, !.red = TRUE]
           down == UpdateMaxSize(d)
           e == [x EXCEPT !.right = down, !.red = h.red]
           u == UpdateMaxSize(e)
<1>1. IsNode(x) /\ h.red \in BOOLEAN /\ x.right \in AnyTree
  BY NodeParts DEF IsNode
<1>2. IsNode(d)
  BY <1>1, NodeOrNot DEF AnyNode, Nodes
<1>3. d.left = x.right /\ d.red = TRUE /\ d.right = h.right /\ d.base = h.base /\ d.size = h.size
  BY NodeParts DEF IsNode, AnyNode, Nodes
<1> HIDE DEF d
<1>4. IsNode(down) /\ SameNode(down, d) /\ down.red = d.red /\ down.left = d.left /\ down.right = d.right
      /\ down.max_size = Largest(down)
  BY <1>2, UpdateParts
<1> HIDE DEF down
<1>5. IsNode(e)
  <2>1. x \in AnyNode /\ down \in AnyTree
    BY <1>1, <1>4, NodeOrNot DEF IsNode
  <2> HIDE DEF x
  <2>2. e \in AnyNode
    BY <1>1, <2>1 DEF AnyNode, Nodes
  <2> QED
    BY <2>2, NodeOrNot
<1>6. e.left = x.left /\ e.red = h.red /\ e.right = down /\ e.base = x.base /\ e.size = x.size
  BY <1>1, NodeParts DEF IsNode, AnyNode, Nodes
<1> HIDE DEF e
<1>7. IsNode(u) /\ SameNode(u, e) /\ u.red = e.red /\ u.left = e.left /\ u.right = e.right
      /\ u.max_size = Largest(u)
  BY <1>5, UpdateParts
<1> HIDE DEF u
<1>8. u = RotateRight(h)
  BY DEF RotateRight, u, e, down, d
<1> HIDE DEF x
<1>9. /\ IsNode(u) /\ IsNode(u.right) /\ SameNode(u, x) /\ SameNode(u.right, h)
      /\ u.red = h.red /\ u.right.red = TRUE
      /\ u.right.right = h.right /\ u.right.left = x.right /\ u.left = x.left
      /\ u.max_size = Largest(u) /\ u.right.max_size = Largest(u.right)
  BY <1>3, <1>4, <1>6, <1>7 DEF SameNode
<1> QED
  BY <1>8, <1>9 DEF x

-----------------------------------------------------------------------------
(***************************************************************************)
(* What the elementary steps keep: regions, order, sizes and count.        *)
(***************************************************************************)

(* A change of colour, part by part (tree_alloc.rs:216-218). *)
LEMMA PaintParts ==
  ASSUME NEW t \in AnyTree, NEW c \in BOOLEAN
  PROVE  LET u == Paint(t, c) IN
         /\ u \in AnyTree /\ (u = Nil <=> t = Nil) /\ MaxSize(u) = MaxSize(t)
         /\ t # Nil => /\ IsNode(u) /\ SameNode(u, t) /\ u.red = c
                       /\ u.left = t.left /\ u.right = t.right /\ u.max_size = t.max_size
<1> DEFINE u == Paint(t, c)
<1>1. CASE t = Nil
  BY <1>1 DEF Paint
<1>2. CASE t # Nil
  <2>1. u = [t EXCEPT !.red = c]
    BY <1>2 DEF Paint
  <2>2. IsNode(u)
    BY <1>2, <2>1, NodeOrNot DEF IsNode, AnyNode, Nodes
  <2>3. /\ u.base = t.base /\ u.size = t.size /\ u.red = c
        /\ u.left = t.left /\ u.right = t.right /\ u.max_size = t.max_size
    BY <1>2, <2>1, NodeParts DEF AnyNode, Nodes
  <2> QED
    BY <1>2, <2>2, <2>3 DEF IsNode, SameNode, MaxSize
<1> QED
  BY <1>1, <1>2

(* What a node holds depends on its key, its size, its children and its    *)
(* max_size only, never on its colour.                                     *)
LEMMA SameParts ==
  ASSUME NEW t, IsNode(t), NEW u, IsNode(u), SameNode(t, u), t.left = u.left, t.right = u.right
  PROVE  /\ Regs(t) = Regs(u) /\ Count[t] = Count[u] /\ (InOrder(t) <=> InOrder(u))
         /\ t.max_size = u.max_size => (Exact(t) <=> Exact(u))
<1>1. RegionOf(t) = RegionOf(u) /\ Largest(t) = Largest(u)
  BY DEF RegionOf, Largest, SameNode
<1> QED
  BY <1>1, NodeIs DEF IsNode, SameNode

(* A change of colour keeps what the tree holds (tree_alloc.rs:216-218). *)
LEMMA PaintKeeps ==
  ASSUME NEW t \in AnyTree, NEW c \in BOOLEAN
  PROVE  LET u == Paint(t, c) IN
         Regs(u) = Regs(t) /\ Count[u] = Count[t] /\ (InOrder(u) <=> InOrder(t)) /\ (Exact(u) <=> Exact(t))
<1>1. CASE t = Nil
  BY <1>1 DEF Paint
<1>2. CASE t # Nil
  BY <1>2, PaintParts, SameParts DEF IsNode
<1> QED
  BY <1>1, <1>2

(* flip_colors, part by part (tree_alloc.rs:164-181). *)
LEMMA FlipColorsParts ==
  ASSUME NEW h, IsNode(h)
  PROVE  LET u == FlipColors(h) IN
         /\ IsNode(u) /\ SameNode(u, h) /\ u.red = ~h.red /\ u.max_size = h.max_size
         /\ u.left = Flip(h.left) /\ u.right = Flip(h.right)
<1>1. h.left \in AnyTree /\ h.right \in AnyTree /\ h.red \in BOOLEAN
  BY NodeParts DEF IsNode
<1>2. Flip(h.left) \in AnyTree /\ Flip(h.right) \in AnyTree
  BY <1>1, PaintParts, TypesOf DEF Flip
<1> DEFINE c == ~h.red
           l == Flip(h.left)
           r == Flip(h.right)
<1>3. FlipColors(h) = [h EXCEPT !.red = c, !.left = l, !.right = r]
  BY NodeParts DEF FlipColors, IsNode, AnyNode, Nodes
<1>4. IsNode(FlipColors(h))
  <2>1. c \in BOOLEAN
    BY <1>1
  <2> HIDE DEF c, l, r
  <2> QED
    <3>1. l \in AnyTree /\ r \in AnyTree
      BY <1>2 DEF l, r
    <3> QED
      BY <1>3, <2>1, <3>1, NodeOrNot DEF AnyNode, Nodes
<1> HIDE DEF c, l, r
<1>5. LET u == FlipColors(h) IN
      /\ u.base = h.base /\ u.size = h.size /\ u.red = c /\ u.max_size = h.max_size
      /\ u.left = l /\ u.right = r
  BY <1>3, NodeParts DEF IsNode, AnyNode, Nodes
<1> QED
  BY <1>4, <1>5 DEF c, l, r, SameNode

-----------------------------------------------------------------------------
(* Rotations and colour flips keep what the tree holds.                    *)
SubExact(t) == Exact(t.left) /\ Exact(t.right)

Keeps(h, u) ==
  /\ IsNode(u) /\ Regs(u) = Regs(h) /\ Count[u] = Count[h]
  /\ InOrder(h) => InOrder(u)
  /\ SubExact(h) => SubExact(u)

(* Steps that keep what the tree holds may be composed. *)
LEMMA KeepsTwice ==
  ASSUME NEW g, NEW h, NEW u, Keeps(g, h), Keeps(h, u)
  PROVE  Keeps(g, u)
BY DEF Keeps

(* Exact sizes are exact below the root. *)
LEMMA SubExactIf ==
  ASSUME NEW h, IsNode(h)
  PROVE  Exact(h) => SubExact(h)
BY NodeIs DEF IsNode, SubExact

(* update_max_size makes the size exact when those below are               *)
(* (tree_alloc.rs:131-140).                                                *)
LEMMA UpdateKeeps ==
  ASSUME NEW h, IsNode(h)
  PROVE  Keeps(h, UpdateMaxSize(h)) /\ (SubExact(h) => Exact(UpdateMaxSize(h)))
BY UpdateParts, SameParts, NodeIs DEF Keeps, SubExact, IsNode

(* rotate_left keeps regions, order and count, and sizes below the root    *)
(* exact (tree_alloc.rs:142-151).                                          *)
LEMMA RotateLeftKeeps ==
  ASSUME NEW h, IsNode(h), h.right # Nil
  PROVE  Keeps(h, RotateLeft(h))
<1> DEFINE x == h.right
           u == RotateLeft(h)
           d == u.left
<1>1. IsNode(x) /\ h.left \in AnyTree /\ x.left \in AnyTree /\ x.right \in AnyTree
  BY NodeParts DEF IsNode
<1>2. /\ IsNode(u) /\ IsNode(d) /\ SameNode(u, x) /\ SameNode(d, h)
      /\ d.left = h.left /\ d.right = x.left /\ u.right = x.right
      /\ d.max_size = Largest(d)
  BY RotateLeftParts
<1> HIDE DEF x, u
<1>3. RegionOf(u) = RegionOf(x) /\ RegionOf(d) = RegionOf(h)
  BY <1>2 DEF RegionOf, SameNode
<1>4. /\ Regs(h) = {RegionOf(h)} \cup Regs(h.left) \cup Regs(x)
      /\ Regs(x) = {RegionOf(x)} \cup Regs(x.left) \cup Regs(x.right)
      /\ Regs(d) = {RegionOf(h)} \cup Regs(h.left) \cup Regs(x.left)
      /\ Regs(u) = {RegionOf(x)} \cup Regs(d) \cup Regs(x.right)
  BY <1>1, <1>2, <1>3, NodeIs DEF IsNode, x
<1>5. Regs(u) = Regs(h)
  BY <1>4
<1>6. Count[u] = Count[h]
  <2>1. /\ Count[h] = Count[h.left] + 1 + Count[x]
        /\ Count[x] = Count[x.left] + 1 + Count[x.right]
        /\ Count[d] = Count[h.left] + 1 + Count[x.left]
        /\ Count[u] = Count[d] + 1 + Count[x.right]
    BY <1>1, <1>2, NodeIs DEF IsNode, x
  <2> QED
    BY <1>1, <2>1, TypesOf
<1>7. ASSUME InOrder(h) PROVE InOrder(u)
  <2>1. /\ InOrder(h.left) /\ InOrder(x)
        /\ \A r \in Regs(h.left) : r.base < h.base
        /\ \A r \in Regs(x) : h.base < r.base
    BY <1>1, <1>7, NodeIs DEF IsNode, x
  <2>2. /\ InOrder(x.left) /\ InOrder(x.right)
        /\ \A r \in Regs(x.left) : r.base < x.base
        /\ \A r \in Regs(x.right) : x.base < r.base
    BY <1>1, <2>1, NodeIs DEF IsNode
  <2>3. h.base < x.base /\ \A r \in Regs(x.left) : h.base < r.base
    <3>1. RegionOf(x).base = x.base
      BY DEF RegionOf
    <3> QED
      BY <1>4, <2>1, <3>1
  <2>4. InOrder(d)
    BY <1>2, <2>1, <2>2, <2>3, NodeIs DEF IsNode, SameNode
  <2>5. \A r \in Regs(d) : r.base < x.base
    <3>1. RegionOf(h).base = h.base
      BY DEF RegionOf
    <3>2. h.base \in Nat /\ x.base \in Nat /\ \A r \in Regs(h.left) : r.base \in Nat
      BY <1>1, NodeParts, TypesOf DEF IsNode
    <3> QED
      BY <1>4, <2>1, <2>2, <2>3, <3>1, <3>2
  <2> QED
    BY <1>2, <2>2, <2>4, <2>5, NodeIs DEF IsNode, SameNode
<1>8. ASSUME SubExact(h) PROVE SubExact(u)
  <2>1. Exact(h.left) /\ Exact(x.left) /\ Exact(x.right)
    BY <1>1, <1>8, SubExactIf DEF SubExact, x
  <2> QED
    BY <1>2, <2>1, NodeIs DEF SubExact, IsNode
<1> QED
  BY <1>2, <1>5, <1>6, <1>7, <1>8 DEF Keeps, u

(* rotate_right keeps regions, order and count, and sizes below the root   *)
(* exact (tree_alloc.rs:153-162).                                          *)
LEMMA RotateRightKeeps ==
  ASSUME NEW h, IsNode(h), h.left # Nil
  PROVE  Keeps(h, RotateRight(h))
<1> DEFINE x == h.left
           u == RotateRight(h)
           d == u.right
<1>1. IsNode(x) /\ h.right \in AnyTree /\ x.left \in AnyTree /\ x.right \in AnyTree
  BY NodeParts DEF IsNode
<1>2. /\ IsNode(u) /\ IsNode(d) /\ SameNode(u, x) /\ SameNode(d, h)
      /\ d.right = h.right /\ d.left = x.right /\ u.left = x.left
      /\ d.max_size = Largest(d)
  BY RotateRightParts
<1> HIDE DEF x, u
<1>3. RegionOf(u) = RegionOf(x) /\ RegionOf(d) = RegionOf(h)
  BY <1>2 DEF RegionOf, SameNode
<1>4. /\ Regs(h) = {RegionOf(h)} \cup Regs(x) \cup Regs(h.right)
      /\ Regs(x) = {RegionOf(x)} \cup Regs(x.left) \cup Regs(x.right)
      /\ Regs(d) = {RegionOf(h)} \cup Regs(x.right) \cup Regs(h.right)
      /\ Regs(u) = {RegionOf(x)} \cup Regs(x.left) \cup Regs(d)
  BY <1>1, <1>2, <1>3, NodeIs DEF IsNode, x
<1>5. Regs(u) = Regs(h)
  BY <1>4
<1>6. Count[u] = Count[h]
  <2>1. /\ Count[h] = Count[x] + 1 + Count[h.right]
        /\ Count[x] = Count[x.left] + 1 + Count[x.right]
        /\ Count[d] = Count[x.right] + 1 + Count[h.right]
        /\ Count[u] = Count[x.left] + 1 + Count[d]
    BY <1>1, <1>2, NodeIs DEF IsNode, x
  <2> QED
    BY <1>1, <2>1, TypesOf
<1>7. ASSUME InOrder(h) PROVE InOrder(u)
  <2>1. /\ InOrder(h.right) /\ InOrder(x)
        /\ \A r \in Regs(x) : r.base < h.base
        /\ \A r \in Regs(h.right) : h.base < r.base
    BY <1>1, <1>7, NodeIs DEF IsNode, x
  <2>2. /\ InOrder(x.left) /\ InOrder(x.right)
        /\ \A r \in Regs(x.left) : r.base < x.base
        /\ \A r \in Regs(x.right) : x.base < r.base
    BY <1>1, <2>1, NodeIs DEF IsNode
  <2>3. x.base < h.base /\ \A r \in Regs(x.right) : r.base < h.base
    <3>1. RegionOf(x).base = x.base
      BY DEF RegionOf
    <3> QED
      BY <1>4, <2>1, <3>1
  <2>4. InOrder(d)
    BY <1>2, <2>1, <2>2, <2>3, NodeIs DEF IsNode, SameNode
  <2>5. \A r \in Regs(d) : x.base < r.base
    <3>1. RegionOf(h).base = h.base
      BY DEF RegionOf
    <3>2. h.base \in Nat /\ x.base \in Nat /\ \A r \in Regs(h.right) : r.base \in Nat
      BY <1>1, NodeParts, TypesOf DEF IsNode
    <3> QED
      BY <1>4, <2>1, <2>2, <2>3, <3>1, <3>2
  <2> QED
    BY <1>2, <2>2, <2>4, <2>5, NodeIs DEF IsNode, SameNode
<1>8. ASSUME SubExact(h) PROVE SubExact(u)
  <2>1. Exact(h.right) /\ Exact(x.left) /\ Exact(x.right)
    BY <1>1, <1>8, SubExactIf DEF SubExact, x
  <2> QED
    BY <1>2, <2>1, NodeIs DEF SubExact, IsNode
<1> QED
  BY <1>2, <1>5, <1>6, <1>7, <1>8 DEF Keeps, u

(* Flipping the colour of a child keeps what it holds                      *)
(* (tree_alloc.rs:165-168).                                                *)
LEMMA FlipKeeps ==
  ASSUME NEW t \in AnyTree
  PROVE  /\ Flip(t) \in AnyTree /\ (Flip(t) = Nil <=> t = Nil) /\ MaxSize(Flip(t)) = MaxSize(t)
         /\ Regs(Flip(t)) = Regs(t) /\ Count[Flip(t)] = Count[t]
         /\ (InOrder(Flip(t)) <=> InOrder(t)) /\ (Exact(Flip(t)) <=> Exact(t))
<1>1. (~IsRed(t)) \in BOOLEAN
  BY DEF IsRed
<1> QED
  BY <1>1, PaintParts, PaintKeeps DEF Flip

(* flip_colors keeps what the tree holds (tree_alloc.rs:164-181). *)
LEMMA FlipColorsKeeps ==
  ASSUME NEW h, IsNode(h)
  PROVE  Keeps(h, FlipColors(h))
<1> DEFINE u == FlipColors(h)
<1>1. IsNode(u) /\ SameNode(u, h) /\ u.left = Flip(h.left) /\ u.right = Flip(h.right)
  BY FlipColorsParts
<1> HIDE DEF u
<1>2. h.left \in AnyTree /\ h.right \in AnyTree
  BY NodeParts DEF IsNode
<1>3. /\ Regs(u.left) = Regs(h.left) /\ Count[u.left] = Count[h.left]
      /\ (InOrder(u.left) <=> InOrder(h.left)) /\ (Exact(u.left) <=> Exact(h.left))
      /\ Regs(u.right) = Regs(h.right) /\ Count[u.right] = Count[h.right]
      /\ (InOrder(u.right) <=> InOrder(h.right)) /\ (Exact(u.right) <=> Exact(h.right))
  BY <1>1, <1>2, FlipKeeps
<1>4. RegionOf(u) = RegionOf(h)
  BY <1>1 DEF RegionOf, SameNode
<1> QED
  BY <1>1, <1>3, <1>4, NodeIs DEF Keeps, SubExact, IsNode, SameNode, u

(* Doing nothing keeps what the tree holds. *)
LEMMA KeepsItself == ASSUME NEW h, IsNode(h) PROVE Keeps(h, h)
BY DEF Keeps

(* The end of insert_node and fix_up keeps what the tree holds, and makes  *)
(* the sizes exact (tree_alloc.rs:313-320).                                *)
LEMMA SplitFoursKeeps ==
  ASSUME NEW h, IsNode(h)
  PROVE  Keeps(h, SplitFours(h)) /\ (SubExact(h) => Exact(SplitFours(h)))
<1> DEFINE h2 == IF IsRed(h.left) /\ IsRed(h.left.left) THEN RotateRight(h) ELSE h
           h3 == IF IsRed(h2.left) /\ IsRed(h2.right) THEN FlipColors(h2) ELSE h2
<1>1. Keeps(h, h2)
  BY RotateRightKeeps, KeepsItself DEF IsRed
<1> HIDE DEF h2
<1>2. Keeps(h2, h3)
  BY <1>1, FlipColorsKeeps, KeepsItself DEF Keeps
<1> HIDE DEF h3
<1>3. Keeps(h, h3)
  BY <1>1, <1>2, KeepsTwice
<1>4. Keeps(h3, UpdateMaxSize(h3)) /\ (SubExact(h3) => Exact(UpdateMaxSize(h3)))
  BY <1>2, UpdateKeeps DEF Keeps
<1>5. Keeps(h, UpdateMaxSize(h3)) /\ (SubExact(h) => SubExact(h3))
  BY <1>3, <1>4, KeepsTwice DEF Keeps
<1>6. SplitFours(h) = UpdateMaxSize(h3)
  BY DEF SplitFours, h2, h3
<1> QED
  BY <1>4, <1>5, <1>6

(* fix_up keeps what the tree holds, and makes the sizes exact             *)
(* (tree_alloc.rs:309-321).                                                *)
LEMMA FixUpKeeps ==
  ASSUME NEW h, IsNode(h)
  PROVE  Keeps(h, FixUp(h)) /\ (SubExact(h) => Exact(FixUp(h)))
<1> DEFINE g == IF IsRed(h.right) THEN RotateLeft(h) ELSE h
<1>1. Keeps(h, g)
  BY RotateLeftKeeps, KeepsItself DEF IsRed
<1> HIDE DEF g
<1>2. Keeps(g, SplitFours(g)) /\ (SubExact(g) => Exact(SplitFours(g)))
  BY <1>1, SplitFoursKeeps DEF Keeps
<1>3. Keeps(h, SplitFours(g)) /\ (SubExact(h) => SubExact(g))
  BY <1>1, <1>2, KeepsTwice DEF Keeps
<1> QED
  BY <1>2, <1>3 DEF FixUp, g

-----------------------------------------------------------------------------
(* Shapes.  A node with black or red children of the same height, named as *)
(* in the 2-3-4 tree it stands for.                                        *)
Black(t, n) == t \in AnyTree /\ Height[t] = n /\ ~IsRed(t)
Red(t, n)   == t \in AnyTree /\ Height[t] = n /\ IsRed(t)

TwoNode(t, c, n)   == IsNode(t) /\ t.red = c /\ Black(t.left, n) /\ Black(t.right, n)
ThreeNode(t, c, n) == IsNode(t) /\ t.red = c /\ Red(t.left, n)   /\ Black(t.right, n)
RightThree(t, c, n) == IsNode(t) /\ t.red = c /\ Black(t.left, n) /\ Red(t.right, n)
FourNode(t, c, n)  == IsNode(t) /\ t.red = c /\ Red(t.left, n)   /\ Red(t.right, n)
Proper(t, c, n)    == TwoNode(t, c, n) \/ ThreeNode(t, c, n)

(* A black tree is None, or a black two- or three-node one level up. *)
LEMMA BlackIs ==
  ASSUME NEW t \in AnyTree, NEW n \in Nat
  PROVE  Black(t, n) <=> \/ t = Nil /\ n = 0
                         \/ n # 0 /\ n - 1 \in Nat /\ Proper(t, FALSE, n - 1)
<1>1. CASE t = Nil
  BY <1>1, NilIs DEF Black, IsRed, Proper, TwoNode, ThreeNode, IsNode
<1>2. CASE t # Nil
  <2>1. IsNode(t) /\ t.red \in BOOLEAN /\ t.left \in AnyTree /\ t.right \in AnyTree
    BY <1>2, NodeParts DEF IsNode
  <2>2. Height[t] = HeightAbove(t, Height[t.left], Height[t.right])
    BY <1>2, NodeIs
  <2>3. Height[t.left] \in Int /\ Height[t.right] \in Int /\ IsRed(t.left) \in BOOLEAN /\ IsRed(t.right) \in BOOLEAN
    BY <2>1, TypesOf
  <2>4. IsRed(t) <=> t.red
    BY <1>2 DEF IsRed
  <2>5. CASE t.red = FALSE
    BY <1>2, <2>1, <2>2, <2>3, <2>4, <2>5 DEF Black, Red, Proper, TwoNode, ThreeNode, HeightAbove
  <2>6. CASE t.red = TRUE
    BY <1>2, <2>1, <2>2, <2>3, <2>4, <2>6 DEF Black, Red, Proper, TwoNode, ThreeNode, HeightAbove
  <2> QED
    BY <2>1, <2>5, <2>6
<1> QED
  BY <1>1, <1>2

(* A red tree is a red two-node. *)
LEMMA RedIs ==
  ASSUME NEW t \in AnyTree, NEW n \in Nat
  PROVE  Red(t, n) <=> TwoNode(t, TRUE, n)
<1>1. CASE t = Nil
  BY <1>1, NilIs DEF Red, IsRed, TwoNode, IsNode
<1>2. CASE t # Nil
  <2>1. IsNode(t) /\ t.red \in BOOLEAN /\ t.left \in AnyTree /\ t.right \in AnyTree
    BY <1>2, NodeParts DEF IsNode
  <2>2. Height[t] = HeightAbove(t, Height[t.left], Height[t.right])
    BY <1>2, NodeIs
  <2>3. Height[t.left] \in Int /\ Height[t.right] \in Int /\ IsRed(t.left) \in BOOLEAN /\ IsRed(t.right) \in BOOLEAN
    BY <2>1, TypesOf
  <2>4. IsRed(t) <=> t.red
    BY <1>2 DEF IsRed
  <2> QED
    BY <1>2, <2>1, <2>2, <2>3, <2>4 DEF Black, Red, TwoNode, HeightAbove
<1> QED
  BY <1>1, <1>2

-----------------------------------------------------------------------------
(***************************************************************************)
(* What SplitFours and FixUp make of the shapes of a 2-3-4 tree.           *)
(***************************************************************************)

(* The shape is a matter of the colour and of the children. *)
LEMMA SameShape ==
  ASSUME NEW t, NEW u, IsNode(u), t.left = u.left, t.right = u.right, NEW n
  PROVE  /\ TwoNode(t, t.red, n) => TwoNode(u, u.red, n)
         /\ ThreeNode(t, t.red, n) => ThreeNode(u, u.red, n)
         /\ RightThree(t, t.red, n) => RightThree(u, u.red, n)
         /\ FourNode(t, t.red, n) => FourNode(u, u.red, n)
BY DEF TwoNode, ThreeNode, RightThree, FourNode

(* What every shape has in common. *)
LEMMA ShapeIs ==
  ASSUME NEW t, NEW c, NEW n,
         \/ TwoNode(t, c, n) \/ ThreeNode(t, c, n) \/ RightThree(t, c, n) \/ FourNode(t, c, n)
  PROVE  /\ IsNode(t) /\ t \in AnyTree /\ t.red = c /\ t.left \in AnyTree /\ t.right \in AnyTree
         /\ TwoNode(t, c, n) => TwoNode(t, t.red, n)
         /\ ThreeNode(t, c, n) => ThreeNode(t, t.red, n)
         /\ RightThree(t, c, n) => RightThree(t, t.red, n)
         /\ FourNode(t, c, n) => FourNode(t, t.red, n)
BY NodeParts DEF TwoNode, ThreeNode, RightThree, FourNode, IsNode

(* update_max_size keeps the shape (tree_alloc.rs:131-140). *)
LEMMA UpdateShape ==
  ASSUME NEW t, NEW c, NEW n
  PROVE  /\ TwoNode(t, c, n) => TwoNode(UpdateMaxSize(t), c, n)
         /\ ThreeNode(t, c, n) => ThreeNode(UpdateMaxSize(t), c, n)
BY UpdateParts DEF TwoNode, ThreeNode

(* Flipping the colour keeps the shape below (tree_alloc.rs:165-168). *)
LEMMA FlipShape ==
  ASSUME NEW t, NEW c \in BOOLEAN, NEW n
  PROVE  /\ TwoNode(t, c, n) => TwoNode(Flip(t), ~c, n)
         /\ ThreeNode(t, c, n) => ThreeNode(Flip(t), ~c, n)
         /\ RightThree(t, c, n) => RightThree(Flip(t), ~c, n)
<1> SUFFICES ASSUME TwoNode(t, c, n) \/ ThreeNode(t, c, n) \/ RightThree(t, c, n)
             PROVE  IsNode(Flip(t)) /\ Flip(t).red = ~c /\ Flip(t).left = t.left /\ Flip(t).right = t.right
  BY DEF TwoNode, ThreeNode, RightThree
<1>1. t \in AnyTree /\ t # Nil /\ t.red = c
  BY DEF TwoNode, ThreeNode, RightThree, IsNode
<1>2. ~IsRed(t) <=> ~c
  BY <1>1 DEF IsRed
<1>3. Flip(t) = Paint(t, ~c)
  BY <1>1, <1>2 DEF Flip, Paint, IsRed
<1>4. (~c) \in BOOLEAN
  OBVIOUS
<1> QED
  BY <1>1, <1>3, <1>4, PaintParts

(* flip_colors splits a four-node and moves its middle up                  *)
(* (tree_alloc.rs:164-181).                                                *)
LEMMA FlipFour ==
  ASSUME NEW h, NEW c \in BOOLEAN, NEW n \in Nat, FourNode(h, c, n)
  PROVE  TwoNode(FlipColors(h), ~c, n + 1)
<1>1. IsNode(h) /\ h.red = c /\ TwoNode(h.left, TRUE, n) /\ TwoNode(h.right, TRUE, n)
  BY RedIs, NodeParts DEF FourNode, IsNode, Red
<1>2. TwoNode(Flip(h.left), FALSE, n) /\ TwoNode(Flip(h.right), FALSE, n)
  BY <1>1, FlipShape
<1>3. n + 1 # 0 /\ (n + 1) - 1 = n /\ n + 1 \in Nat
  OBVIOUS
<1>4. Black(Flip(h.left), n + 1) /\ Black(Flip(h.right), n + 1)
  BY <1>2, <1>3, BlackIs, ShapeIs DEF Proper
<1> QED
  BY <1>1, <1>4, FlipColorsParts DEF TwoNode

(* A red left child with a red left child is rotated and split.            *)
LeftFour(h, c, n) == IsNode(h) /\ h.red = c /\ ThreeNode(h.left, TRUE, n) /\ Black(h.right, n)

(* rotate_right makes a four-node of two red links in a row to the left    *)
(* (tree_alloc.rs:313-315).                                                *)
LEMMA LeftFourRotated ==
  ASSUME NEW h, NEW c, NEW n \in Nat, LeftFour(h, c, n)
  PROVE  FourNode(RotateRight(h), c, n)
<1> DEFINE u == RotateRight(h)
<1>1. IsNode(h) /\ h.left # Nil /\ h.red = c
  BY DEF LeftFour, ThreeNode, IsNode
<1>2. /\ IsNode(u) /\ IsNode(u.right) /\ u.red = h.red /\ u.right.red = TRUE
      /\ u.right.right = h.right /\ u.right.left = h.left.right /\ u.left = h.left.left
  BY <1>1, RotateRightParts
<1> HIDE DEF u
<1>3. TwoNode(u.right, TRUE, n)
  BY <1>2 DEF LeftFour, ThreeNode, TwoNode
<1>4. Red(u.right, n)
  BY <1>3, RedIs, ShapeIs
<1> QED
  BY <1>1, <1>2, <1>4 DEF LeftFour, ThreeNode, FourNode, u

(* What the end of insert_node and fix_up makes of each shape              *)
(* (tree_alloc.rs:313-320).                                                *)
LEMMA SplitFoursShape ==
  ASSUME NEW h, NEW c \in BOOLEAN, NEW n \in Nat
  PROVE  /\ TwoNode(h, c, n) => TwoNode(SplitFours(h), c, n)
         /\ ThreeNode(h, c, n) => ThreeNode(SplitFours(h), c, n)
         /\ FourNode(h, c, n) => TwoNode(SplitFours(h), ~c, n + 1)
         /\ LeftFour(h, c, n) => TwoNode(SplitFours(h), ~c, n + 1)
<1> DEFINE h2 == IF IsRed(h.left) /\ IsRed(h.left.left) THEN RotateRight(h) ELSE h
           h3 == IF IsRed(h2.left) /\ IsRed(h2.right) THEN FlipColors(h2) ELSE h2
<1>1. SplitFours(h) = UpdateMaxSize(h3)
  BY DEF SplitFours
<1>2. \A t, k : Red(t, k) => IsRed(t) /\ t \in AnyTree
  BY DEF Red
<1>3. \A t, k : Black(t, k) => ~IsRed(t)
  BY DEF Black
<1>4. \A t : Red(t, n) => ~IsRed(t.left)
  BY <1>2, <1>3, RedIs DEF TwoNode
<1>5. ASSUME TwoNode(h, c, n) PROVE h3 = h
  BY <1>3, <1>5 DEF TwoNode
<1>6. ASSUME ThreeNode(h, c, n) PROVE h3 = h
  BY <1>3, <1>4, <1>6 DEF ThreeNode
<1>7. ASSUME FourNode(h, c, n) PROVE h3 = FlipColors(h)
  BY <1>2, <1>4, <1>7 DEF FourNode
<1>8. ASSUME LeftFour(h, c, n) PROVE h3 = FlipColors(RotateRight(h)) /\ FourNode(RotateRight(h), c, n)
  <2>1. IsRed(h.left) /\ IsRed(h.left.left)
    BY <1>2, <1>8 DEF LeftFour, ThreeNode, IsRed, IsNode
  <2>2. FourNode(RotateRight(h), c, n)
    BY <1>8, LeftFourRotated
  <2> QED
    BY <1>2, <2>1, <2>2 DEF FourNode
<1> HIDE DEF h3
<1>9. FourNode(h, c, n) \/ LeftFour(h, c, n) => TwoNode(h3, ~c, n + 1)
  BY <1>7, <1>8, FlipFour
<1> QED
  BY <1>1, <1>5, <1>6, <1>9, UpdateShape

(* What fix_up makes of each shape (tree_alloc.rs:309-321). *)
LEMMA FixUpShape ==
  ASSUME NEW h, NEW c \in BOOLEAN, NEW n \in Nat
  PROVE  /\ TwoNode(h, c, n) => TwoNode(FixUp(h), c, n)
         /\ ThreeNode(h, c, n) \/ RightThree(h, c, n) => ThreeNode(FixUp(h), c, n)
         /\ FourNode(h, c, n) => TwoNode(FixUp(h), ~c, n + 1)
<1>1. \A t, k : Red(t, k) => IsRed(t) /\ t \in AnyTree
  BY DEF Red
<1>2. \A t, k : Black(t, k) => ~IsRed(t)
  BY DEF Black
<1>3. TwoNode(h, c, n) \/ ThreeNode(h, c, n) => FixUp(h) = SplitFours(h)
  BY <1>2 DEF FixUp, TwoNode, ThreeNode
<1>4. ASSUME RightThree(h, c, n) \/ FourNode(h, c, n)
      PROVE  FixUp(h) = SplitFours(RotateLeft(h))
  BY <1>1, <1>4 DEF FixUp, RightThree, FourNode
<1>5. ASSUME RightThree(h, c, n) \/ FourNode(h, c, n)
      PROVE  /\ RightThree(h, c, n) => ThreeNode(RotateLeft(h), c, n)
             /\ FourNode(h, c, n) => LeftFour(RotateLeft(h), c, n)
  <2> DEFINE u == RotateLeft(h)
  <2>1. IsNode(h) /\ h.red = c /\ TwoNode(h.right, TRUE, n) /\ h.right # Nil
    BY <1>5, RedIs DEF RightThree, FourNode, TwoNode, Red, IsNode
  <2>2. /\ IsNode(u) /\ IsNode(u.left) /\ u.red = h.red /\ u.left.red = TRUE
        /\ u.left.left = h.left /\ u.left.right = h.right.left /\ u.right = h.right.right
    BY <2>1, RotateLeftParts
  <2> HIDE DEF u
  <2>3. RightThree(h, c, n) => TwoNode(u.left, TRUE, n)
    BY <2>1, <2>2 DEF RightThree, TwoNode
  <2>4. FourNode(h, c, n) => ThreeNode(u.left, TRUE, n)
    BY <2>1, <2>2 DEF FourNode, TwoNode, ThreeNode
  <2>5. Black(u.right, n)
    BY <2>1, <2>2 DEF TwoNode
  <2>6. RightThree(h, c, n) => Red(u.left, n)
    BY <2>3, RedIs, ShapeIs
  <2> QED
    BY <2>1, <2>2, <2>4, <2>5, <2>6 DEF ThreeNode, LeftFour, u
<1> QED
  BY <1>3, <1>4, <1>5, SplitFoursShape

-----------------------------------------------------------------------------
(***************************************************************************)
(* Going left in delete: move_red_left.                                    *)
(***************************************************************************)

(* A node has one level more than its children. *)
LEMMA NodeIn ==
  ASSUME NEW t, IsNode(t), NEW n \in Nat, t.left \in Trees[n], t.right \in Trees[n]
  PROVE  t \in Trees[n + 1]
<1>1. t \in Nodes(Trees[n])
  BY NodeOrNot DEF AnyNode, Nodes
<1>2. n + 1 \in Nat /\ n + 1 # 0 /\ (n + 1) - 1 = n
  OBVIOUS
<1> QED
  BY <1>1, <1>2, TreesUnfolded

(* The children of a node have one level less. *)
LEMMA ChildrenIn ==
  ASSUME NEW n \in Nat, NEW t \in Trees[n + 1], t # Nil
  PROVE  IsNode(t) /\ t.left \in Trees[n] /\ t.right \in Trees[n]
<1>1. n + 1 \in Nat /\ (n + 1) - 1 = n
  OBVIOUS
<1> QED
  BY <1>1, TreeCases DEF IsNode, AnyTree

(* Flipping the colour adds no level. *)
LEMMA FlipIn ==
  ASSUME NEW n \in Nat, NEW t \in Trees[n]
  PROVE  Flip(t) \in Trees[n]
<1>1. CASE t = Nil
  BY <1>1 DEF Flip, Paint
<1>2. CASE t # Nil
  <2>1. n - 1 \in Nat /\ (n - 1) + 1 = n /\ t.left \in Trees[n - 1] /\ t.right \in Trees[n - 1]
    BY <1>2, TreeCases
  <2>2. t \in AnyTree /\ (~IsRed(t)) \in BOOLEAN
    BY DEF AnyTree, IsRed
  <2>3. IsNode(Flip(t)) /\ Flip(t).left = t.left /\ Flip(t).right = t.right
    BY <1>2, <2>2, PaintParts DEF Flip
  <2> QED
    BY <2>1, <2>3, NodeIn
<1> QED
  BY <1>1, <1>2

(* Rotating the right child keeps what the tree holds                      *)
(* (tree_alloc.rs:291-294).                                                *)
LEMMA ReplaceRightKeeps ==
  ASSUME NEW h, IsNode(h), h.right # Nil, NEW r, Keeps(h.right, r), r.max_size = Largest(r)
  PROVE  Keeps(h, [h EXCEPT !.right = r])
<1> DEFINE u == [h EXCEPT !.right = r]
<1>1. r \in AnyTree /\ r # Nil /\ Regs(r) = Regs(h.right) /\ Count[r] = Count[h.right]
      /\ (InOrder(h.right) => InOrder(r)) /\ (SubExact(h.right) => SubExact(r))
  BY DEF Keeps, IsNode
<1>2. IsNode(u)
  BY <1>1, NodeWithChild
<1>3. SameNode(u, h) /\ u.left = h.left /\ u.right = r /\ h.left \in AnyTree /\ h.right \in AnyTree
  BY NodeParts DEF SameNode, IsNode, AnyNode, Nodes
<1> HIDE DEF u
<1>4. RegionOf(u) = RegionOf(h)
  BY <1>3 DEF RegionOf, SameNode
<1>5. Regs(u) = Regs(h) /\ Count[u] = Count[h]
  <2>1. /\ Regs(h) = {RegionOf(h)} \cup Regs(h.left) \cup Regs(h.right)
        /\ Count[h] = Count[h.left] + 1 + Count[h.right]
    BY NodeIs DEF IsNode
  <2>2. /\ Regs(u) = {RegionOf(u)} \cup Regs(u.left) \cup Regs(u.right)
        /\ Count[u] = Count[u.left] + 1 + Count[u.right]
    BY <1>2, NodeIs DEF IsNode
  <2> QED
    BY <1>1, <1>3, <1>4, <2>1, <2>2
<1>6. InOrder(h) => InOrder(u)
  BY <1>1, <1>2, <1>3, NodeIs DEF IsNode, SameNode
<1>7. Exact(h.right) => Exact(r)
  BY <1>1, <1>3, SubExactIf, NodeIs DEF IsNode, SubExact
<1> QED
  BY <1>2, <1>3, <1>5, <1>6, <1>7 DEF Keeps, SubExact, u

(* What move_red_left makes of a node whose right child has a red child.   *)
LEMMA BorrowFromRight ==
  ASSUME NEW h, IsNode(h), h.right # Nil, IsRed(h.right.left)
  PROVE  LET f == FlipColors(h)
             e == [f EXCEPT !.right = RotateRight(@)]
             u == RotateLeft(e)
         IN
         /\ Keeps(h, u) /\ IsNode(u.left) /\ IsNode(u.right) /\ u.red = ~h.red
         /\ SameNode(u, h.right.left)
         /\ u.left.red = TRUE /\ u.left.left = Flip(h.left) /\ u.left.right = h.right.left.left
         /\ u.right.red = TRUE /\ u.right.left = h.right.left.right /\ u.right.right = h.right.right
<1> DEFINE y == h.right
           x == y.left
           f == FlipColors(h)
           yf == f.right
           z == RotateRight(yf)
           e == [f EXCEPT !.right = z]
           u == RotateLeft(e)
<1>1. IsNode(y) /\ IsNode(x)
  BY NodeParts DEF IsNode, IsRed
<1>2. IsNode(f) /\ SameNode(f, h) /\ f.red = ~h.red /\ f.left = Flip(h.left) /\ yf = Flip(y) /\ Keeps(h, f)
  BY FlipColorsParts, FlipColorsKeeps
<1>3. IsNode(yf) /\ yf.left = x /\ yf.right = y.right /\ SameNode(yf, y)
  <2>1. y \in AnyTree /\ y # Nil /\ (~IsRed(y)) \in BOOLEAN
    BY <1>1 DEF IsNode, IsRed
  <2>2. yf = Paint(y, ~IsRed(y))
    BY <1>2 DEF Flip
  <2> HIDE DEF yf, y
  <2> QED
    BY <2>1, <2>2, PaintParts DEF x
<1> HIDE DEF f, y
<1> HIDE DEF yf, x
<1>4. /\ IsNode(z) /\ IsNode(z.right) /\ SameNode(z, x) /\ z.max_size = Largest(z) /\ z.right.red = TRUE
      /\ z.right.right = y.right /\ z.right.left = x.right /\ z.left = x.left
  BY <1>1, <1>3, RotateRightParts DEF IsNode
<1>5. Keeps(yf, z)
  BY <1>1, <1>3, RotateRightKeeps DEF IsNode
<1> HIDE DEF z
<1>6. Keeps(f, e)
  BY <1>2, <1>3, <1>4, <1>5, ReplaceRightKeeps DEF yf, IsNode
<1>7. e.right = z /\ e.left = f.left /\ e.red = f.red /\ SameNode(e, f)
  BY <1>2, NodeOrNot DEF AnyNode, Nodes, SameNode
<1> HIDE DEF e
<1>8. IsNode(e) /\ e.right # Nil
  BY <1>4, <1>6, <1>7 DEF Keeps, IsNode
<1>9. /\ IsNode(u) /\ IsNode(u.left) /\ SameNode(u, z) /\ u.red = e.red /\ u.left.red = TRUE
      /\ u.left.left = e.left /\ u.left.right = z.left /\ u.right = z.right
  BY <1>7, <1>8, RotateLeftParts
<1>10. Keeps(e, u)
  BY <1>8, RotateLeftKeeps
<1>11. Keeps(h, u)
  BY <1>2, <1>6, <1>10, KeepsTwice
<1> HIDE DEF u
<1>12. /\ Keeps(h, u) /\ IsNode(u.left) /\ IsNode(u.right) /\ u.red = ~h.red /\ SameNode(u, x)
       /\ u.left.red = TRUE /\ u.left.left = Flip(h.left) /\ u.left.right = x.left
       /\ u.right.red = TRUE /\ u.right.left = x.right /\ u.right.right = y.right
  BY <1>2, <1>4, <1>7, <1>9, <1>11 DEF SameNode
<1>13. u = RotateLeft([FlipColors(h) EXCEPT !.right = RotateRight(@)])
  BY DEF u, e, z, yf, f
<1> QED
  BY <1>12, <1>13 DEF x, y

(* What move_red_right makes of a node whose left child has a red child.   *)
LEMMA BorrowFromLeft ==
  ASSUME NEW h, IsNode(h), h.left # Nil, IsRed(h.left.left)
  PROVE  LET u == RotateRight(FlipColors(h)) IN
         /\ Keeps(h, u) /\ IsNode(u.right) /\ u.red = ~h.red
         /\ SameNode(u, h.left) /\ SameNode(u.right, h)
         /\ u.left = h.left.left
         /\ u.right.red = TRUE /\ u.right.left = h.left.right /\ u.right.right = Flip(h.right)
<1> DEFINE y == h.left
           f == FlipColors(h)
           yf == f.left
           u == RotateRight(f)
<1>1. IsNode(y)
  BY NodeParts DEF IsNode
<1>2. IsNode(f) /\ SameNode(f, h) /\ f.red = ~h.red /\ f.right = Flip(h.right) /\ yf = Flip(y) /\ Keeps(h, f)
  BY FlipColorsParts, FlipColorsKeeps
<1>3. IsNode(yf) /\ yf.left = y.left /\ yf.right = y.right /\ SameNode(yf, y)
  <2>1. y \in AnyTree /\ y # Nil /\ (~IsRed(y)) \in BOOLEAN
    BY <1>1 DEF IsNode, IsRed
  <2> QED
    BY <1>2, <2>1, PaintParts DEF Flip
<1> HIDE DEF f, y
<1>4. /\ IsNode(u) /\ IsNode(u.right) /\ SameNode(u, yf) /\ SameNode(u.right, f)
      /\ u.red = f.red /\ u.right.red = TRUE
      /\ u.right.right = f.right /\ u.right.left = yf.right /\ u.left = yf.left
  BY <1>2, <1>3, RotateRightParts DEF IsNode
<1>5. Keeps(f, u)
  BY <1>2, <1>3, RotateRightKeeps DEF IsNode
<1>6. Keeps(h, u)
  BY <1>2, <1>5, KeepsTwice
<1> HIDE DEF u, yf
<1>7. /\ Keeps(h, u) /\ IsNode(u.right) /\ u.red = ~h.red
      /\ SameNode(u, y) /\ SameNode(u.right, h)
      /\ u.left = y.left
      /\ u.right.red = TRUE /\ u.right.left = y.right /\ u.right.right = Flip(h.right)
  BY <1>2, <1>3, <1>4, <1>6 DEF SameNode
<1> QED
  BY <1>7 DEF y, u, f

(* The three ways delete_min and delete go on to the left: as it is, with  *)
(* the colours flipped, or with a node borrowed from the right             *)
(* (tree_alloc.rs:288-298, 335-337, 350-352).                              *)
LEMMA LeanLeftCases ==
  ASSUME NEW h, IsNode(h), h.left # Nil, NEW g \in LeanLeft(h)
  PROVE  \/ g = h /\ (IsRed(h.left) \/ IsRed(h.left.left))
         \/ g = FlipColors(h) /\ ~IsRed(h.left) /\ ~IsRed(h.left.left) /\ h.right # Nil /\ ~IsRed(h.right.left)
         \/ /\ ~IsRed(h.left) /\ ~IsRed(h.left.left) /\ h.right # Nil /\ IsRed(h.right.left)
            /\ LET f == FlipColors(h) IN
               g = FlipColors(RotateLeft([f EXCEPT !.right = RotateRight(@)]))
<1>1. FlipColors(h).right = Flip(h.right) /\ h.right \in AnyTree
  BY FlipColorsParts, NodeParts DEF IsNode
<1>2. Flip(h.right) = Nil <=> h.right = Nil
  BY <1>1, FlipKeeps
<1>3. h.right # Nil => Flip(h.right).left = h.right.left
  <2>1. (~IsRed(h.right)) \in BOOLEAN
    BY DEF IsRed
  <2> QED
    BY <1>1, <2>1, PaintParts DEF Flip
<1> QED
  BY <1>1, <1>2, <1>3 DEF LeanLeft, MoveRedLeft

(* move_red_left keeps what the tree holds, takes no key out of the left   *)
(* subtree, and makes it at most one level deeper (tree_alloc.rs:288-298). *)
LEMMA LeanLeftKeeps ==
  ASSUME NEW h, NEW n \in Nat, IsNode(h), h.left \in Trees[n], h.right \in Trees[n], h.left # Nil,
         NEW g \in LeanLeft(h)
  PROVE  /\ Keeps(h, g) /\ g.left \in Trees[n + 1] /\ g.left # Nil
         /\ InOrder(h) => h.base <= g.base
<1>0. Trees[n] \subseteq Trees[n + 1] /\ h.base \in Nat
  BY TreesGrow, NodeParts DEF IsNode
<1>1. CASE g = h
  BY <1>0, <1>1, KeepsItself
<1>2. CASE g = FlipColors(h)
  <2>1. g.left = Flip(h.left) /\ SameNode(g, h)
    BY <1>2, FlipColorsParts
  <2>2. h.left \in AnyTree
    BY DEF AnyTree
  <2>3. g.left \in Trees[n] /\ g.left # Nil
    BY <2>1, <2>2, FlipIn, FlipKeeps
  <2> QED
    BY <1>0, <1>2, <2>1, <2>3, FlipColorsKeeps DEF SameNode
<1>3. CASE /\ h.right # Nil /\ IsRed(h.right.left)
           /\ LET f == FlipColors(h) IN
              g = FlipColors(RotateLeft([f EXCEPT !.right = RotateRight(@)]))
  <2> DEFINE f == FlipColors(h)
             u == RotateLeft([f EXCEPT !.right = RotateRight(@)])
  <2>1. g = FlipColors(u)
    BY <1>3
  <2>2. /\ Keeps(h, u) /\ IsNode(u.left) /\ SameNode(u, h.right.left)
        /\ u.left.left = Flip(h.left) /\ u.left.right = h.right.left.left
    BY <1>3, BorrowFromRight
  <2> HIDE DEF u
  <2>3. Keeps(u, g) /\ g.left = Flip(u.left) /\ SameNode(g, u)
    BY <2>1, <2>2, FlipColorsKeeps, FlipColorsParts DEF Keeps
  <2>4. h.right.left.left \in Trees[n]
    <3>1. Closed(Trees[n])
      BY TreesClosed
    <3> QED
      BY <1>3, <3>1 DEF Closed, IsRed
  <2>5. Flip(h.left) \in Trees[n]
    BY FlipIn
  <2>6. u.left \in Trees[n + 1]
    BY <2>2, <2>4, <2>5, NodeIn
  <2>7. g.left \in Trees[n + 1] /\ g.left # Nil
    BY <2>2, <2>3, <2>6, FlipIn, FlipKeeps DEF IsNode
  <2>8. InOrder(h) => h.base <= g.base
    <3>1. h.right \in AnyTree /\ h.right.left \in AnyTree /\ h.right.left # Nil
      BY <1>3, NodeParts DEF IsNode, IsRed
    <3>2. RegionOf(h.right.left) \in Regs(h.right)
      BY <1>3, <3>1, NodeIs
    <3>3. InOrder(h) => h.base < RegionOf(h.right.left).base
      BY <3>2, NodeIs DEF IsNode
    <3>4. h.right.left.base \in Nat
      BY <3>1, NodeParts
    <3> QED
      BY <1>0, <2>2, <2>3, <3>3, <3>4 DEF RegionOf, SameNode
  <2> QED
    BY <2>2, <2>3, <2>7, <2>8, KeepsTwice
<1> QED
  BY <1>1, <1>2, <1>3, LeanLeftCases

(* A black tree that is not None, in its shapes. *)
LEMMA BlackNode ==
  ASSUME NEW t, NEW n \in Nat, Black(t, n), t # Nil \/ n # 0
  PROVE  /\ n # 0 /\ n - 1 \in Nat /\ (n - 1) + 1 = n /\ t # Nil /\ t \in AnyTree
         /\ Proper(t, FALSE, n - 1)
         /\ IsRed(t.left) => ThreeNode(t, FALSE, n - 1)
         /\ ~IsRed(t.left) => TwoNode(t, FALSE, n - 1)
<1>1. Proper(t, FALSE, n - 1) /\ n # 0 /\ n - 1 \in Nat
  BY BlackIs DEF Black
<1>2. t \in AnyTree /\ t # Nil
  BY <1>1 DEF Proper, TwoNode, ThreeNode, IsNode
<1> QED
  BY <1>1, <1>2 DEF Proper, TwoNode, ThreeNode, Black, Red

(* flip_colors makes a four-node of a two-node the children of which are   *)
(* two-nodes (tree_alloc.rs:289, 301).                                     *)
LEMMA FlipTwo ==
  ASSUME NEW h, NEW c \in BOOLEAN, NEW n \in Nat, TwoNode(h, c, n), n # 0,
         ~IsRed(h.left.left), ~IsRed(h.right.left)
  PROVE  FourNode(FlipColors(h), ~c, n - 1)
<1>1. n - 1 \in Nat /\ TwoNode(h.left, FALSE, n - 1) /\ TwoNode(h.right, FALSE, n - 1)
  BY BlackNode DEF TwoNode
<1>2. TwoNode(Flip(h.left), TRUE, n - 1) /\ TwoNode(Flip(h.right), TRUE, n - 1)
  BY <1>1, FlipShape
<1>3. Red(Flip(h.left), n - 1) /\ Red(Flip(h.right), n - 1)
  BY <1>1, <1>2, RedIs, ShapeIs
<1>4. IsNode(h) /\ h.red = c
  BY DEF TwoNode
<1> QED
  BY <1>3, <1>4, FlipColorsParts DEF FourNode

(* The unwrap of move_red_left finds a right child, and afterwards the     *)
(* left child or its left child is red (tree_alloc.rs:288-298, 335-337,    *)
(* 350-352).                                                               *)
LEMMA LeanLeftShape ==
  ASSUME NEW h, NEW c \in BOOLEAN, NEW n \in Nat, Proper(h, c, n), h.left # Nil
  PROVE  /\ LeanLeft(h) # {}
         /\ \A g \in LeanLeft(h) :
              \/ ThreeNode(g, c, n) /\ ThreeNode(h, c, n)
              \/ n # 0 /\ TwoNode(g, c, n) /\ ThreeNode(g.left, FALSE, n - 1) /\ TwoNode(h, c, n)
              \/ n # 0 /\ FourNode(g, ~c, n - 1) /\ TwoNode(h, c, n)
<1>1. CASE ThreeNode(h, c, n)
  <2>1. IsRed(h.left)
    BY <1>1 DEF ThreeNode, Red
  <2> QED
    BY <1>1, <2>1 DEF LeanLeft
<1>2. CASE TwoNode(h, c, n)
  <2>1. /\ IsNode(h) /\ h.red = c /\ ~IsRed(h.left) /\ n # 0 /\ n - 1 \in Nat /\ (n - 1) + 1 = n
        /\ h.right # Nil /\ Black(h.left, n) /\ Black(h.right, n)
        /\ h.left \in AnyTree /\ h.right \in AnyTree
    BY <1>2, BlackNode DEF TwoNode, Black
  <2>2. LeanLeft(h) # {}
    <3>1. FlipColors(h).right # Nil
      BY <2>1, FlipColorsParts, FlipKeeps
    <3> QED
      BY <3>1 DEF LeanLeft, MoveRedLeft
  <2>3. ASSUME NEW g \in LeanLeft(h)
        PROVE  \/ TwoNode(g, c, n) /\ ThreeNode(g.left, FALSE, n - 1)
               \/ FourNode(g, ~c, n - 1)
    <3>1. CASE g = h /\ IsRed(h.left.left)
      BY <1>2, <2>1, <3>1, BlackNode
    <3>2. CASE g = FlipColors(h) /\ ~IsRed(h.left.left) /\ ~IsRed(h.right.left)
      BY <1>2, <2>1, <3>2, FlipTwo
    <3>3. CASE /\ ~IsRed(h.left.left) /\ IsRed(h.right.left)
               /\ LET f == FlipColors(h) IN
                  g = FlipColors(RotateLeft([f EXCEPT !.right = RotateRight(@)]))
      <4> DEFINE f == FlipColors(h)
                 u == RotateLeft([f EXCEPT !.right = RotateRight(@)])
      <4>1. g = FlipColors(u)
        BY <3>3
      <4>2. /\ Keeps(h, u) /\ IsNode(u.left) /\ IsNode(u.right) /\ u.red = ~h.red
            /\ u.left.red = TRUE /\ u.left.left = Flip(h.left) /\ u.left.right = h.right.left.left
            /\ u.right.red = TRUE /\ u.right.left = h.right.left.right /\ u.right.right = h.right.right
        BY <2>1, <3>3, BorrowFromRight
      <4> HIDE DEF u
      <4>3. TwoNode(h.left, FALSE, n - 1) /\ ThreeNode(h.right, FALSE, n - 1)
        BY <2>1, <3>3, BlackNode
      <4>4. TwoNode(h.right.left, TRUE, n - 1)
        BY <2>1, <4>3, RedIs DEF ThreeNode, Red
      <4>5. TwoNode(Flip(h.left), TRUE, n - 1)
        BY <4>3, FlipShape
      <4>6. Red(Flip(h.left), n - 1)
        BY <2>1, <4>5, RedIs, ShapeIs
      <4>7. ThreeNode(u.left, TRUE, n - 1) /\ TwoNode(u.right, TRUE, n - 1)
        BY <4>2, <4>3, <4>4, <4>6 DEF ThreeNode, TwoNode
      <4>8. ThreeNode(Flip(u.left), FALSE, n - 1) /\ TwoNode(Flip(u.right), FALSE, n - 1)
        BY <4>7, FlipShape
      <4>9. Black(Flip(u.left), n) /\ Black(Flip(u.right), n)
        BY <2>1, <4>8, BlackIs, ShapeIs DEF Proper
      <4>10. IsNode(g) /\ g.red = c /\ g.left = Flip(u.left) /\ g.right = Flip(u.right)
        <5>1. IsNode(u)
          BY <4>2 DEF Keeps
        <5> QED
          BY <2>1, <4>1, <4>2, <5>1, FlipColorsParts
      <4> QED
        BY <4>8, <4>9, <4>10 DEF TwoNode
    <3> QED
      BY <2>1, <3>1, <3>2, <3>3, LeanLeftCases
  <2> QED
    BY <1>2, <2>1, <2>2, <2>3
<1> QED
  BY <1>1, <1>2 DEF Proper

-----------------------------------------------------------------------------
(***************************************************************************)
(* Going right in delete: move_red_right.                                  *)
(***************************************************************************)

(* The node delete_node goes right from. *)
Turned(h) == IF IsRed(h.left) THEN RotateRight(h) ELSE h

(* The rotation before delete goes right keeps what the tree holds         *)
(* (tree_alloc.rs:356-358).                                                *)
LEMMA TurnedKeeps ==
  ASSUME NEW h, NEW n \in Nat, IsNode(h), h.left \in Trees[n], h.right \in Trees[n]
  PROVE  /\ Keeps(h, Turned(h))
         /\ Turned(h).left \in Trees[n + 1] /\ Turned(h).right \in Trees[n + 1]
         /\ InOrder(h) => Turned(h).base <= h.base
         /\ IsRed(h.left) => /\ IsRed(Turned(h).right)
                             /\ InOrder(h) => Turned(h).base < h.base
<1>0. Trees[n] \subseteq Trees[n + 1] /\ h.base \in Nat
  BY TreesGrow, NodeParts DEF IsNode
<1>1. CASE ~IsRed(h.left)
  BY <1>0, <1>1, KeepsItself DEF Turned
<1>2. CASE IsRed(h.left)
  <2> DEFINE u == RotateRight(h)
  <2>1. h.left # Nil /\ h.left \in AnyTree /\ Turned(h) = u
    BY <1>2, NodeParts DEF IsRed, IsNode, Turned
  <2>2. /\ IsNode(u) /\ IsNode(u.right) /\ SameNode(u, h.left) /\ u.right.red = TRUE
        /\ u.right.right = h.right /\ u.right.left = h.left.right /\ u.left = h.left.left
    BY <2>1, RotateRightParts
  <2>3. Keeps(h, u)
    BY <2>1, RotateRightKeeps
  <2> HIDE DEF u
  <2>4. h.left.right \in Trees[n] /\ h.left.left \in Trees[n]
    <3>1. Closed(Trees[n])
      BY TreesClosed
    <3> QED
      BY <2>1, <3>1 DEF Closed
  <2>5. u.right \in Trees[n + 1] /\ u.left \in Trees[n + 1]
    BY <1>0, <2>2, <2>4, NodeIn
  <2>6. InOrder(h) => u.base < h.base
    <3>1. RegionOf(h.left) \in Regs(h.left)
      BY <2>1, NodeIs
    <3>2. InOrder(h) => RegionOf(h.left).base < h.base
      BY <3>1, NodeIs DEF IsNode
    <3> QED
      BY <2>2, <3>2 DEF RegionOf, SameNode
  <2>7. u.base \in Nat
    BY <2>2, NodeParts DEF IsNode
  <2> QED
    BY <1>0, <2>1, <2>2, <2>3, <2>5, <2>6, <2>7 DEF IsRed, IsNode
<1> QED
  BY <1>1, <1>2

(* The three ways delete goes on to the right: as it is, with the colours  *)
(* flipped, or with a node borrowed from the left (tree_alloc.rs:300-307,  *)
(* 364-366).                                                               *)
LEMMA LeanRightCases ==
  ASSUME NEW h, IsNode(h), h.right # Nil, NEW g \in LeanRight(h)
  PROVE  \/ g = h /\ (IsRed(h.right) \/ IsRed(h.right.left))
         \/ /\ g = FlipColors(h) /\ ~IsRed(h.right) /\ ~IsRed(h.right.left) /\ h.left # Nil
            /\ ~IsRed(h.left.left)
         \/ /\ ~IsRed(h.right) /\ ~IsRed(h.right.left) /\ h.left # Nil /\ IsRed(h.left.left)
            /\ g = FlipColors(RotateRight(FlipColors(h)))
<1>1. FlipColors(h).left = Flip(h.left) /\ h.left \in AnyTree
  BY FlipColorsParts, NodeParts DEF IsNode
<1>2. Flip(h.left) = Nil <=> h.left = Nil
  BY <1>1, FlipKeeps
<1>3. h.left # Nil => Flip(h.left).left = h.left.left
  <2>1. (~IsRed(h.left)) \in BOOLEAN
    BY DEF IsRed
  <2> QED
    BY <1>1, <2>1, PaintParts DEF Flip
<1> QED
  BY <1>1, <1>2, <1>3 DEF LeanRight, MoveRedRight

(* move_red_right keeps what the tree holds, takes no key out of the right *)
(* subtree, and makes it at most one level deeper (tree_alloc.rs:300-307). *)
LEMMA LeanRightKeeps ==
  ASSUME NEW h, NEW n \in Nat, IsNode(h), h.left \in Trees[n], h.right \in Trees[n],
         Turned(h).right # Nil, NEW g \in LeanRight(Turned(h))
  PROVE  /\ Keeps(h, g) /\ g.right \in Trees[n + 1] /\ g.right # Nil
         /\ InOrder(h) => g.base <= h.base
<1>0. Trees[n] \subseteq Trees[n + 1] /\ h.base \in Nat
  BY TreesGrow, NodeParts DEF IsNode
<1>1. CASE g = Turned(h)
  BY <1>1, TurnedKeeps
<1>2. CASE Turned(h) = h /\ g = FlipColors(h)
  <2>1. g.right = Flip(h.right) /\ SameNode(g, h)
    BY <1>2, FlipColorsParts
  <2>2. h.right \in AnyTree
    BY DEF AnyTree
  <2>3. g.right \in Trees[n] /\ g.right # Nil
    BY <1>2, <2>1, <2>2, FlipIn, FlipKeeps
  <2> QED
    BY <1>0, <1>2, <2>1, <2>3, FlipColorsKeeps DEF SameNode
<1>3. CASE /\ Turned(h) = h /\ h.left # Nil /\ IsRed(h.left.left)
           /\ g = FlipColors(RotateRight(FlipColors(h)))
  <2> DEFINE u == RotateRight(FlipColors(h))
  <2>1. g = FlipColors(u)
    BY <1>3
  <2>2. /\ Keeps(h, u) /\ IsNode(u.right) /\ SameNode(u, h.left)
        /\ u.right.left = h.left.right /\ u.right.right = Flip(h.right)
    BY <1>3, BorrowFromLeft
  <2> HIDE DEF u
  <2>3. Keeps(u, g) /\ g.right = Flip(u.right) /\ SameNode(g, u)
    BY <2>1, <2>2, FlipColorsKeeps, FlipColorsParts DEF Keeps
  <2>4. h.left.right \in Trees[n]
    <3>1. Closed(Trees[n])
      BY TreesClosed
    <3> QED
      BY <1>3, <3>1 DEF Closed
  <2>5. Flip(h.right) \in Trees[n]
    BY FlipIn
  <2>6. u.right \in Trees[n + 1]
    BY <2>2, <2>4, <2>5, NodeIn
  <2>7. g.right \in Trees[n + 1] /\ g.right # Nil
    BY <2>2, <2>3, <2>6, FlipIn, FlipKeeps DEF IsNode
  <2>8. InOrder(h) => g.base <= h.base
    <3>1. h.left \in AnyTree
      BY NodeParts DEF IsNode
    <3>2. RegionOf(h.left) \in Regs(h.left)
      BY <1>3, <3>1, NodeIs
    <3>3. InOrder(h) => RegionOf(h.left).base < h.base
      BY <3>2, NodeIs DEF IsNode
    <3>4. h.left.base \in Nat
      BY <1>3, <3>1, NodeParts
    <3> QED
      BY <1>0, <2>2, <2>3, <3>3, <3>4 DEF RegionOf, SameNode
  <2> QED
    BY <2>2, <2>3, <2>7, <2>8, KeepsTwice
<1>4. CASE IsRed(h.left)
  <2>1. IsRed(Turned(h).right)
    BY <1>4, TurnedKeeps
  <2>2. g = Turned(h)
    BY <2>1 DEF LeanRight
  <2> QED
    BY <1>1, <2>2
<1>5. CASE ~IsRed(h.left)
  <2>1. Turned(h) = h
    BY <1>5 DEF Turned
  <2> QED
    BY <1>1, <1>2, <1>3, <2>1, LeanRightCases
<1> QED
  BY <1>4, <1>5

(* A two-node whose black right child has a red link to the right: what    *)
(* move_red_right makes when it borrows from the left child.               *)
Bent(t, c, n) ==
  IsNode(t) /\ t.red = c /\ Black(t.left, n) /\ RightThree(t.right, FALSE, n - 1)

(* The unwrap of move_red_right finds a left child, and afterwards the     *)
(* right child is red or has a red child (tree_alloc.rs:300-307, 364-366). *)
LEMMA LeanRightShape ==
  ASSUME NEW h, NEW c \in BOOLEAN, NEW n \in Nat, Proper(h, c, n) \/ RightThree(h, c, n),
         Turned(h).right # Nil
  PROVE  /\ LeanRight(Turned(h)) # {}
         /\ \A g \in LeanRight(Turned(h)) :
              \/ RightThree(g, c, n) /\ (TwoNode(h, c, n) => FALSE)
              \/ n # 0 /\ TwoNode(g, c, n) /\ TwoNode(h, c, n) /\ ThreeNode(g.right, FALSE, n - 1)
              \/ /\ n # 0 /\ Bent(g, c, n) /\ TwoNode(h, c, n)
                 /\ SameNode(g.right, h) /\ h.left # Nil /\ SameNode(g, h.left)
              \/ n # 0 /\ FourNode(g, ~c, n - 1) /\ TwoNode(h, c, n)
<1>1. CASE ThreeNode(h, c, n)
  <2> DEFINE u == RotateRight(h)
  <2>1. IsNode(h) /\ h.red = c /\ IsRed(h.left) /\ TwoNode(h.left, TRUE, n) /\ h.left # Nil /\ Black(h.right, n)
    BY <1>1, RedIs DEF ThreeNode, Red, IsRed
  <2>2. /\ IsNode(u) /\ IsNode(u.right) /\ u.red = c /\ u.right.red = TRUE
        /\ u.right.right = h.right /\ u.right.left = h.left.right /\ u.left = h.left.left
    BY <2>1, RotateRightParts
  <2>3. Turned(h) = u
    BY <2>1 DEF Turned
  <2> HIDE DEF u
  <2>4. TwoNode(u.right, TRUE, n)
    BY <2>1, <2>2 DEF TwoNode
  <2>5. Red(u.right, n)
    BY <2>4, RedIs, ShapeIs
  <2>6. RightThree(u, c, n)
    BY <2>1, <2>2, <2>5 DEF RightThree, TwoNode
  <2>7. LeanRight(u) = {u}
    BY <2>5 DEF LeanRight, Red
  <2>8. ~TwoNode(h, c, n)
    BY <2>1 DEF TwoNode, Black
  <2> QED
    BY <2>3, <2>6, <2>7, <2>8
<1>2. CASE RightThree(h, c, n)
  <2>1. Turned(h) = h /\ IsRed(h.right)
    BY <1>2 DEF Turned, RightThree, Black, Red
  <2>2. LeanRight(h) = {h} /\ ~TwoNode(h, c, n)
    BY <2>1 DEF LeanRight, TwoNode, Black
  <2> QED
    BY <1>2, <2>1, <2>2
<1>3. CASE TwoNode(h, c, n)
  <2>0. Turned(h) = h
    BY <1>3 DEF Turned, TwoNode, Black
  <2>1. /\ IsNode(h) /\ h.red = c /\ ~IsRed(h.right) /\ n # 0 /\ n - 1 \in Nat /\ (n - 1) + 1 = n
        /\ h.left # Nil /\ Black(h.left, n) /\ Black(h.right, n)
        /\ h.left \in AnyTree /\ h.right \in AnyTree /\ h.right # Nil
    BY <1>3, <2>0, BlackNode DEF TwoNode, Black
  <2>2. LeanRight(h) # {}
    <3>1. FlipColors(h).left # Nil
      BY <2>1, FlipColorsParts, FlipKeeps
    <3> QED
      BY <3>1 DEF LeanRight, MoveRedRight
  <2>3. ASSUME NEW g \in LeanRight(h)
        PROVE  \/ TwoNode(g, c, n) /\ ThreeNode(g.right, FALSE, n - 1)
               \/ Bent(g, c, n) /\ SameNode(g.right, h) /\ SameNode(g, h.left)
               \/ FourNode(g, ~c, n - 1)
    <3>1. CASE g = h /\ IsRed(h.right.left)
      BY <1>3, <2>1, <3>1, BlackNode
    <3>2. CASE g = FlipColors(h) /\ ~IsRed(h.left.left) /\ ~IsRed(h.right.left)
      BY <1>3, <2>1, <3>2, FlipTwo
    <3>3. CASE /\ ~IsRed(h.right.left) /\ IsRed(h.left.left)
               /\ g = FlipColors(RotateRight(FlipColors(h)))
      <4> DEFINE u == RotateRight(FlipColors(h))
      <4>1. g = FlipColors(u)
        BY <3>3
      <4>2. /\ Keeps(h, u) /\ IsNode(u.right) /\ u.red = ~h.red
            /\ SameNode(u, h.left) /\ SameNode(u.right, h)
            /\ u.left = h.left.left
            /\ u.right.red = TRUE /\ u.right.left = h.left.right /\ u.right.right = Flip(h.right)
        BY <2>1, <3>3, BorrowFromLeft
      <4> HIDE DEF u
      <4>3. ThreeNode(h.left, FALSE, n - 1) /\ TwoNode(h.right, FALSE, n - 1)
        BY <2>1, <3>3, BlackNode
      <4>4. TwoNode(h.left.left, TRUE, n - 1)
        BY <2>1, <4>3, RedIs DEF ThreeNode, Red
      <4>5. TwoNode(Flip(h.right), TRUE, n - 1)
        BY <4>3, FlipShape
      <4>6. Red(Flip(h.right), n - 1)
        BY <2>1, <4>5, RedIs, ShapeIs
      <4>7. RightThree(u.right, TRUE, n - 1) /\ TwoNode(u.left, TRUE, n - 1)
        BY <4>2, <4>3, <4>4, <4>6 DEF ThreeNode, RightThree, TwoNode
      <4>8. RightThree(Flip(u.right), FALSE, n - 1) /\ TwoNode(Flip(u.left), FALSE, n - 1)
        BY <4>7, FlipShape
      <4>9. Black(Flip(u.left), n)
        BY <2>1, <4>8, BlackIs, ShapeIs DEF Proper
      <4>10. IsNode(g) /\ g.red = c /\ g.left = Flip(u.left) /\ g.right = Flip(u.right) /\ SameNode(g, u)
        <5>1. IsNode(u)
          BY <4>2 DEF Keeps
        <5> QED
          BY <2>1, <4>1, <4>2, <5>1, FlipColorsParts
      <4>11. SameNode(Flip(u.right), u.right)
        <5>1. u.right \in AnyTree /\ u.right # Nil /\ (~IsRed(u.right)) \in BOOLEAN
          BY <4>2 DEF IsNode, IsRed
        <5> QED
          BY <5>1, PaintParts DEF Flip
      <4> QED
        BY <4>2, <4>8, <4>9, <4>10, <4>11 DEF Bent, SameNode
    <3> QED
      BY <2>1, <3>1, <3>2, <3>3, LeanRightCases
  <2> QED
    BY <1>3, <2>0, <2>1, <2>2, <2>3
<1> QED
  BY <1>1, <1>2, <1>3 DEF Proper

-----------------------------------------------------------------------------
(***************************************************************************)
(* The bounded set of trees, and the reference definitions on it.          *)
(***************************************************************************)

(* The bounded set of trees holds the subtrees of its elements. *)
LEMMA TreeIs ==
  /\ Closed(Tree) /\ Tree \subseteq AnyTree /\ Nil \in Tree
  /\ \E n \in Nat : Tree = Trees[n + 1]
<1>1. 2 * MaxHeight + 4 \in Nat /\ 2 * MaxHeight + 3 \in Nat /\ (2 * MaxHeight + 3) + 1 = 2 * MaxHeight + 4
  BY MaxHeightAssumption
<1>2. Closed(Tree) /\ Tree = Trees[(2 * MaxHeight + 3) + 1]
  BY <1>1, TreesClosed DEF Tree
<1>3. Nil \in Tree
  BY <1>1, TreesUnfolded DEF Tree
<1> QED
  BY <1>1, <1>2, <1>3 DEF Closed

(* The recursions of LLRB, unfolded once.                                  *)
LEMMA SubtreesUnfolded ==
  \A t \in Tree : Subtrees[t] = IF t = Nil THEN {} ELSE {t} \cup Subtrees[t.left] \cup Subtrees[t.right]
<1> DEFINE Step(f) == [t \in Tree |-> IF t = Nil THEN {} ELSE {t} \cup f[t.left] \cup f[t.right]]
           g == [t \in Tree |-> NodesOf[t]]
<1>1. g = Step(g)
  <2> SUFFICES ASSUME NEW t \in Tree
               PROVE  NodesOf[t] = IF t = Nil THEN {} ELSE {t} \cup g[t.left] \cup g[t.right]
    BY Zenon
  <2> QED
    BY TreeIs, NodesOfIs DEF Closed
<1>2. Subtrees = CHOOSE f : f = Step(f)
  BY DEF Subtrees
<1>3. Subtrees = Step(Subtrees)
  <2> HIDE DEF Step, g
  <2> QED
    BY <1>1, <1>2
<1> QED
  BY <1>3

(* The recursion of NodeCount. *)
LEMMA NodeCountUnfolded ==
  \A t \in Tree : NodeCount[t] = IF t = Nil THEN 0 ELSE NodeCount[t.left] + 1 + NodeCount[t.right]
<1> DEFINE Step(f) == [t \in Tree |-> IF t = Nil THEN 0 ELSE f[t.left] + 1 + f[t.right]]
           g == [t \in Tree |-> Count[t]]
<1>1. g = Step(g)
  <2> SUFFICES ASSUME NEW t \in Tree
               PROVE  Count[t] = IF t = Nil THEN 0 ELSE g[t.left] + 1 + g[t.right]
    BY Zenon
  <2> QED
    BY TreeIs, CountIs DEF Closed
<1>2. NodeCount = CHOOSE f : f = Step(f)
  BY DEF NodeCount
<1>3. NodeCount = Step(NodeCount)
  <2> HIDE DEF Step, g
  <2> QED
    BY <1>1, <1>2
<1> QED
  BY <1>3

(* On the trees of the bounded set the definitions agree.                  *)
LEMMA SameReference ==
  \A t \in Tree : Subtrees[t] = NodesOf[t] /\ NodeCount[t] = Count[t]
<1> DEFINE P == {t \in AnyTree : t \in Tree => Subtrees[t] = NodesOf[t] /\ NodeCount[t] = Count[t]}
<1>1. Nil \in P
  BY TreeIs, SubtreesUnfolded, NodeCountUnfolded, NilIs, NodesOfIs
<1>2. ASSUME NEW t \in AnyNode, t.left \in P, t.right \in P
      PROVE  t \in P
  <2>1. IsNode(t)
    BY NodeOrNot
  <2> SUFFICES ASSUME t \in Tree
               PROVE  Subtrees[t] = NodesOf[t] /\ NodeCount[t] = Count[t]
    BY <2>1 DEF IsNode
  <2>2. t.left \in Tree /\ t.right \in Tree
    BY <2>1, TreeIs DEF Closed, IsNode
  <2>3. Subtrees[t.left] = NodesOf[t.left] /\ Subtrees[t.right] = NodesOf[t.right]
        /\ NodeCount[t.left] = Count[t.left] /\ NodeCount[t.right] = Count[t.right]
    BY <1>2, <2>2
  <2>4. t # Nil /\ t \in AnyTree
    BY <2>1 DEF IsNode
  <2>5. Subtrees[t] = {t} \cup Subtrees[t.left] \cup Subtrees[t.right]
    BY <2>4, SubtreesUnfolded
  <2>6. NodeCount[t] = NodeCount[t.left] + 1 + NodeCount[t.right]
    BY <2>4, NodeCountUnfolded
  <2> QED
    BY <2>3, <2>4, <2>5, <2>6, NodesOfIs, CountIs
<1>3. AnyTree \subseteq P
  <2> HIDE DEF P
  <2> QED
    BY <1>1, <1>2, TreeInduction
<1> QED
  BY <1>3, TreeIs

(* The recursion of BlackHeights. *)
LEMMA BlackHeightsUnfolded ==
  \A t \in Tree : BlackHeights[t] =
    IF t = Nil THEN {0}
    ELSE {h + (IF t.red THEN 0 ELSE 1) : h \in BlackHeights[t.left] \cup BlackHeights[t.right]}
<1> DEFINE V == SUBSET Nat
           Up(t, a, b) == {h + (IF t.red THEN 0 ELSE 1) : h \in a \cup b}
           E == [p \in Tree \X V \X V |-> Up(p[1], p[2], p[3])]
           Step(f) == [t \in Tree |-> IF t = Nil THEN {0} ELSE
                         {h + (IF t.red THEN 0 ELSE 1) : h \in f[t.left] \cup f[t.right]}]
<1>1. \A t, a, b : a \in V /\ b \in V => Up(t, a, b) \in V
  OBVIOUS
<1>2. E \in [Tree \X V \X V -> V]
  <2> HIDE DEF Up, V
  <2> QED
    BY <1>1
<1>3. \A t \in Tree, a \in V, b \in V : E[<<t, a, b>>] = Up(t, a, b)
  <2> HIDE DEF Up, V
  <2> QED
    OBVIOUS
<1>4. Closed(Tree) /\ {0} \in V
  BY TreeIs
<1> HIDE DEF E, V
<1>5. FoldExists(Tree, V, {0}, E)
  BY <1>2, <1>4, StructuralRecursion
<1>6. PICK f \in [Tree -> V] : Folds(f, Tree, {0}, E)
  BY <1>5 DEF FoldExists
<1>7. f = Step(f)
  <2> SUFFICES ASSUME NEW t \in Tree
               PROVE  f[t] = IF t = Nil THEN {0} ELSE Up(t, f[t.left], f[t.right])
    BY Zenon
  <2>1. CASE t = Nil
    BY <1>6, <2>1 DEF Folds
  <2>2. CASE t # Nil
    <3>1. t.left \in Tree /\ t.right \in Tree
      BY <2>2, TreeIs DEF Closed
    <3>2. f[t] = E[<<t, f[t.left], f[t.right]>>]
      BY <1>6, <2>2 DEF Folds
    <3> HIDE DEF Up
    <3> QED
      BY <1>3, <2>2, <3>1, <3>2
  <2> QED
    BY <2>1, <2>2
<1>8. BlackHeights = CHOOSE g : g = Step(g)
  BY DEF BlackHeights
<1>9. BlackHeights = Step(BlackHeights)
  <2> HIDE DEF Step
  <2> QED
    BY <1>7, <1>8
<1> QED
  BY <1>9

-----------------------------------------------------------------------------
(***************************************************************************)
(* The recursive operations of LLRB, unfolded once.                        *)
(***************************************************************************)

(* insert_node at a node whose subtrees are l and r after the call below.  *)
InsertAt(h, l, r, node) ==
  LET g == IF node.base < h.base THEN [h EXCEPT !.left = l] ELSE [h EXCEPT !.right = r]
  IN SplitFours(IF IsRed(g.right) /\ ~IsRed(g.left) THEN RotateLeft(g) ELSE g)

(* insert_node returns a tree (tree_alloc.rs:183-206). *)
LEMMA InsertAtType ==
  ASSUME NEW h, IsNode(h), NEW l \in AnyTree, NEW r \in AnyTree, NEW node
  PROVE  InsertAt(h, l, r, node) \in AnyTree
<1> DEFINE g == IF node.base < h.base THEN [h EXCEPT !.left = l] ELSE [h EXCEPT !.right = r]
           k == IF IsRed(g.right) /\ ~IsRed(g.left) THEN RotateLeft(g) ELSE g
<1>1. IsNode(g)
  BY NodeWithChild
<1> HIDE DEF g
<1>2. IsNode(k)
  BY <1>1, RotateLeftKeeps DEF IsRed, Keeps
<1> HIDE DEF k
<1>3. SplitFours(k) \in AnyTree
  BY <1>2, SplitFoursKeeps DEF Keeps, IsNode
<1> QED
  BY <1>3 DEF InsertAt, k, g

(* One call of insert_node in terms of the calls below it                  *)
(* (tree_alloc.rs:183-206).                                                *)
LEMMA InsertUnfolded ==
  ASSUME NEW node \in AnyTree, NEW t \in Tree
  PROVE  InsertNode(t, node) =
           IF t = Nil THEN node
           ELSE InsertAt(t, InsertNode(t.left, node), InsertNode(t.right, node), node)
<1> DEFINE V == AnyTree
           E == [p \in Tree \X V \X V |-> IF p[1] = Nil THEN Nil ELSE InsertAt(p[1], p[2], p[3], node)]
           Step(f) == [h \in Tree |->
                         IF h = Nil THEN node
                         ELSE LET g == IF node.base < h.base
                                       THEN [h EXCEPT !.left = f[@]]
                                       ELSE [h EXCEPT !.right = f[@]]
                              IN SplitFours(IF IsRed(g.right) /\ ~IsRed(g.left) THEN RotateLeft(g) ELSE g)]
           F == CHOOSE f : f = Step(f)
<1>1. \A h \in Tree : h # Nil => IsNode(h) /\ h.left \in Tree /\ h.right \in Tree
  BY TreeIs DEF Closed, IsNode
<1>2. \A h \in Tree, a \in V, b \in V : h # Nil => InsertAt(h, a, b, node) \in V
  BY <1>1, InsertAtType
<1>3. E \in [Tree \X V \X V -> V]
  <2> HIDE DEF V
  <2>1. Nil \in V
    BY AnyTreeIs DEF V
  <2> QED
    BY <1>2, <2>1
<1>4. \A h \in Tree, a \in V, b \in V : h # Nil => E[<<h, a, b>>] = InsertAt(h, a, b, node)
  <2> HIDE DEF V
  <2> QED
    OBVIOUS
<1>5. Closed(Tree) /\ node \in V
  BY TreeIs
<1> HIDE DEF E, V
<1>6. FoldExists(Tree, V, node, E)
  BY <1>3, <1>5, StructuralRecursion
<1>7. PICK f \in [Tree -> V] : Folds(f, Tree, node, E)
  BY <1>6 DEF FoldExists
<1>8. \A ff, h : h \in Tree /\ h # Nil =>
        LET g == IF node.base < h.base THEN [h EXCEPT !.left = ff[@]] ELSE [h EXCEPT !.right = ff[@]]
        IN SplitFours(IF IsRed(g.right) /\ ~IsRed(g.left) THEN RotateLeft(g) ELSE g)
           = InsertAt(h, ff[h.left], ff[h.right], node)
  <2> SUFFICES ASSUME NEW ff, NEW h \in Tree, h # Nil
               PROVE  /\ [h EXCEPT !.left = ff[@]] = [h EXCEPT !.left = ff[h.left]]
                      /\ [h EXCEPT !.right = ff[@]] = [h EXCEPT !.right = ff[h.right]]
    BY Zenon DEF InsertAt
  <2>1. h \in AnyNode
    BY <1>1, NodeOrNot
  <2> QED
    BY <2>1 DEF AnyNode, Nodes
<1>9. f = Step(f)
  <2> SUFFICES ASSUME NEW h \in Tree
               PROVE  f[h] = Step(f)[h]
    BY Zenon
  <2>1. CASE h = Nil
    BY <1>7, <2>1 DEF Folds
  <2>2. CASE h # Nil
    <3>1. h.left \in Tree /\ h.right \in Tree
      BY <1>1, <2>2
    <3>2. f[h] = E[<<h, f[h.left], f[h.right]>>]
      BY <1>7, <2>2 DEF Folds
    <3>3. f[h] = InsertAt(h, f[h.left], f[h.right], node)
      BY <1>4, <2>2, <3>1, <3>2
    <3> QED
      BY <1>8, <2>2, <3>3, Zenon
  <2> QED
    BY <2>1, <2>2
<1>10. F = Step(F)
  <2> HIDE DEF Step
  <2> QED
    BY <1>9
<1>11. \A h : InsertNode(h, node) = F[h]
  BY Zenon DEF InsertNode
<1> HIDE DEF F
<1>12. CASE t = Nil
  BY <1>10, <1>11, <1>12
<1>13. CASE t # Nil
  <2>1. F[t] = LET g == IF node.base < t.base THEN [t EXCEPT !.left = F[@]] ELSE [t EXCEPT !.right = F[@]]
               IN SplitFours(IF IsRed(g.right) /\ ~IsRed(g.left) THEN RotateLeft(g) ELSE g)
    BY <1>10, <1>13, Zenon
  <2>2. F[t] = InsertAt(t, F[t.left], F[t.right], node)
    BY <1>8, <1>13, <2>1, Zenon
  <2>3. /\ InsertNode(t, node) = F[t] /\ InsertNode(t.left, node) = F[t.left]
        /\ InsertNode(t.right, node) = F[t.right]
    BY <1>11, Zenon
  <2> QED
    BY <1>13, <2>2, <2>3
<1> QED
  BY <1>12, <1>13

(* One round of predecessor in terms of the next ones                      *)
(* (tree_alloc.rs:258-273).                                                *)
LEMMA PredecessorUnfolded ==
  ASSUME NEW addr, NEW t \in Tree
  PROVE  PredecessorIn(t, addr) =
           IF t = Nil THEN {}
           ELSE IF t.base >= addr THEN PredecessorIn(t.left, addr)
           ELSE IF PredecessorIn(t.right, addr) = {} THEN {t} ELSE PredecessorIn(t.right, addr)
<1> DEFINE V == SUBSET AnyTree
           At(h, l, r) == IF h.base >= addr THEN l ELSE IF r = {} THEN {h} ELSE r
           E == [p \in Tree \X V \X V |-> At(p[1], p[2], p[3])]
           Step(f) == [h \in Tree |->
                         IF h = Nil THEN {}
                         ELSE IF h.base >= addr THEN f[h.left]
                         ELSE IF f[h.right] = {} THEN {h} ELSE f[h.right]]
           F == CHOOSE f : f = Step(f)
<1>1. \A h \in Tree : h \in AnyTree /\ (h # Nil => h.left \in Tree /\ h.right \in Tree)
  BY TreeIs DEF Closed
<1>2. \A h \in Tree, a \in V, b \in V : At(h, a, b) \in V
  BY <1>1
<1>3. E \in [Tree \X V \X V -> V]
  <2> HIDE DEF V, At
  <2> QED
    BY <1>2
<1>4. \A h \in Tree, a \in V, b \in V : E[<<h, a, b>>] = At(h, a, b)
  <2> HIDE DEF V, At
  <2> QED
    OBVIOUS
<1>5. Closed(Tree) /\ {} \in V
  BY TreeIs
<1> HIDE DEF E, V
<1>6. FoldExists(Tree, V, {}, E)
  BY <1>3, <1>5, StructuralRecursion
<1>7. PICK f \in [Tree -> V] : Folds(f, Tree, {}, E)
  BY <1>6 DEF FoldExists
<1>8. f = Step(f)
  <2> SUFFICES ASSUME NEW h \in Tree
               PROVE  f[h] = IF h = Nil THEN {} ELSE At(h, f[h.left], f[h.right])
    BY Zenon
  <2>1. CASE h = Nil
    BY <1>7, <2>1 DEF Folds
  <2>2. CASE h # Nil
    <3>1. h.left \in Tree /\ h.right \in Tree
      BY <1>1, <2>2
    <3>2. f[h] = E[<<h, f[h.left], f[h.right]>>]
      BY <1>7, <2>2 DEF Folds
    <3> HIDE DEF At
    <3> QED
      BY <1>4, <2>2, <3>1, <3>2
  <2> QED
    BY <2>1, <2>2
<1>9. F = Step(F)
  <2> HIDE DEF Step
  <2> QED
    BY <1>8
<1>10. \A h : PredecessorIn(h, addr) = F[h]
  BY Zenon DEF PredecessorIn
<1> HIDE DEF F
<1>11. F[t] = IF t = Nil THEN {}
              ELSE IF t.base >= addr THEN F[t.left]
              ELSE IF F[t.right] = {} THEN {t} ELSE F[t.right]
  BY <1>9, Zenon
<1>12. PredecessorIn(t, addr) = F[t] /\ PredecessorIn(t.left, addr) = F[t.left] /\ PredecessorIn(t.right, addr) = F[t.right]
  BY <1>10, Zenon
<1> QED
  BY <1>11, <1>12

(* One round of successor in terms of the next ones                        *)
(* (tree_alloc.rs:275-286).                                                *)
LEMMA SuccessorUnfolded ==
  ASSUME NEW addr, NEW t \in Tree
  PROVE  SuccessorIn(t, addr) =
           IF t = Nil THEN {}
           ELSE IF t.base < addr THEN SuccessorIn(t.right, addr)
           ELSE IF SuccessorIn(t.left, addr) = {} THEN {t} ELSE SuccessorIn(t.left, addr)
<1> DEFINE V == SUBSET AnyTree
           At(h, l, r) == IF h.base < addr THEN r ELSE IF l = {} THEN {h} ELSE l
           E == [p \in Tree \X V \X V |-> At(p[1], p[2], p[3])]
           Step(f) == [h \in Tree |->
                         IF h = Nil THEN {}
                         ELSE IF h.base < addr THEN f[h.right]
                         ELSE IF f[h.left] = {} THEN {h} ELSE f[h.left]]
           F == CHOOSE f : f = Step(f)
<1>1. \A h \in Tree : h \in AnyTree /\ (h # Nil => h.left \in Tree /\ h.right \in Tree)
  BY TreeIs DEF Closed
<1>2. \A h \in Tree, a \in V, b \in V : At(h, a, b) \in V
  BY <1>1
<1>3. E \in [Tree \X V \X V -> V]
  <2> HIDE DEF V, At
  <2> QED
    BY <1>2
<1>4. \A h \in Tree, a \in V, b \in V : E[<<h, a, b>>] = At(h, a, b)
  <2> HIDE DEF V, At
  <2> QED
    OBVIOUS
<1>5. Closed(Tree) /\ {} \in V
  BY TreeIs
<1> HIDE DEF E, V
<1>6. FoldExists(Tree, V, {}, E)
  BY <1>3, <1>5, StructuralRecursion
<1>7. PICK f \in [Tree -> V] : Folds(f, Tree, {}, E)
  BY <1>6 DEF FoldExists
<1>8. f = Step(f)
  <2> SUFFICES ASSUME NEW h \in Tree
               PROVE  f[h] = IF h = Nil THEN {} ELSE At(h, f[h.left], f[h.right])
    BY Zenon
  <2>1. CASE h = Nil
    BY <1>7, <2>1 DEF Folds
  <2>2. CASE h # Nil
    <3>1. h.left \in Tree /\ h.right \in Tree
      BY <1>1, <2>2
    <3>2. f[h] = E[<<h, f[h.left], f[h.right]>>]
      BY <1>7, <2>2 DEF Folds
    <3> HIDE DEF At
    <3> QED
      BY <1>4, <2>2, <3>1, <3>2
  <2> QED
    BY <2>1, <2>2
<1>9. F = Step(F)
  <2> HIDE DEF Step
  <2> QED
    BY <1>8
<1>10. \A h : SuccessorIn(h, addr) = F[h]
  BY Zenon DEF SuccessorIn
<1> HIDE DEF F
<1>11. F[t] = IF t = Nil THEN {}
              ELSE IF t.base < addr THEN F[t.right]
              ELSE IF F[t.left] = {} THEN {t} ELSE F[t.left]
  BY <1>9, Zenon
<1>12. SuccessorIn(t, addr) = F[t] /\ SuccessorIn(t.left, addr) = F[t.left] /\ SuccessorIn(t.right, addr) = F[t.right]
  BY <1>10, Zenon
<1> QED
  BY <1>11, <1>12

(* One round of min_node in terms of the next ones                         *)
(* (tree_alloc.rs:323-328).                                                *)
LEMMA MinNodeUnfolded ==
  ASSUME NEW t \in Tree, t # Nil
  PROVE  MinNode(t) = IF t.left = Nil THEN t ELSE MinNode(t.left)
<1> DEFINE V == AnyTree
           At(h, l, r) == IF h.left = Nil THEN h ELSE l
           E == [p \in Tree \X V \X V |-> IF p[1] = Nil THEN Nil ELSE At(p[1], p[2], p[3])]
           Step(f) == [h \in Tree \ {Nil} |-> IF h.left = Nil THEN h ELSE f[h.left]]
           F == CHOOSE f : f = Step(f)
<1>1. \A h \in Tree : h \in AnyTree /\ (h # Nil => h.left \in Tree /\ h.right \in Tree)
  BY TreeIs DEF Closed
<1>2. \A h \in Tree, a \in V, b \in V : At(h, a, b) \in V
  BY <1>1
<1>3. E \in [Tree \X V \X V -> V]
  <2>1. Nil \in V
    BY AnyTreeIs
  <2> HIDE DEF V, At
  <2> QED
    BY <1>2, <2>1
<1>4. \A h \in Tree, a \in V, b \in V : h # Nil => E[<<h, a, b>>] = At(h, a, b)
  <2> HIDE DEF V, At
  <2> QED
    OBVIOUS
<1>5. Closed(Tree) /\ Nil \in V
  BY TreeIs, AnyTreeIs
<1> HIDE DEF E, V
<1>6. FoldExists(Tree, V, Nil, E)
  BY <1>3, <1>5, StructuralRecursion
<1>7. PICK f \in [Tree -> V] : Folds(f, Tree, Nil, E)
  BY <1>6 DEF FoldExists
<1> DEFINE g == [h \in Tree \ {Nil} |-> f[h]]
<1>8. g = Step(g)
  <2> SUFFICES ASSUME NEW h \in Tree \ {Nil}
               PROVE  g[h] = Step(g)[h]
    BY Zenon
  <2>1. h.left \in Tree /\ h.right \in Tree
    BY <1>1
  <2>2. f[h] = E[<<h, f[h.left], f[h.right]>>]
    BY <1>7 DEF Folds
  <2>3. f[h] = At(h, f[h.left], f[h.right])
    <3> HIDE DEF At
    <3> QED
      BY <1>4, <2>1, <2>2
  <2> QED
    BY <2>1, <2>3
<1>9. F = Step(F)
  <2>1. \E ff : ff = Step(ff)
    <3> HIDE DEF Step
    <3> QED
      BY <1>8
  <2> HIDE DEF Step
  <2> QED
    BY <2>1
<1>10. \A h : MinNode(h) = F[h]
  BY Zenon DEF MinNode
<1> HIDE DEF F
<1>11. F[t] = IF t.left = Nil THEN t ELSE F[t.left]
  BY <1>9, Zenon
<1>12. MinNode(t) = F[t] /\ MinNode(t.left) = F[t.left]
  BY <1>10, Zenon
<1> QED
  BY <1>11, <1>12

(* min_node finds the least key of the tree (tree_alloc.rs:323-328). *)
LEMMA MinNodeIs ==
  ASSUME NEW t \in Tree, t # Nil
  PROVE  /\ MinNode(t) \in NodesOf[t] /\ IsNode(MinNode(t)) /\ RegionOf(MinNode(t)) \in Regs(t)
         /\ InOrder(t) => \A r \in Regs(t) : MinNode(t).base <= r.base
<1> DEFINE Good(u) == /\ MinNode(u) \in NodesOf[u]
                      /\ InOrder(u) => \A r \in Regs(u) : MinNode(u).base <= r.base
           P == {u \in AnyTree : u \in Tree /\ u # Nil => Good(u)}
<1>1. Nil \in P
  BY AnyTreeIs
<1>2. ASSUME NEW u \in AnyNode, u.left \in P, u.right \in P
      PROVE  u \in P
  <2>1. IsNode(u)
    BY NodeOrNot
  <2> SUFFICES ASSUME u \in Tree
               PROVE  Good(u)
    BY <2>1 DEF IsNode
  <2>2. u # Nil /\ u \in AnyTree /\ u.left \in Tree /\ u.left \in AnyTree /\ u.right \in AnyTree /\ u.base \in Nat
    BY <2>1, TreeIs, NodeParts DEF Closed, IsNode
  <2>3. NodesOf[u] = {u} \cup NodesOf[u.left] \cup NodesOf[u.right]
    BY <2>2, NodesOfIs
  <2>4. /\ Regs(u) = {RegionOf(u)} \cup Regs(u.left) \cup Regs(u.right)
        /\ InOrder(u) => /\ InOrder(u.left)
                         /\ \A r \in Regs(u.left) : r.base < u.base
                         /\ \A r \in Regs(u.right) : u.base < r.base
    BY <2>2, NodeIs
  <2>5. RegionOf(u).base = u.base /\ \A r \in Regs(u.right) : r.base \in Nat
    BY <2>2, TypesOf DEF RegionOf
  <2>6. CASE u.left = Nil
    <3>1. MinNode(u) = u /\ Regs(u.left) = {}
      BY <2>2, <2>6, MinNodeUnfolded, NilIs
    <3> QED
      BY <2>2, <2>3, <2>4, <2>5, <3>1
  <2>7. CASE u.left # Nil
    <3>1. MinNode(u) = MinNode(u.left) /\ Good(u.left)
      BY <1>2, <2>2, <2>7, MinNodeUnfolded
    <3>2. MinNode(u) \in NodesOf[u.left] /\ MinNode(u) \in AnyNode
      BY <2>2, <3>1, NodesOfIs
    <3>3. RegionOf(MinNode(u)) \in Regs(u.left) /\ RegionOf(MinNode(u)).base = MinNode(u).base /\ MinNode(u).base \in Nat
      BY <3>2 DEF Regs, RegionOf, AnyNode, Nodes
    <3>4. InOrder(u) => \A r \in Regs(u) : MinNode(u).base <= r.base
      <4> SUFFICES ASSUME InOrder(u), NEW r \in Regs(u)
                   PROVE  MinNode(u).base <= r.base
        OBVIOUS
      <4>1. MinNode(u).base < u.base
        BY <2>4, <3>3
      <4>2. r \in Regs(u.left) => MinNode(u).base <= r.base
        BY <2>4, <3>1
      <4> QED
        BY <2>2, <2>4, <2>5, <3>3, <4>1, <4>2
    <3> QED
      BY <2>3, <3>2, <3>4
  <2> QED
    BY <2>6, <2>7
<1>3. AnyTree \subseteq P
  <2> HIDE DEF P
  <2> QED
    BY <1>1, <1>2, TreeInduction
<1>4. Good(t) /\ t \in AnyTree
  BY <1>3, TreeIs
<1>5. MinNode(t) \in AnyNode
  BY <1>4, NodesOfIs
<1> QED
  BY <1>4, <1>5, NodeOrNot DEF Regs

-----------------------------------------------------------------------------
Results == SUBSET [tree : AnyTree, freed : Nat]

(* What delete_min makes of the node it descends from and of the result    *)
(* for the left child.                                                     *)
MinAt(g, f) == {Removed(FixUp([g EXCEPT !.left = sub.tree]), sub.freed) : sub \in f[g.left]}

MinStep(h, f) ==
  IF h.left = Nil THEN {Removed(Nil, 1)} ELSE UNION {MinAt(g, f) : g \in LeanLeft(h)}

(* fix_up of the node above a result returns a tree. *)
LEMMA ParentType ==
  ASSUME NEW g, IsNode(g), NEW d \in [tree : AnyTree, freed : Nat]
  PROVE  /\ Removed(FixUp([g EXCEPT !.left = d.tree]), d.freed) \in [tree : AnyTree, freed : Nat]
         /\ Removed(FixUp([g EXCEPT !.right = d.tree]), d.freed) \in [tree : AnyTree, freed : Nat]
<1>1. d.tree \in AnyTree /\ d.freed \in Nat
  OBVIOUS
<1>2. IsNode([g EXCEPT !.left = d.tree]) /\ IsNode([g EXCEPT !.right = d.tree])
  BY <1>1, NodeWithChild
<1>3. FixUp([g EXCEPT !.left = d.tree]) \in AnyTree /\ FixUp([g EXCEPT !.right = d.tree]) \in AnyTree
  BY <1>2, FixUpKeeps DEF Keeps, IsNode
<1> QED
  BY <1>1, <1>3 DEF Removed

(* A node of the bounded set, and the level of its children. *)
LEMMA TreeNode ==
  ASSUME NEW h \in Tree, h # Nil
  PROVE  /\ IsNode(h) /\ h \in AnyTree
         /\ \E n \in Nat : Tree = Trees[n + 1] /\ h.left \in Trees[n] /\ h.right \in Trees[n]
<1>1. PICK n \in Nat : Tree = Trees[n + 1]
  BY TreeIs
<1> QED
  BY <1>1, ChildrenIn DEF IsNode

(* Where delete_min and delete go to on the left there are fewer nodes:    *)
(* the recursion ends (tree_alloc.rs:335-338).                             *)
LEMMA LeantLeft ==
  ASSUME NEW h \in Tree, h # Nil, h.left # Nil, NEW g \in LeanLeft(h)
  PROVE  /\ IsNode(g) /\ Keeps(h, g) /\ g.left \in Tree /\ g.left # Nil
         /\ Count[g.left] \in Nat /\ Count[h] \in Nat /\ Count[g.left] < Count[h]
         /\ InOrder(h) => h.base <= g.base
<1>1. PICK n \in Nat : IsNode(h) /\ Tree = Trees[n + 1] /\ h.left \in Trees[n] /\ h.right \in Trees[n]
  BY TreeNode
<1>2. Keeps(h, g) /\ g.left \in Trees[n + 1] /\ g.left # Nil /\ (InOrder(h) => h.base <= g.base)
  BY <1>1, LeanLeftKeeps
<1>3. IsNode(g) /\ Count[g] = Count[h] /\ g.left \in AnyTree /\ g.right \in AnyTree
  BY <1>2, NodeParts DEF Keeps, IsNode
<1>4. Count[g] = Count[g.left] + 1 + Count[g.right]
  BY <1>3, NodeIs DEF IsNode
<1>5. Count[g.left] \in Nat /\ Count[g.right] \in Nat
  BY <1>3, TypesOf
<1> QED
  BY <1>1, <1>2, <1>3, <1>4, <1>5

(* Where delete goes to on the right there are fewer nodes: the recursion  *)
(* ends (tree_alloc.rs:364-374).                                           *)
LEMMA LeantRight ==
  ASSUME NEW h \in Tree, h # Nil, Turned(h).right # Nil, NEW g \in LeanRight(Turned(h))
  PROVE  /\ IsNode(g) /\ Keeps(h, g) /\ g.right \in Tree /\ g.right # Nil
         /\ Count[g.right] \in Nat /\ Count[h] \in Nat /\ Count[g.right] < Count[h]
         /\ InOrder(h) => g.base <= h.base
<1>1. PICK n \in Nat : IsNode(h) /\ Tree = Trees[n + 1] /\ h.left \in Trees[n] /\ h.right \in Trees[n]
  BY TreeNode
<1>2. Keeps(h, g) /\ g.right \in Trees[n + 1] /\ g.right # Nil /\ (InOrder(h) => g.base <= h.base)
  BY <1>1, LeanRightKeeps
<1>3. IsNode(g) /\ Count[g] = Count[h] /\ g.left \in AnyTree /\ g.right \in AnyTree
  BY <1>2, NodeParts DEF Keeps, IsNode
<1>4. Count[g] = Count[g.left] + 1 + Count[g.right]
  BY <1>3, NodeIs DEF IsNode
<1>5. Count[g.left] \in Nat /\ Count[g.right] \in Nat
  BY <1>3, TypesOf
<1> QED
  BY <1>1, <1>2, <1>3, <1>4, <1>5

(* One call of delete_min returns results when the call below it does. *)
LEMMA MinStepType ==
  ASSUME NEW h \in Tree, h # Nil, NEW f,
         \A u \in Tree \ {Nil} : Count[u] < Count[h] => f[u] \in Results
  PROVE  MinStep(h, f) \in Results
<1>1. CASE h.left = Nil
  <2>1. Nil \in AnyTree
    BY AnyTreeIs
  <2> QED
    BY <1>1, <2>1 DEF MinStep, Results, Removed
<1>2. CASE h.left # Nil
  <2>1. ASSUME NEW g \in LeanLeft(h)
        PROVE  MinAt(g, f) \in Results
    <3>1. IsNode(g) /\ f[g.left] \in Results
      BY <1>2, LeantLeft
    <3> QED
      BY <3>1, ParentType DEF MinAt, Results
  <2> QED
    BY <1>2, <2>1 DEF MinStep, Results
<1> QED
  BY <1>1, <1>2

(* One call of delete_min looks at calls for fewer nodes only. *)
LEMMA MinStepLocal ==
  ASSUME NEW h \in Tree, h # Nil, NEW f, NEW g,
         \A u \in Tree \ {Nil} : Count[u] < Count[h] => f[u] = g[u]
  PROVE  MinStep(h, f) = MinStep(h, g)
<1>1. CASE h.left = Nil
  BY <1>1 DEF MinStep
<1>2. CASE h.left # Nil
  <2>1. ASSUME NEW v \in LeanLeft(h)
        PROVE  MinAt(v, f) = MinAt(v, g)
    <3>1. f[v.left] = g[v.left]
      BY <1>2, LeantLeft
    <3> QED
      BY <3>1 DEF MinAt
  <2> QED
    BY <1>2, <2>1 DEF MinStep
<1> QED
  BY <1>1, <1>2

(* One call of delete_min in terms of the call below it                    *)
(* (tree_alloc.rs:330-340).                                                *)
LEMMA DeleteMinUnfolded ==
  \A h \in Tree \ {Nil} : DeleteMin[h] = MinStep(h, DeleteMin)
<1> DEFINE S == Tree \ {Nil}
           V == Results
           D == [p \in S \X [S -> V] |-> MinStep(p[1], p[2])]
           m == [t \in S |-> Count[t]]
           Step(f) == [h \in S |-> MinStep(h, f)]
<1>1. S \subseteq AnyTree
  BY TreeIs
<1>2. m \in [S -> Nat]
  BY <1>1, TypesOf
<1>3. ASSUME NEW h \in S, NEW f \in [S -> V]
      PROVE  D[<<h, f>>] = MinStep(h, f) /\ MinStep(h, f) \in V
  <2>1. MinStep(h, f) \in V
    BY MinStepType
  <2>2. D[<<h, f>>] = MinStep(h, f)
    <3> HIDE DEF S, V
    <3> QED
      OBVIOUS
  <2> QED
    BY <2>1, <2>2
<1>4. D \in [S \X [S -> V] -> V]
  <2>1. \A p \in S \X [S -> V] : MinStep(p[1], p[2]) \in V
    <3> SUFFICES ASSUME NEW p \in S \X [S -> V] PROVE MinStep(p[1], p[2]) \in V
      OBVIOUS
    <3>1. p[1] \in S /\ p[2] \in [S -> V]
      OBVIOUS
    <3> HIDE DEF S, V
    <3> QED
      BY <1>3, <3>1
  <2> HIDE DEF S, V
  <2> QED
    BY <2>1
<1>5. Local(S, V, D, m)
  <2> SUFFICES ASSUME NEW h \in S, NEW f \in [S -> V], NEW g \in [S -> V],
                      \A y \in S : m[y] < m[h] => f[y] = g[y]
               PROVE  D[<<h, f>>] = D[<<h, g>>]
    BY DEF Local
  <2>1. \A u \in S : Count[u] < Count[h] => f[u] = g[u]
    OBVIOUS
  <2>2. MinStep(h, f) = MinStep(h, g)
    BY <2>1, MinStepLocal
  <2> HIDE DEF S, V, D
  <2> QED
    BY <1>3, <2>2
<1>6. V # {} /\ Recursion(S, V, D, m)
  BY <1>2, <1>4, <1>5 DEF Recursion, Results
<1> HIDE DEF m, V, S, D
<1>7. Solvable(S, V, D)
  BY <1>6, RecursionExists
<1>8. PICK f \in [S -> V] : \A x \in S : f[x] = D[<<x, f>>]
  BY <1>7 DEF Solvable
<1>9. f = Step(f)
  <2>1. \A x \in S : f[x] = MinStep(x, f)
    BY <1>3, <1>8
  <2> QED
    BY <2>1, Zenon
<1>10. DeleteMin = CHOOSE g : g = Step(g)
  BY Zenon DEF DeleteMin, S, MinStep, MinAt
<1>11. DeleteMin = Step(DeleteMin)
  <2> HIDE DEF Step
  <2> QED
    BY <1>9, <1>10
<1>12. \A h \in S : DeleteMin[h] = MinStep(h, DeleteMin)
  BY <1>11, Zenon
<1> QED
  BY <1>12 DEF S

-----------------------------------------------------------------------------
(***************************************************************************)
(* delete, unfolded once.                                                  *)
(***************************************************************************)

(* delete_min returns results, or panics (tree_alloc.rs:330-340). *)
LEMMA DeleteMinType ==
  \A h \in Tree \ {Nil} : DeleteMin[h] \in Results
<1> DEFINE T == {n \in Nat : \A h \in Tree \ {Nil} : Count[h] = n => DeleteMin[h] \in Results}
<1>1. ASSUME NEW n \in Nat, \A k \in Nat : k < n => k \in T
      PROVE  n \in T
  <2> SUFFICES ASSUME NEW h \in Tree \ {Nil}, Count[h] = n PROVE DeleteMin[h] \in Results
    OBVIOUS
  <2>1. ASSUME NEW u \in Tree \ {Nil}, Count[u] < Count[h]
        PROVE  DeleteMin[u] \in Results
    <3>1. Count[u] \in Nat
      BY TreeIs, TypesOf
    <3> QED
      BY <1>1, <2>1, <3>1
  <2>2. MinStep(h, DeleteMin) \in Results
    BY <2>1, MinStepType
  <2> QED
    BY <2>2, DeleteMinUnfolded
<1>2. \A n \in Nat : n \in T
  <2> HIDE DEF T
  <2> QED
    BY <1>1, Inductive
<1> QED
  BY <1>2, TreeIs, TypesOf

DeleteStep(h, key, f) ==
  IF h = Nil THEN {Removed(Nil, 0)}
  ELSE IF key < h.base THEN DeleteLeft(h, f)
  ELSE DeleteRight(Turned(h), key, f)

(* The call of delete below a node returns results. *)
LEMMA DeleteBelowType ==
  ASSUME NEW g, IsNode(g), g.right \in Tree, g.right # Nil, NEW key, NEW f, f[g.right] \in Results
  PROVE  DeleteBelow(g, key, f) \in Results
<1>1. CASE key = g.base
  <2> DEFINE min == MinNode(g.right)
  <2>1. ASSUME NEW sub \in DeleteMin[g.right]
        PROVE  Removed(FixUp([g EXCEPT !.base = min.base, !.size = min.size, !.right = sub.tree]), sub.freed)
                 \in [tree : AnyTree, freed : Nat]
    <3>1. sub \in [tree : AnyTree, freed : Nat]
      BY DeleteMinType DEF Results
    <3>2. min.base \in Nat /\ min.size \in Nat /\ g \in AnyNode
      BY MinNodeIs, NodeParts, NodeOrNot DEF IsNode
    <3> HIDE DEF min
    <3>3. [g EXCEPT !.base = min.base, !.size = min.size, !.right = sub.tree] \in AnyNode
      BY <3>1, <3>2 DEF AnyNode, Nodes
    <3>4. FixUp([g EXCEPT !.base = min.base, !.size = min.size, !.right = sub.tree]) \in AnyTree
      BY <3>3, FixUpKeeps, NodeOrNot DEF Keeps, IsNode
    <3> QED
      BY <3>1, <3>4 DEF Removed
  <2> QED
    BY <1>1, <2>1 DEF DeleteBelow, Results
<1>2. CASE key # g.base
  BY <1>2, ParentType DEF DeleteBelow, Results
<1> QED
  BY <1>1, <1>2

(* The ends of delete_min and delete are results. *)
LEMMA RemovedType ==
  ASSUME NEW h, IsNode(h)
  PROVE  Removed(FixUp(h), 0) \in [tree : AnyTree, freed : Nat] /\ Removed(Nil, 0) \in [tree : AnyTree, freed : Nat]
         /\ Removed(Nil, 1) \in [tree : AnyTree, freed : Nat]
BY FixUpKeeps, AnyTreeIs DEF Keeps, IsNode, Removed

(* The node delete goes right from keeps what the tree holds. *)
LEMMA TurnedNode ==
  ASSUME NEW h \in Tree, h # Nil
  PROVE  IsNode(Turned(h)) /\ Keeps(h, Turned(h))
BY TreeNode, TurnedKeeps DEF Keeps

(* One call of delete returns results when the calls below it do. *)
LEMMA DeleteStepType ==
  ASSUME NEW h \in Tree, NEW key, NEW f,
         \A u \in Tree : Count[u] < Count[h] => f[u] \in Results
  PROVE  DeleteStep(h, key, f) \in Results
<1>1. CASE h = Nil
  BY <1>1, AnyTreeIs DEF DeleteStep, Results, Removed
<1>2. CASE h # Nil /\ key < h.base
  <2>1. CASE h.left = Nil
    BY <1>2, <2>1, TreeNode, RemovedType DEF DeleteStep, DeleteLeft, Results
  <2>2. CASE h.left # Nil
    <3>1. ASSUME NEW g \in LeanLeft(h)
          PROVE  MinAt(g, f) \in Results
      <4>1. IsNode(g) /\ f[g.left] \in Results
        BY <1>2, <2>2, LeantLeft
      <4> QED
        BY <4>1, ParentType DEF MinAt, Results
    <3> QED
      BY <1>2, <2>2, <3>1 DEF DeleteStep, DeleteLeft, MinAt, Results
  <2> QED
    BY <2>1, <2>2
<1>3. CASE h # Nil /\ ~(key < h.base)
  <2>1. CASE Turned(h).right = Nil
    BY <1>3, <2>1, TurnedNode, RemovedType DEF DeleteStep, DeleteRight, Results
  <2>2. CASE Turned(h).right # Nil
    <3>1. ASSUME NEW g \in LeanRight(Turned(h))
          PROVE  DeleteBelow(g, key, f) \in Results
      BY <1>3, <2>2, LeantRight, DeleteBelowType
    <3> QED
      BY <1>3, <2>2, <3>1 DEF DeleteStep, DeleteRight, Results
  <2> QED
    BY <2>1, <2>2
<1> QED
  BY <1>1, <1>2, <1>3

(* One call of delete looks at calls for fewer nodes only. *)
LEMMA DeleteStepLocal ==
  ASSUME NEW h \in Tree, NEW key, NEW f, NEW g,
         \A u \in Tree : Count[u] < Count[h] => f[u] = g[u]
  PROVE  DeleteStep(h, key, f) = DeleteStep(h, key, g)
<1>1. CASE h = Nil
  BY <1>1 DEF DeleteStep
<1>2. CASE h # Nil /\ key < h.base
  <2>1. CASE h.left = Nil
    BY <1>2, <2>1 DEF DeleteStep, DeleteLeft
  <2>2. CASE h.left # Nil
    <3>1. ASSUME NEW v \in LeanLeft(h)
          PROVE  MinAt(v, f) = MinAt(v, g)
      <4>1. f[v.left] = g[v.left]
        BY <1>2, <2>2, LeantLeft
      <4> QED
        BY <4>1 DEF MinAt
    <3>2. \A ff : DeleteLeft(h, ff) = UNION {MinAt(v, ff) : v \in LeanLeft(h)}
      BY <2>2, Zenon DEF DeleteLeft, MinAt
    <3>3. DeleteLeft(h, f) = DeleteLeft(h, g)
      BY <3>1, <3>2
    <3> QED
      BY <1>2, <3>3 DEF DeleteStep
  <2> QED
    BY <2>1, <2>2
<1>3. CASE h # Nil /\ ~(key < h.base)
  <2>1. CASE Turned(h).right = Nil
    BY <1>3, <2>1 DEF DeleteStep, DeleteRight
  <2>2. CASE Turned(h).right # Nil
    <3>1. ASSUME NEW v \in LeanRight(Turned(h))
          PROVE  DeleteBelow(v, key, f) = DeleteBelow(v, key, g)
      <4>1. f[v.right] = g[v.right]
        BY <1>3, <2>2, LeantRight
      <4> QED
        BY <4>1 DEF DeleteBelow
    <3> QED
      BY <1>3, <2>2, <3>1 DEF DeleteStep, DeleteRight
  <2> QED
    BY <2>1, <2>2
<1> QED
  BY <1>1, <1>2, <1>3

(* The function that Delete(t, key) applies to t. *)
DeleteFn(key) == CHOOSE f : f = [h \in Tree |-> DeleteStep(h, key, f)]

(* One call of delete in terms of the calls below it                       *)
(* (tree_alloc.rs:342-379).                                                *)
LEMMA DeleteUnfolded ==
  ASSUME NEW key
  PROVE  /\ \A t : Delete(t, key) = DeleteFn(key)[t]
         /\ \A h \in Tree : DeleteFn(key)[h] = DeleteStep(h, key, DeleteFn(key))
<1> DEFINE S == Tree
           V == Results
           D == [p \in S \X [S -> V] |-> DeleteStep(p[1], key, p[2])]
           m == [t \in S |-> Count[t]]
           Step(f) == [h \in S |-> DeleteStep(h, key, f)]
<1>1. S \subseteq AnyTree
  BY TreeIs
<1>2. m \in [S -> Nat]
  BY <1>1, TypesOf
<1>3. ASSUME NEW h \in S, NEW f \in [S -> V]
      PROVE  D[<<h, f>>] = DeleteStep(h, key, f) /\ DeleteStep(h, key, f) \in V
  <2>1. DeleteStep(h, key, f) \in V
    BY DeleteStepType
  <2>2. D[<<h, f>>] = DeleteStep(h, key, f)
    <3> HIDE DEF S, V
    <3> QED
      OBVIOUS
  <2> QED
    BY <2>1, <2>2
<1>4. D \in [S \X [S -> V] -> V]
  <2>1. \A p \in S \X [S -> V] : DeleteStep(p[1], key, p[2]) \in V
    <3> SUFFICES ASSUME NEW p \in S \X [S -> V] PROVE DeleteStep(p[1], key, p[2]) \in V
      OBVIOUS
    <3>1. p[1] \in S /\ p[2] \in [S -> V]
      OBVIOUS
    <3> HIDE DEF S, V
    <3> QED
      BY <1>3, <3>1
  <2> HIDE DEF S, V
  <2> QED
    BY <2>1
<1>5. Local(S, V, D, m)
  <2> SUFFICES ASSUME NEW h \in S, NEW f \in [S -> V], NEW g \in [S -> V],
                      \A y \in S : m[y] < m[h] => f[y] = g[y]
               PROVE  D[<<h, f>>] = D[<<h, g>>]
    BY DEF Local
  <2>1. \A u \in S : Count[u] < Count[h] => f[u] = g[u]
    OBVIOUS
  <2>2. DeleteStep(h, key, f) = DeleteStep(h, key, g)
    BY <2>1, DeleteStepLocal
  <2> HIDE DEF S, V, D
  <2> QED
    BY <1>3, <2>2
<1>6. V # {} /\ Recursion(S, V, D, m)
  BY <1>2, <1>4, <1>5 DEF Recursion, Results
<1> HIDE DEF m, V, S, D
<1>7. Solvable(S, V, D)
  BY <1>6, RecursionExists
<1>8. PICK f \in [S -> V] : \A x \in S : f[x] = D[<<x, f>>]
  BY <1>7 DEF Solvable
<1>9. f = Step(f)
  <2>1. \A x \in S : f[x] = DeleteStep(x, key, f)
    BY <1>3, <1>8
  <2> QED
    BY <2>1, Zenon
<1>10. DeleteFn(key) = CHOOSE g : g = Step(g)
  BY Zenon DEF DeleteFn, S
<1>11. DeleteFn(key) = Step(DeleteFn(key))
  <2> HIDE DEF Step
  <2> QED
    BY <1>9, <1>10
<1>12. \A h \in S : DeleteFn(key)[h] = DeleteStep(h, key, DeleteFn(key))
  BY <1>11, Zenon
<1>13. \A t : Delete(t, key) = DeleteFn(key)[t]
  BY Zenon DEF Delete, DeleteFn, DeleteStep, Turned
<1> QED
  BY <1>12, <1>13 DEF S

-----------------------------------------------------------------------------
(***************************************************************************)
(* What a deletion leaves in the tree.                                     *)
(***************************************************************************)

(* Exactly the node with the key is removed, and given to the freelist.    *)
Without(R, key) == {r \in R : r.base # key}

RemovedFrom(h, key, d) ==
  /\ d.tree \in AnyTree /\ d.freed = 1 /\ Count[d.tree] + 1 = Count[h]
  /\ Regs(d.tree) = Without(Regs(h), key)
  /\ InOrder(d.tree) /\ Exact(d.tree)

HasKey(h, key) == \E r \in Regs(h) : r.base = key

(* A node with another child, part by part. *)
LEMMA ReplacedParts ==
  ASSUME NEW g, IsNode(g), NEW t \in AnyTree
  PROVE  /\ LET u == [g EXCEPT !.left = t] IN
            IsNode(u) /\ SameNode(u, g) /\ u.red = g.red /\ u.left = t /\ u.right = g.right
         /\ LET u == [g EXCEPT !.right = t] IN
            IsNode(u) /\ SameNode(u, g) /\ u.red = g.red /\ u.right = t /\ u.left = g.left
<1>1. g \in AnyNode
  BY NodeOrNot
<1>2. IsNode([g EXCEPT !.left = t]) /\ IsNode([g EXCEPT !.right = t])
  BY NodeWithChild
<1> QED
  BY <1>1, <1>2 DEF AnyNode, Nodes, SameNode

(* In order, no two regions have the same base.                            *)
LEMMA KeysUnique ==
  ASSUME NEW t \in AnyTree, InOrder(t), NEW r \in Regs(t), NEW s \in Regs(t), r.base = s.base
  PROVE  r = s
<1> DEFINE P == {u \in AnyTree : InOrder(u) => \A x, y \in Regs(u) : x.base = y.base => x = y}
<1>1. Nil \in P
  BY NilIs
<1>2. ASSUME NEW u \in AnyNode, u.left \in P, u.right \in P
      PROVE  u \in P
  <2>1. u # Nil /\ u \in AnyTree /\ u.left \in AnyTree /\ u.right \in AnyTree /\ u.base \in Nat
    BY NodeOrNot, NodeParts DEF IsNode
  <2> SUFFICES ASSUME InOrder(u), NEW x \in Regs(u), NEW y \in Regs(u), x.base = y.base
               PROVE  x = y
    BY <2>1
  <2>2. /\ Regs(u) = {RegionOf(u)} \cup Regs(u.left) \cup Regs(u.right)
        /\ InOrder(u.left) /\ InOrder(u.right)
        /\ \A v \in Regs(u.left) : v.base < u.base
        /\ \A v \in Regs(u.right) : u.base < v.base
    BY <2>1, NodeIs
  <2>3. RegionOf(u).base = u.base
    BY DEF RegionOf
  <2>4. /\ \A v \in Regs(u.left) : v.base \in Nat
        /\ \A v \in Regs(u.right) : v.base \in Nat
    BY <2>1, TypesOf
  <2>5. CASE x \in Regs(u.left)
    BY <1>2, <2>1, <2>2, <2>3, <2>4, <2>5
  <2>6. CASE x \in Regs(u.right)
    BY <1>2, <2>1, <2>2, <2>3, <2>4, <2>6
  <2>7. CASE x = RegionOf(u)
    BY <2>1, <2>2, <2>3, <2>4, <2>7
  <2> QED
    BY <2>2, <2>5, <2>6, <2>7
<1>3. AnyTree \subseteq P
  <2> HIDE DEF P
  <2> QED
    BY <1>1, <1>2, TreeInduction
<1> QED
  BY <1>3

(* The parent of a subtree a key is removed from.                          *)
LEMMA RemovedBelowLeft ==
  ASSUME NEW g, IsNode(g), InOrder(g), SubExact(g), NEW key \in Nat, key < g.base,
         NEW d, RemovedFrom(g.left, key, d)
  PROVE  RemovedFrom(g, key, Removed(FixUp([g EXCEPT !.left = d.tree]), d.freed))
<1> DEFINE e == [g EXCEPT !.left = d.tree]
           u == FixUp(e)
<1>1. /\ d.tree \in AnyTree /\ d.freed = 1 /\ Count[d.tree] + 1 = Count[g.left]
      /\ Regs(d.tree) = Without(Regs(g.left), key) /\ InOrder(d.tree) /\ Exact(d.tree)
  BY DEF RemovedFrom
<1>2. IsNode(e) /\ SameNode(e, g) /\ e.left = d.tree /\ e.right = g.right
  BY <1>1, ReplacedParts
<1>3. g.left \in AnyTree /\ g.right \in AnyTree /\ g.base \in Nat
  BY NodeParts DEF IsNode
<1> HIDE DEF e
<1>4. /\ Regs(g) = {RegionOf(g)} \cup Regs(g.left) \cup Regs(g.right)
      /\ Regs(e) = {RegionOf(e)} \cup Regs(e.left) \cup Regs(e.right)
  BY <1>2, NodeIs DEF IsNode
<1>5. /\ InOrder(g.right) /\ \A r \in Regs(g.left) : r.base < g.base
      /\ \A r \in Regs(g.right) : g.base < r.base
  BY NodeIs DEF IsNode
<1>6. RegionOf(e) = RegionOf(g) /\ RegionOf(g).base = g.base
  BY <1>2 DEF RegionOf, SameNode
<1>7. Regs(e) = Without(Regs(g), key)
  <2>1. \A r \in Regs(g.right) : r.base # key
    BY <1>3, <1>5, TypesOf
  <2>2. g.base # key
    BY <1>3
  <2> QED
    BY <1>1, <1>2, <1>4, <1>6, <2>1, <2>2 DEF Without
<1>8. InOrder(e)
  <2>1. \A r \in Regs(d.tree) : r.base < g.base
    BY <1>1, <1>5 DEF Without
  <2> QED
    BY <1>1, <1>2, <1>5, <2>1, NodeIs DEF IsNode, SameNode
<1>9. Count[e] + 1 = Count[g]
  <2>1. Count[e] = Count[e.left] + 1 + Count[e.right] /\ Count[g] = Count[g.left] + 1 + Count[g.right]
    BY <1>2, NodeIs DEF IsNode
  <2> QED
    BY <1>1, <1>2, <1>3, <2>1, TypesOf
<1>10. SubExact(e)
  BY <1>1, <1>2 DEF SubExact
<1>11. Keeps(e, u) /\ Exact(u)
  BY <1>2, <1>10, FixUpKeeps
<1> HIDE DEF u
<1>12. RemovedFrom(g, key, Removed(u, d.freed))
  BY <1>1, <1>7, <1>8, <1>9, <1>11 DEF RemovedFrom, Removed, Keeps, IsNode
<1> QED
  BY <1>12 DEF u, e

(* The same to the right (tree_alloc.rs:373). *)
LEMMA RemovedBelowRight ==
  ASSUME NEW g, IsNode(g), InOrder(g), SubExact(g), NEW key \in Nat, g.base < key,
         NEW d, RemovedFrom(g.right, key, d)
  PROVE  RemovedFrom(g, key, Removed(FixUp([g EXCEPT !.right = d.tree]), d.freed))
<1> DEFINE e == [g EXCEPT !.right = d.tree]
           u == FixUp(e)
<1>1. /\ d.tree \in AnyTree /\ d.freed = 1 /\ Count[d.tree] + 1 = Count[g.right]
      /\ Regs(d.tree) = Without(Regs(g.right), key) /\ InOrder(d.tree) /\ Exact(d.tree)
  BY DEF RemovedFrom
<1>2. IsNode(e) /\ SameNode(e, g) /\ e.right = d.tree /\ e.left = g.left
  BY <1>1, ReplacedParts
<1>3. g.left \in AnyTree /\ g.right \in AnyTree /\ g.base \in Nat
  BY NodeParts DEF IsNode
<1> HIDE DEF e
<1>4. /\ Regs(g) = {RegionOf(g)} \cup Regs(g.left) \cup Regs(g.right)
      /\ Regs(e) = {RegionOf(e)} \cup Regs(e.left) \cup Regs(e.right)
  BY <1>2, NodeIs DEF IsNode
<1>5. /\ InOrder(g.left) /\ \A r \in Regs(g.left) : r.base < g.base
      /\ \A r \in Regs(g.right) : g.base < r.base
  BY NodeIs DEF IsNode
<1>6. RegionOf(e) = RegionOf(g) /\ RegionOf(g).base = g.base
  BY <1>2 DEF RegionOf, SameNode
<1>7. Regs(e) = Without(Regs(g), key)
  <2>1. \A r \in Regs(g.left) : r.base # key
    BY <1>3, <1>5, TypesOf
  <2>2. g.base # key
    BY <1>3
  <2> QED
    BY <1>1, <1>2, <1>4, <1>6, <2>1, <2>2 DEF Without
<1>8. InOrder(e)
  <2>1. \A r \in Regs(d.tree) : g.base < r.base
    BY <1>1, <1>5 DEF Without
  <2> QED
    BY <1>1, <1>2, <1>5, <2>1, NodeIs DEF IsNode, SameNode
<1>9. Count[e] + 1 = Count[g]
  <2>1. Count[e] = Count[e.left] + 1 + Count[e.right] /\ Count[g] = Count[g.left] + 1 + Count[g.right]
    BY <1>2, NodeIs DEF IsNode
  <2> QED
    BY <1>1, <1>2, <1>3, <2>1, TypesOf
<1>10. SubExact(e)
  BY <1>1, <1>2 DEF SubExact
<1>11. Keeps(e, u) /\ Exact(u)
  BY <1>2, <1>10, FixUpKeeps
<1> HIDE DEF u
<1>12. RemovedFrom(g, key, Removed(u, d.freed))
  BY <1>1, <1>7, <1>8, <1>9, <1>11 DEF RemovedFrom, Removed, Keeps, IsNode
<1> QED
  BY <1>12 DEF u, e

(* The node with the key takes over the least region of its right subtree. *)
LEMMA ReplacedByLeast ==
  ASSUME NEW g, IsNode(g), InOrder(g), SubExact(g), NEW min, IsNode(min),
         RegionOf(min) \in Regs(g.right), \A r \in Regs(g.right) : min.base <= r.base,
         NEW d, RemovedFrom(g.right, min.base, d)
  PROVE  RemovedFrom(g, g.base, Removed(FixUp([g EXCEPT !.base = min.base, !.size = min.size, !.right = d.tree]), d.freed))
<1> DEFINE e == [g EXCEPT !.base = min.base, !.size = min.size, !.right = d.tree]
           u == FixUp(e)
<1>1. /\ d.tree \in AnyTree /\ d.freed = 1 /\ Count[d.tree] + 1 = Count[g.right]
      /\ Regs(d.tree) = Without(Regs(g.right), min.base) /\ InOrder(d.tree) /\ Exact(d.tree)
  BY DEF RemovedFrom
<1>2. IsNode(e) /\ SameNode(e, min) /\ e.right = d.tree /\ e.left = g.left
  <2>1. g \in AnyNode /\ min.base \in Nat /\ min.size \in Nat
    BY NodeOrNot, NodeParts DEF IsNode
  <2>2. e \in AnyNode /\ e.base = min.base /\ e.size = min.size /\ e.right = d.tree /\ e.left = g.left
    BY <1>1, <2>1 DEF AnyNode, Nodes
  <2> QED
    BY <2>2, NodeOrNot DEF SameNode
<1>3. g.left \in AnyTree /\ g.right \in AnyTree /\ g.base \in Nat /\ min.base \in Nat
  BY NodeParts DEF IsNode
<1> HIDE DEF e
<1>4. /\ Regs(g) = {RegionOf(g)} \cup Regs(g.left) \cup Regs(g.right)
      /\ Regs(e) = {RegionOf(e)} \cup Regs(e.left) \cup Regs(e.right)
  BY <1>2, NodeIs DEF IsNode
<1>5. /\ InOrder(g.left) /\ \A r \in Regs(g.left) : r.base < g.base
      /\ \A r \in Regs(g.right) : g.base < r.base
      /\ InOrder(g.right)
  BY NodeIs DEF IsNode
<1>6. RegionOf(e) = RegionOf(min) /\ RegionOf(g).base = g.base /\ RegionOf(min).base = min.base
  BY <1>2 DEF RegionOf, SameNode
<1>7. g.base < min.base
  BY <1>5, <1>6
<1>8. \A r \in Regs(g.right) : r.base = min.base => r = RegionOf(min)
  BY <1>3, <1>5, <1>6, KeysUnique
<1>9. Regs(e) = Without(Regs(g), g.base)
  <2>1. Regs(g.right) = {RegionOf(min)} \cup Regs(d.tree)
    BY <1>1, <1>8 DEF Without
  <2>2. \A r \in Regs(g.left) \cup Regs(g.right) : r.base # g.base
    BY <1>3, <1>5, TypesOf
  <2>3. Regs(e) = Regs(g.left) \cup Regs(g.right)
    BY <1>2, <1>4, <1>6, <2>1
  <2> QED
    BY <1>4, <1>6, <2>2, <2>3 DEF Without
<1>10. InOrder(e)
  <2>1. \A r \in Regs(d.tree) : min.base < r.base
    BY <1>1, <1>3, TypesOf DEF Without
  <2>2. \A r \in Regs(g.left) : r.base < min.base
    BY <1>3, <1>5, <1>7, TypesOf
  <2> QED
    BY <1>1, <1>2, <1>5, <2>1, <2>2, NodeIs DEF IsNode, SameNode
<1>11. Count[e] + 1 = Count[g]
  <2>1. Count[e] = Count[e.left] + 1 + Count[e.right] /\ Count[g] = Count[g.left] + 1 + Count[g.right]
    BY <1>2, NodeIs DEF IsNode
  <2> QED
    BY <1>1, <1>2, <1>3, <2>1, TypesOf
<1>12. SubExact(e)
  BY <1>1, <1>2 DEF SubExact
<1>13. Keeps(e, u) /\ Exact(u)
  BY <1>2, <1>12, FixUpKeeps
<1> HIDE DEF u
<1>14. RemovedFrom(g, g.base, Removed(u, d.freed))
  BY <1>1, <1>9, <1>10, <1>11, <1>13 DEF RemovedFrom, Removed, Keeps, IsNode
<1> QED
  BY <1>14 DEF u, e

-----------------------------------------------------------------------------
(***************************************************************************)
(* The shape after a deletion, and delete_min.                             *)
(***************************************************************************)

(* The shape after a deletion: a two-node may lose a level or its colour.  *)
Shrinks(h, t) ==
  \A c \in BOOLEAN, n \in Nat :
    /\ TwoNode(h, c, n) => \/ n = 0 /\ t = Nil
                           \/ TwoNode(t, c, n)
                           \/ n # 0 /\ Proper(t, ~c, n - 1)
    /\ ThreeNode(h, c, n) \/ RightThree(h, c, n) => Proper(t, c, n)

(* A red subtree stays red or turns black, at the same height. *)
LEMMA RedShrinks ==
  ASSUME NEW h, NEW n \in Nat, Red(h, n), NEW t \in AnyTree, Shrinks(h, t)
  PROVE  Red(t, n) \/ Black(t, n)
<1>1. TwoNode(h, TRUE, n)
  BY RedIs DEF Red
<1>2. \/ n = 0 /\ t = Nil
      \/ TwoNode(t, TRUE, n)
      \/ n # 0 /\ Proper(t, FALSE, n - 1)
  <2>1. ~TRUE = FALSE /\ TRUE \in BOOLEAN
    OBVIOUS
  <2> QED
    BY <1>1, <2>1 DEF Shrinks
<1>3. CASE n = 0 /\ t = Nil
  BY <1>3, BlackIs
<1>4. CASE TwoNode(t, TRUE, n)
  BY <1>4, RedIs
<1>5. CASE n # 0 /\ Proper(t, FALSE, n - 1)
  <2>1. n - 1 \in Nat
    BY <1>5
  <2> QED
    BY <1>5, <2>1, BlackIs
<1> QED
  BY <1>2, <1>3, <1>4, <1>5

(* A black three-node keeps its height when it loses a node. *)
LEMMA BlackShrinks ==
  ASSUME NEW h, NEW n \in Nat, n # 0, ThreeNode(h, FALSE, n - 1) \/ RightThree(h, FALSE, n - 1),
         NEW t \in AnyTree, Shrinks(h, t)
  PROVE  Black(t, n)
<1>1. n - 1 \in Nat
  OBVIOUS
<1>2. Proper(t, FALSE, n - 1)
  BY <1>1 DEF Shrinks
<1> QED
  BY <1>1, <1>2, BlackIs

(* FixUp of a node, one child of which is red or black. *)
LEMMA FixUpAny ==
  ASSUME NEW e, IsNode(e), NEW n \in Nat,
         Red(e.left, n) \/ Black(e.left, n), Red(e.right, n) \/ Black(e.right, n)
  PROVE  /\ Black(e.left, n) /\ Black(e.right, n) => TwoNode(FixUp(e), e.red, n)
         /\ Black(e.left, n) \/ Black(e.right, n) => Proper(FixUp(e), e.red, n)
         /\ Red(e.left, n) /\ Red(e.right, n) => TwoNode(FixUp(e), ~e.red, n + 1)
<1>1. e.red \in BOOLEAN
  BY NodeParts DEF IsNode
<1>2. /\ Black(e.left, n) /\ Black(e.right, n) => TwoNode(e, e.red, n)
      /\ Red(e.left, n) /\ Black(e.right, n) => ThreeNode(e, e.red, n)
      /\ Black(e.left, n) /\ Red(e.right, n) => RightThree(e, e.red, n)
      /\ Red(e.left, n) /\ Red(e.right, n) => FourNode(e, e.red, n)
  BY DEF TwoNode, ThreeNode, RightThree, FourNode
<1> QED
  BY <1>1, <1>2, FixUpShape DEF Proper

(* fix_up on the way back from the left restores the shape                 *)
(* (tree_alloc.rs:338-339, 351-354).                                       *)
LEMMA RejoinLeft ==
  ASSUME NEW h, NEW c \in BOOLEAN, NEW n \in Nat, Proper(h, c, n), h.left # Nil,
         NEW g \in LeanLeft(h), NEW t \in AnyTree, Shrinks(g.left, t)
  PROVE  LET u == FixUp([g EXCEPT !.left = t]) IN
         /\ TwoNode(h, c, n) => TwoNode(u, c, n) \/ (n # 0 /\ Proper(u, ~c, n - 1))
         /\ ThreeNode(h, c, n) => Proper(u, c, n)
<1> DEFINE e == [g EXCEPT !.left = t]
           u == FixUp(e)
<1>0. \/ ThreeNode(g, c, n) /\ ThreeNode(h, c, n)
      \/ n # 0 /\ TwoNode(g, c, n) /\ ThreeNode(g.left, FALSE, n - 1) /\ TwoNode(h, c, n)
      \/ n # 0 /\ FourNode(g, ~c, n - 1) /\ TwoNode(h, c, n)
  BY LeanLeftShape
<1>1. IsNode(g)
  BY <1>0 DEF ThreeNode, TwoNode, FourNode
<1>2. IsNode(e) /\ e.red = g.red /\ e.left = t /\ e.right = g.right
  BY <1>1, ReplacedParts
<1> HIDE DEF e
<1>3. ~(TwoNode(h, c, n) /\ ThreeNode(h, c, n))
  BY DEF TwoNode, ThreeNode, Red, Black
<1>4. CASE ThreeNode(g, c, n) /\ ThreeNode(h, c, n)
  <2>1. Red(t, n) \/ Black(t, n)
    BY <1>4, RedShrinks DEF ThreeNode
  <2>2. Black(e.right, n) /\ e.red = c
    BY <1>2, <1>4 DEF ThreeNode
  <2>3. Proper(u, c, n)
    BY <1>2, <2>1, <2>2, FixUpAny
  <2> QED
    BY <1>3, <1>4, <2>3 DEF e
<1>5. CASE n # 0 /\ TwoNode(g, c, n) /\ ThreeNode(g.left, FALSE, n - 1) /\ TwoNode(h, c, n)
  <2>1. Black(t, n)
    BY <1>5, BlackShrinks
  <2>2. Black(e.right, n) /\ e.red = c
    BY <1>2, <1>5 DEF TwoNode
  <2>3. TwoNode(u, c, n)
    BY <1>2, <2>1, <2>2, FixUpAny
  <2> QED
    BY <1>3, <1>5, <2>3 DEF e
<1>6. CASE n # 0 /\ FourNode(g, ~c, n - 1) /\ TwoNode(h, c, n)
  <2>0. n - 1 \in Nat /\ (n - 1) + 1 = n /\ ~~c = c
    BY <1>6
  <2>1. Red(t, n - 1) \/ Black(t, n - 1)
    BY <1>6, <2>0, RedShrinks DEF FourNode
  <2>2. Red(e.right, n - 1) /\ e.red = ~c
    BY <1>2, <1>6 DEF FourNode
  <2>3. TwoNode(u, ~~c, (n - 1) + 1) \/ Proper(u, ~c, n - 1)
    BY <1>2, <2>0, <2>1, <2>2, FixUpAny
  <2> QED
    BY <1>3, <1>6, <2>0, <2>3 DEF e
<1> QED
  BY <1>0, <1>4, <1>5, <1>6

IsLeast(h, key) == HasKey(h, key) /\ \A r \in Regs(h) : key <= r.base

(* A subtree delete_min and delete are called for. *)
Sound(h) == (\E c \in BOOLEAN, n \in Nat : Proper(h, c, n)) /\ InOrder(h) /\ Exact(h)

(* The subtree delete_min goes to is one it may be called for. *)
LEMMA SoundChild ==
  ASSUME NEW h, NEW c \in BOOLEAN, NEW n \in Nat, Proper(h, c, n), InOrder(h), Exact(h), h.left # Nil,
         NEW g \in LeanLeft(h), Keeps(h, g)
  PROVE  Sound(g.left)
<1>0. \/ ThreeNode(g, c, n) /\ ThreeNode(h, c, n)
      \/ n # 0 /\ TwoNode(g, c, n) /\ ThreeNode(g.left, FALSE, n - 1) /\ TwoNode(h, c, n)
      \/ n # 0 /\ FourNode(g, ~c, n - 1) /\ TwoNode(h, c, n)
  BY LeanLeftShape
<1>1. n # 0 => n - 1 \in Nat
  OBVIOUS
<1>2. (\E k \in Nat : Red(g.left, k)) \/ (\E k \in Nat : ThreeNode(g.left, FALSE, k))
  BY <1>0, <1>1 DEF ThreeNode, FourNode
<1>3. \E cc \in BOOLEAN, k \in Nat : Proper(g.left, cc, k)
  BY <1>2, RedIs DEF Red, Proper
<1>4. IsNode(h) /\ IsNode(g) /\ InOrder(g) /\ SubExact(g)
  BY SubExactIf DEF Keeps, Proper, TwoNode, ThreeNode
<1> QED
  BY <1>3, <1>4, NodeIs DEF Sound, SubExact, IsNode

(* delete_min does not panic, removes the least key and nothing else, and  *)
(* keeps the balance (tree_alloc.rs:330-340).                              *)
LEMMA DeleteMinIs ==
  ASSUME NEW h \in Tree, h # Nil, Sound(h), NEW key, IsLeast(h, key)
  PROVE  DeleteMin[h] # {} /\ \A d \in DeleteMin[h] : RemovedFrom(h, key, d) /\ Shrinks(h, d.tree)
<1> DEFINE Done(t) == DeleteMin[t] # {} /\ \A d \in DeleteMin[t] : RemovedFrom(t, key, d) /\ Shrinks(t, d.tree)
           T == {k \in Nat : \A t \in Tree : Count[t] = k /\ t # Nil /\ Sound(t) /\ IsLeast(t, key) => Done(t)}
<1>1. ASSUME NEW k \in Nat, \A j \in Nat : j < k => j \in T
      PROVE  k \in T
  <2> SUFFICES ASSUME NEW t \in Tree, Count[t] = k, t # Nil, Sound(t), IsLeast(t, key) PROVE Done(t)
    OBVIOUS
  <2>1. PICK c \in BOOLEAN, n \in Nat : Proper(t, c, n)
    BY DEF Sound
  <2>2. IsNode(t) /\ t \in AnyTree /\ t.left \in AnyTree /\ t.right \in AnyTree /\ InOrder(t) /\ Exact(t)
    BY TreeIs, NodeParts DEF IsNode, Sound
  <2>3. DeleteMin[t] = MinStep(t, DeleteMin)
    BY DeleteMinUnfolded
  <2>4. CASE t.left = Nil
    <3>1. TwoNode(t, c, n) /\ n = 0 /\ t.right = Nil
      <4>1. TwoNode(t, c, n) /\ Black(Nil, n) /\ Black(t.right, n)
        BY <2>1, <2>4 DEF Proper, ThreeNode, TwoNode, Red, IsRed
      <4>2. n = 0
        BY <4>1, NilIs DEF Black
      <4> QED
        BY <4>1, <4>2, BlackNode
    <3>2. DeleteMin[t] = {Removed(Nil, 1)}
      BY <2>3, <2>4 DEF MinStep
    <3>3. Regs(t) = {RegionOf(t)} /\ Count[t] = 1 /\ key = t.base
      <4>1. Regs(t) = {RegionOf(t)} /\ Count[t] = 0 + 1 + 0
        BY <2>2, <2>4, <3>1, NodeIs, NilIs DEF IsNode
      <4> QED
        BY <4>1 DEF IsLeast, HasKey, RegionOf
    <3>4. RemovedFrom(t, key, Removed(Nil, 1))
      BY <3>3, NilIs DEF RemovedFrom, Removed, Without, RegionOf
    <3>5. Shrinks(t, Nil)
      <4> SUFFICES ASSUME NEW cc \in BOOLEAN, NEW m \in Nat
                   PROVE  /\ TwoNode(t, cc, m) => m = 0
                          /\ ~(ThreeNode(t, cc, m) \/ RightThree(t, cc, m))
        BY DEF Shrinks
      <4> QED
        BY <2>4, <3>1, NilIs DEF TwoNode, ThreeNode, RightThree, Black, Red, IsRed
    <3> QED
      BY <3>2, <3>4, <3>5 DEF Removed
  <2>5. CASE t.left # Nil
    <3>1. LeanLeft(t) # {}
      BY <2>1, <2>5, LeanLeftShape
    <3>2. DeleteMin[t] = UNION {MinAt(g, DeleteMin) : g \in LeanLeft(t)}
      BY <2>3, <2>5 DEF MinStep
    <3>3. ASSUME NEW g \in LeanLeft(t)
          PROVE  /\ MinAt(g, DeleteMin) # {}
                 /\ \A d \in MinAt(g, DeleteMin) : RemovedFrom(t, key, d) /\ Shrinks(t, d.tree)
      <4>1. /\ IsNode(g) /\ Keeps(t, g) /\ g.left \in Tree /\ g.left # Nil
            /\ Count[g.left] \in Nat /\ Count[g.left] < Count[t]
        BY <2>5, LeantLeft
      <4>2. Sound(g.left)
        BY <2>1, <2>2, <2>5, <4>1, SoundChild
      <4>3. InOrder(g) /\ SubExact(g) /\ Regs(g) = Regs(t) /\ Count[g] = Count[t]
        BY <2>2, <4>1, SubExactIf DEF Keeps
      <4>4. key \in Nat /\ key < g.base /\ IsLeast(g.left, key)
        <5>1. /\ Regs(g) = {RegionOf(g)} \cup Regs(g.left) \cup Regs(g.right)
              /\ \A r \in Regs(g.left) : r.base < g.base
              /\ \A r \in Regs(g.right) : g.base < r.base
          BY <4>1, <4>3, NodeIs DEF IsNode
        <5>2. RegionOf(g.left) \in Regs(g.left)
          BY <4>1, TreeIs, NodeIs
        <5>3. PICK r \in Regs(t) : r.base = key
          BY DEF IsLeast, HasKey
        <5>4. key \in Nat /\ g.base \in Nat /\ (\A s \in Regs(t) : key <= s.base /\ s.base \in Nat)
          BY <2>2, <4>1, <5>3, TypesOf, NodeParts DEF IsLeast, IsNode
        <5>5. key < g.base
          BY <4>3, <5>1, <5>2, <5>4
        <5>6. r \in Regs(g.left)
          BY <4>3, <5>1, <5>3, <5>4, <5>5 DEF RegionOf
        <5> QED
          BY <4>3, <5>1, <5>3, <5>4, <5>5, <5>6 DEF IsLeast, HasKey
      <4>5. Done(g.left)
        BY <1>1, <4>1, <4>2, <4>4
      <4>6. ASSUME NEW sub \in DeleteMin[g.left]
            PROVE  LET d == Removed(FixUp([g EXCEPT !.left = sub.tree]), sub.freed) IN
                   RemovedFrom(t, key, d) /\ Shrinks(t, d.tree)
        <5> DEFINE u == FixUp([g EXCEPT !.left = sub.tree])
        <5>1. RemovedFrom(g.left, key, sub) /\ Shrinks(g.left, sub.tree) /\ sub.tree \in AnyTree
          BY <4>5 DEF RemovedFrom
        <5>2. RemovedFrom(g, key, Removed(u, sub.freed))
          BY <4>1, <4>3, <4>4, <5>1, RemovedBelowLeft
        <5>3. Shrinks(t, u)
          <6> SUFFICES ASSUME NEW cc \in BOOLEAN, NEW m \in Nat
                       PROVE  /\ TwoNode(t, cc, m) => \/ TwoNode(u, cc, m)
                                                      \/ m # 0 /\ Proper(u, ~cc, m - 1)
                              /\ ThreeNode(t, cc, m) => Proper(u, cc, m)
                              /\ ~RightThree(t, cc, m)
            BY DEF Shrinks
          <6>1. ~RightThree(t, cc, m)
            BY <2>1 DEF Proper, TwoNode, ThreeNode, RightThree, Black, Red
          <6>2. Proper(t, cc, m) => /\ TwoNode(t, cc, m) => TwoNode(u, cc, m) \/ (m # 0 /\ Proper(u, ~cc, m - 1))
                                    /\ ThreeNode(t, cc, m) => Proper(u, cc, m)
            BY <2>5, <5>1, RejoinLeft
          <6> QED
            BY <6>1, <6>2 DEF Proper
        <5> HIDE DEF u
        <5>4. RemovedFrom(t, key, Removed(u, sub.freed)) /\ Removed(u, sub.freed).tree = u
          BY <4>3, <5>2 DEF RemovedFrom, Removed
        <5> QED
          BY <5>3, <5>4 DEF u
      <4> QED
        BY <4>5, <4>6 DEF MinAt
    <3> QED
      BY <3>1, <3>2, <3>3
  <2> QED
    BY <2>4, <2>5
<1>2. \A k \in Nat : k \in T
  <2> HIDE DEF T
  <2> QED
    BY <1>1, Inductive
<1>3. Count[h] \in Nat
  BY TreeIs, TypesOf
<1> QED
  BY <1>2, <1>3

-----------------------------------------------------------------------------
(***************************************************************************)
(* The right side of delete.                                               *)
(***************************************************************************)

(* A subtree delete is called for: a right child that is red may be there  *)
(* when the key is not to the left of the node.                            *)
Fit(h, key) ==
  /\ \E c \in BOOLEAN, n \in Nat : Proper(h, c, n) \/ (RightThree(h, c, n) /\ h.base <= key)
  /\ InOrder(h) /\ Exact(h) /\ HasKey(h, key)

(* fix_up on the way back from the right restores the shape                *)
(* (tree_alloc.rs:367-378).                                                *)
LEMMA RejoinRight ==
  ASSUME NEW h, NEW c \in BOOLEAN, NEW n \in Nat, Proper(h, c, n) \/ RightThree(h, c, n),
         Turned(h).right # Nil,
         NEW g \in LeanRight(Turned(h)), NEW t \in AnyTree, Shrinks(g.right, t),
         NEW e, IsNode(e), e.red = g.red, e.left = g.left, e.right = t
  PROVE  LET u == FixUp(e) IN
         /\ TwoNode(h, c, n) => TwoNode(u, c, n) \/ (n # 0 /\ Proper(u, ~c, n - 1))
         /\ ThreeNode(h, c, n) \/ RightThree(h, c, n) => Proper(u, c, n)
<1> DEFINE u == FixUp(e)
<1>0. \/ RightThree(g, c, n) /\ (TwoNode(h, c, n) => FALSE)
      \/ n # 0 /\ TwoNode(g, c, n) /\ TwoNode(h, c, n) /\ ThreeNode(g.right, FALSE, n - 1)
      \/ n # 0 /\ Bent(g, c, n) /\ TwoNode(h, c, n)
      \/ n # 0 /\ FourNode(g, ~c, n - 1) /\ TwoNode(h, c, n)
  BY LeanRightShape
<1>3. ~(TwoNode(h, c, n) /\ (ThreeNode(h, c, n) \/ RightThree(h, c, n)))
  BY DEF TwoNode, ThreeNode, RightThree, Red, Black
<1>4. CASE RightThree(g, c, n) /\ ~TwoNode(h, c, n)
  <2>1. Red(t, n) \/ Black(t, n)
    BY <1>4, RedShrinks DEF RightThree
  <2>2. Black(e.left, n) /\ e.red = c
    BY <1>4 DEF RightThree
  <2>3. Proper(u, c, n)
    BY <2>1, <2>2, FixUpAny
  <2> QED
    BY <1>4, <2>3
<1>5. CASE n # 0 /\ TwoNode(h, c, n) /\ Black(g.left, n) /\ g.red = c
            /\ (ThreeNode(g.right, FALSE, n - 1) \/ RightThree(g.right, FALSE, n - 1))
  <2>1. Black(t, n)
    BY <1>5, BlackShrinks
  <2>2. Black(e.left, n) /\ e.red = c
    BY <1>5
  <2>3. TwoNode(u, c, n)
    BY <2>1, <2>2, FixUpAny
  <2> QED
    BY <1>3, <1>5, <2>3
<1>6. CASE n # 0 /\ FourNode(g, ~c, n - 1) /\ TwoNode(h, c, n)
  <2>0. n - 1 \in Nat /\ (n - 1) + 1 = n /\ ~~c = c
    BY <1>6
  <2>1. Red(t, n - 1) \/ Black(t, n - 1)
    BY <1>6, <2>0, RedShrinks DEF FourNode
  <2>2. Red(e.left, n - 1) /\ e.red = ~c
    BY <1>6 DEF FourNode
  <2>3. TwoNode(u, ~~c, (n - 1) + 1) \/ Proper(u, ~c, n - 1)
    BY <2>0, <2>1, <2>2, FixUpAny
  <2> QED
    BY <1>3, <1>6, <2>0, <2>3
<1>7. CASE n # 0 /\ Bent(g, c, n) /\ TwoNode(h, c, n)
  BY <1>5, <1>7 DEF Bent
<1>8. CASE n # 0 /\ TwoNode(g, c, n) /\ TwoNode(h, c, n) /\ ThreeNode(g.right, FALSE, n - 1)
  BY <1>5, <1>8 DEF TwoNode
<1> QED
  BY <1>0, <1>4, <1>6, <1>7, <1>8

(* What delete_node is called for below. *)
LEMMA FitRight ==
  ASSUME NEW h \in Tree, h # Nil, NEW key, Fit(h, key), h.base <= key, Turned(h).right # Nil,
         NEW g \in LeanRight(Turned(h))
  PROVE  /\ g.base <= key /\ InOrder(g) /\ SubExact(g)
         /\ g.base = key => Sound(g.right)
         /\ g.base # key => Fit(g.right, key)
<1>1. PICK c \in BOOLEAN, n \in Nat : Proper(h, c, n) \/ RightThree(h, c, n)
  BY DEF Fit
<1>2. /\ IsNode(g) /\ Keeps(h, g) /\ g.right \in Tree /\ g.right # Nil /\ IsNode(h)
      /\ InOrder(h) /\ Exact(h) /\ HasKey(h, key) /\ g.base <= h.base
  BY LeantRight, TreeNode DEF Fit
<1>3. InOrder(g) /\ SubExact(g) /\ Regs(g) = Regs(h)
  BY <1>2, SubExactIf DEF Keeps
<1>4. g.base \in Nat /\ h.base \in Nat /\ g.left \in AnyTree /\ g.right \in AnyTree /\ h.left \in AnyTree
  BY <1>2, NodeParts DEF IsNode
<1>5. key \in Nat
  <2>1. PICK r \in Regs(h) : r.base = key
    BY <1>2 DEF HasKey
  <2> QED
    BY <1>2, <2>1, TypesOf DEF IsNode
<1>6. g.base <= key
  BY <1>2, <1>4, <1>5
<1>7. InOrder(g.right) /\ Exact(g.right)
  BY <1>2, <1>3, NodeIs DEF IsNode, SubExact
<1>8. \/ RightThree(g, c, n)
      \/ n # 0 /\ ThreeNode(g.right, FALSE, n - 1)
      \/ /\ n # 0 /\ Bent(g, c, n) /\ SameNode(g.right, h) /\ h.left # Nil /\ SameNode(g, h.left)
      \/ n # 0 /\ FourNode(g, ~c, n - 1)
  BY <1>1, LeanRightShape
<1>9. n # 0 => n - 1 \in Nat
  OBVIOUS
<1>10. \/ \E k \in Nat : Red(g.right, k)
       \/ \E k \in Nat : ThreeNode(g.right, FALSE, k)
       \/ /\ \E k \in Nat : RightThree(g.right, FALSE, k)
          /\ g.right.base = h.base /\ h.left # Nil /\ g.base = h.left.base
  BY <1>8, <1>9 DEF RightThree, FourNode, Bent, SameNode
<1>11. \/ \E cc \in BOOLEAN, k \in Nat : Proper(g.right, cc, k)
       \/ /\ \E k \in Nat : RightThree(g.right, FALSE, k)
          /\ g.right.base = h.base /\ h.left # Nil /\ g.base = h.left.base
  <2>1. CASE \E k \in Nat : Red(g.right, k)
    BY <1>4, <2>1, RedIs DEF Proper
  <2>2. CASE \E k \in Nat : ThreeNode(g.right, FALSE, k)
    BY <2>2 DEF Proper
  <2> QED
    BY <1>10, <2>1, <2>2
<1>12. ASSUME g.base = key
       PROVE  Sound(g.right)
  <2>1. ~(h.left # Nil /\ g.base = h.left.base)
    <3> SUFFICES ASSUME h.left # Nil PROVE h.left.base < h.base
      BY <1>4, <1>5, <1>12
    <3>1. RegionOf(h.left) \in Regs(h.left) /\ RegionOf(h.left).base = h.left.base
      BY <1>4, NodeIs DEF RegionOf
    <3> QED
      BY <1>2, <3>1, NodeIs DEF IsNode
  <2> QED
    BY <1>7, <1>11, <2>1 DEF Sound
<1>13. ASSUME g.base # key
       PROVE  Fit(g.right, key)
  <2>1. HasKey(g.right, key)
    <3>1. PICK r \in Regs(g) : r.base = key
      BY <1>2, <1>3 DEF HasKey
    <3>2. /\ Regs(g) = {RegionOf(g)} \cup Regs(g.left) \cup Regs(g.right)
          /\ \A x \in Regs(g.left) : x.base < g.base
      BY <1>2, <1>3, NodeIs DEF IsNode
    <3>3. r \in Regs(g.right)
      BY <1>4, <1>5, <1>6, <1>13, <3>1, <3>2 DEF RegionOf
    <3> QED
      BY <3>1, <3>3 DEF HasKey
  <2>2. \E cc \in BOOLEAN, k \in Nat : Proper(g.right, cc, k) \/ (RightThree(g.right, cc, k) /\ g.right.base <= key)
    BY <1>11
  <2> QED
    BY <1>7, <2>1, <2>2 DEF Fit
<1> QED
  BY <1>3, <1>6, <1>12, <1>13

-----------------------------------------------------------------------------
(***************************************************************************)
(* delete, by induction on the number of nodes.                            *)
(***************************************************************************)

DeletedFrom(t, key) ==
  /\ DeleteFn(key)[t] # {}
  /\ \A d \in DeleteFn(key)[t] : RemovedFrom(t, key, d) /\ Shrinks(t, d.tree)

(* One call of delete_node, given the calls on smaller trees.              *)
LEMMA DeleteGoesLeft ==
  ASSUME NEW t \in Tree, t # Nil, NEW key, Fit(t, key), key < t.base,
         \A v \in Tree : Count[v] < Count[t] /\ v # Nil /\ Fit(v, key) => DeletedFrom(v, key)
  PROVE  DeletedFrom(t, key)
<1> DEFINE f == DeleteFn(key)
<1>1. PICK c \in BOOLEAN, n \in Nat : Proper(t, c, n) \/ (RightThree(t, c, n) /\ t.base <= key)
  BY DEF Fit
<1>2. /\ IsNode(t) /\ t \in AnyTree /\ t.left \in AnyTree /\ t.right \in AnyTree /\ t.base \in Nat
      /\ InOrder(t) /\ Exact(t) /\ HasKey(t, key)
  BY TreeIs, NodeParts DEF IsNode, Fit
<1>3. PICK r \in Regs(t) : r.base = key
  BY <1>2 DEF HasKey
<1>4. key \in Nat
  BY <1>2, <1>3, TypesOf
<1>5. Proper(t, c, n)
  BY <1>1, <1>2, <1>4
<1>6. /\ Regs(t) = {RegionOf(t)} \cup Regs(t.left) \cup Regs(t.right)
      /\ \A x \in Regs(t.right) : t.base < x.base
  BY <1>2, NodeIs DEF IsNode
<1>7. r \in Regs(t.left) /\ t.left # Nil
  BY <1>2, <1>3, <1>4, <1>6, NilIs DEF RegionOf
<1>8. DeleteFn(key)[t] = UNION {MinAt(g, f) : g \in LeanLeft(t)}
  <2>1. DeleteFn(key)[t] = DeleteStep(t, key, f)
    BY DeleteUnfolded
  <2> QED
    BY <1>7, <2>1, Zenon DEF DeleteStep, DeleteLeft, MinAt
<1> HIDE DEF f
<1>9. LeanLeft(t) # {}
  BY <1>5, <1>7, LeanLeftShape
<1>10. ASSUME NEW g \in LeanLeft(t)
       PROVE  /\ MinAt(g, f) # {}
              /\ \A d \in MinAt(g, f) : RemovedFrom(t, key, d) /\ Shrinks(t, d.tree)
  <2>1. /\ IsNode(g) /\ Keeps(t, g) /\ g.left \in Tree /\ g.left # Nil
        /\ Count[g.left] < Count[t] /\ t.base <= g.base
    BY <1>2, <1>7, LeantLeft
  <2>2. Sound(g.left)
    BY <1>2, <1>5, <1>7, <2>1, SoundChild
  <2>3. InOrder(g) /\ SubExact(g) /\ Regs(g) = Regs(t) /\ Count[g] = Count[t]
    BY <1>2, <2>1, SubExactIf DEF Keeps
  <2>4. g.base \in Nat /\ key < g.base
    <3>1. g.base \in Nat
      BY <2>1, NodeParts DEF IsNode
    <3> QED
      BY <1>2, <1>4, <2>1, <3>1
  <2>5. HasKey(g.left, key)
    <3>1. /\ Regs(g) = {RegionOf(g)} \cup Regs(g.left) \cup Regs(g.right)
          /\ \A x \in Regs(g.right) : g.base < x.base
      BY <2>1, <2>3, NodeIs DEF IsNode
    <3>2. r \in Regs(g.left)
      BY <1>3, <1>4, <2>3, <2>4, <3>1 DEF RegionOf
    <3> QED
      BY <1>3, <3>2 DEF HasKey
  <2>6. Fit(g.left, key)
    BY <2>2, <2>5 DEF Fit, Sound
  <2>7. f[g.left] # {} /\ \A d \in f[g.left] : RemovedFrom(g.left, key, d) /\ Shrinks(g.left, d.tree)
    BY <2>1, <2>6 DEF DeletedFrom, f
  <2>8. ASSUME NEW sub \in f[g.left]
        PROVE  LET d == Removed(FixUp([g EXCEPT !.left = sub.tree]), sub.freed) IN
               RemovedFrom(t, key, d) /\ Shrinks(t, d.tree)
    <3> DEFINE u == FixUp([g EXCEPT !.left = sub.tree])
    <3>1. RemovedFrom(g.left, key, sub) /\ Shrinks(g.left, sub.tree) /\ sub.tree \in AnyTree
      BY <2>7 DEF RemovedFrom
    <3>2. RemovedFrom(g, key, Removed(u, sub.freed))
      BY <1>4, <2>1, <2>3, <2>4, <3>1, RemovedBelowLeft
    <3>3. Shrinks(t, u)
      <4> SUFFICES ASSUME NEW cc \in BOOLEAN, NEW m \in Nat
                   PROVE  /\ TwoNode(t, cc, m) => \/ TwoNode(u, cc, m)
                                                  \/ m # 0 /\ Proper(u, ~cc, m - 1)
                          /\ ThreeNode(t, cc, m) => Proper(u, cc, m)
                          /\ ~RightThree(t, cc, m)
        BY DEF Shrinks
      <4>1. ~RightThree(t, cc, m)
        BY <1>5 DEF Proper, TwoNode, ThreeNode, RightThree, Black, Red
      <4>2. Proper(t, cc, m) => /\ TwoNode(t, cc, m) => TwoNode(u, cc, m) \/ (m # 0 /\ Proper(u, ~cc, m - 1))
                                /\ ThreeNode(t, cc, m) => Proper(u, cc, m)
        BY <1>7, <3>1, RejoinLeft
      <4> QED
        BY <4>1, <4>2 DEF Proper
    <3> HIDE DEF u
    <3>4. RemovedFrom(t, key, Removed(u, sub.freed)) /\ Removed(u, sub.freed).tree = u
      BY <2>3, <3>2 DEF RemovedFrom, Removed
    <3> QED
      BY <3>3, <3>4 DEF u
  <2> QED
    BY <2>7, <2>8 DEF MinAt
<1> QED
  BY <1>8, <1>9, <1>10 DEF DeletedFrom

(* The node without children that holds the key. *)
LEMMA DeleteLast ==
  ASSUME NEW t \in Tree, t # Nil, NEW key, Fit(t, key), t.base <= key, Turned(t).right = Nil
  PROVE  DeletedFrom(t, key)
<1>1. PICK c \in BOOLEAN, n \in Nat : Proper(t, c, n) \/ RightThree(t, c, n)
  BY DEF Fit
<1>2. /\ IsNode(t) /\ t \in AnyTree /\ t.left \in AnyTree /\ t.right \in AnyTree /\ t.base \in Nat
      /\ HasKey(t, key)
  BY TreeIs, NodeParts DEF IsNode, Fit
<1>3. ~IsRed(t.left) /\ Turned(t) = t /\ t.right = Nil
  <2>1. CASE IsRed(t.left)
    BY <1>2, <2>1, RotateRightParts DEF Turned, IsRed, IsNode
  <2> QED
    BY <2>1 DEF Turned
<1>4. TwoNode(t, c, n) /\ Black(Nil, n) /\ Black(t.left, n)
  BY <1>1, <1>3 DEF Proper, ThreeNode, RightThree, TwoNode, Red, IsRed
<1>5. n = 0 /\ t.left = Nil
  <2>1. n = 0
    BY <1>4, NilIs DEF Black
  <2> QED
    BY <1>4, <2>1, BlackNode
<1>6. Regs(t) = {RegionOf(t)} /\ Count[t] = 1 /\ key = t.base
  <2>1. Regs(t) = {RegionOf(t)} /\ Count[t] = 0 + 1 + 0
    BY <1>2, <1>3, <1>5, NodeIs, NilIs DEF IsNode
  <2> QED
    BY <1>2, <2>1 DEF HasKey, RegionOf
<1>7. DeleteFn(key)[t] = {Removed(Nil, 1)}
  <2>1. DeleteFn(key)[t] = DeleteStep(t, key, DeleteFn(key))
    BY DeleteUnfolded
  <2>2. ~(key < t.base)
    BY <1>2, <1>6
  <2> QED
    BY <1>3, <1>6, <2>1, <2>2 DEF DeleteStep, DeleteRight
<1>8. RemovedFrom(t, key, Removed(Nil, 1))
  BY <1>6, NilIs DEF RemovedFrom, Removed, Without, RegionOf
<1>9. Shrinks(t, Nil)
  <2> SUFFICES ASSUME NEW cc \in BOOLEAN, NEW m \in Nat
               PROVE  /\ TwoNode(t, cc, m) => m = 0
                      /\ ~(ThreeNode(t, cc, m) \/ RightThree(t, cc, m))
    BY DEF Shrinks
  <2> QED
    BY <1>3, <1>5, NilIs DEF TwoNode, ThreeNode, RightThree, Black, Red, IsRed
<1> QED
  BY <1>7, <1>8, <1>9 DEF Removed, DeletedFrom

(* The results of the node delete_node goes right from. *)
LEMMA DeleteBelowIs ==
  ASSUME NEW t \in Tree, t # Nil, NEW key, Fit(t, key), t.base <= key, Turned(t).right # Nil,
         \A v \in Tree : Count[v] < Count[t] /\ v # Nil /\ Fit(v, key) => DeletedFrom(v, key),
         NEW g \in LeanRight(Turned(t))
  PROVE  /\ DeleteBelow(g, key, DeleteFn(key)) # {}
         /\ \A d \in DeleteBelow(g, key, DeleteFn(key)) : RemovedFrom(t, key, d) /\ Shrinks(t, d.tree)
<1> DEFINE f == DeleteFn(key)
<1> HIDE DEF f
<1>1. /\ IsNode(g) /\ Keeps(t, g) /\ g.right \in Tree /\ g.right # Nil
      /\ Count[g.right] < Count[t]
  BY LeantRight
<1>2. InOrder(t) /\ Exact(t) /\ HasKey(t, key) /\ IsNode(t)
  BY TreeNode DEF Fit
<1>3. g.base <= key /\ InOrder(g) /\ SubExact(g) /\ Regs(g) = Regs(t) /\ Count[g] = Count[t]
  BY <1>1, FitRight DEF Keeps
<1>4. key \in Nat /\ g.base \in Nat
  <2>1. PICK r \in Regs(t) : r.base = key
    BY <1>2 DEF HasKey
  <2> QED
    BY <1>1, <1>2, <2>1, TypesOf, NodeParts DEF IsNode
<1>5. ASSUME NEW sub, Shrinks(g.right, sub.tree), sub.tree \in AnyTree, NEW e, IsNode(e),
             e.red = g.red, e.left = g.left, e.right = sub.tree,
             RemovedFrom(g, key, Removed(FixUp(e), sub.freed))
      PROVE  LET d == Removed(FixUp(e), sub.freed) IN RemovedFrom(t, key, d) /\ Shrinks(t, d.tree)
  <2> DEFINE u == FixUp(e)
  <2>1. Shrinks(t, u)
    <3> SUFFICES ASSUME NEW cc \in BOOLEAN, NEW m \in Nat
                 PROVE  /\ TwoNode(t, cc, m) => \/ TwoNode(u, cc, m)
                                                \/ m # 0 /\ Proper(u, ~cc, m - 1)
                        /\ ThreeNode(t, cc, m) \/ RightThree(t, cc, m) => Proper(u, cc, m)
      BY DEF Shrinks
    <3>1. Proper(t, cc, m) \/ RightThree(t, cc, m) =>
            /\ TwoNode(t, cc, m) => TwoNode(u, cc, m) \/ (m # 0 /\ Proper(u, ~cc, m - 1))
            /\ ThreeNode(t, cc, m) \/ RightThree(t, cc, m) => Proper(u, cc, m)
      BY <1>5, RejoinRight
    <3> QED
      BY <3>1 DEF Proper
  <2> HIDE DEF u
  <2>2. RemovedFrom(t, key, Removed(u, sub.freed)) /\ Removed(u, sub.freed).tree = u
    BY <1>3, <1>5 DEF RemovedFrom, Removed, u
  <2> QED
    BY <2>1, <2>2 DEF u
<1>6. CASE key = g.base
  <2> DEFINE min == MinNode(g.right)
  <2>1. Sound(g.right)
    BY <1>6, FitRight
  <2>2. IsNode(min) /\ RegionOf(min) \in Regs(g.right) /\ \A r \in Regs(g.right) : min.base <= r.base
    BY <1>1, <2>1, MinNodeIs DEF Sound
  <2>3. IsLeast(g.right, min.base)
    BY <2>2 DEF IsLeast, HasKey, RegionOf
  <2>4. DeleteMin[g.right] # {} /\ \A d \in DeleteMin[g.right] : RemovedFrom(g.right, min.base, d) /\ Shrinks(g.right, d.tree)
    BY <1>1, <2>1, <2>3, DeleteMinIs
  <2> HIDE DEF min
  <2>5. ASSUME NEW sub \in DeleteMin[g.right]
        PROVE  LET d == Removed(FixUp([g EXCEPT !.base = min.base, !.size = min.size, !.right = sub.tree]), sub.freed) IN
               RemovedFrom(t, key, d) /\ Shrinks(t, d.tree)
    <3> DEFINE e == [g EXCEPT !.base = min.base, !.size = min.size, !.right = sub.tree]
    <3>1. RemovedFrom(g.right, min.base, sub) /\ Shrinks(g.right, sub.tree) /\ sub.tree \in AnyTree
      BY <2>4 DEF RemovedFrom
    <3>2. IsNode(e) /\ e.red = g.red /\ e.left = g.left /\ e.right = sub.tree
      <4>1. g \in AnyNode /\ min.base \in Nat /\ min.size \in Nat
        BY <1>1, <2>2, NodeOrNot, NodeParts DEF IsNode
      <4>2. e \in AnyNode /\ e.red = g.red /\ e.left = g.left /\ e.right = sub.tree
        BY <3>1, <4>1 DEF AnyNode, Nodes
      <4> QED
        BY <4>2, NodeOrNot
    <3>3. RemovedFrom(g, g.base, Removed(FixUp(e), sub.freed))
      BY <1>1, <1>3, <2>2, <3>1, ReplacedByLeast
    <3> HIDE DEF e
    <3>4. LET d == Removed(FixUp(e), sub.freed) IN RemovedFrom(t, key, d) /\ Shrinks(t, d.tree)
      BY <1>5, <1>6, <3>1, <3>2, <3>3
    <3> QED
      BY <3>4 DEF e
  <2>6. DeleteBelow(g, key, f) =
          {Removed(FixUp([g EXCEPT !.base = min.base, !.size = min.size, !.right = sub.tree]), sub.freed) :
             sub \in DeleteMin[g.right]}
    BY <1>6, Zenon DEF DeleteBelow, min
  <2> QED
    BY <2>4, <2>5, <2>6 DEF f
<1>7. CASE key # g.base
  <2>1. Fit(g.right, key) /\ g.base < key
    BY <1>3, <1>4, <1>7, FitRight
  <2>2. f[g.right] # {} /\ \A d \in f[g.right] : RemovedFrom(g.right, key, d) /\ Shrinks(g.right, d.tree)
    BY <1>1, <2>1 DEF DeletedFrom, f
  <2>3. ASSUME NEW sub \in f[g.right]
        PROVE  LET d == Removed(FixUp([g EXCEPT !.right = sub.tree]), sub.freed) IN
               RemovedFrom(t, key, d) /\ Shrinks(t, d.tree)
    <3> DEFINE e == [g EXCEPT !.right = sub.tree]
    <3>1. RemovedFrom(g.right, key, sub) /\ Shrinks(g.right, sub.tree) /\ sub.tree \in AnyTree
      BY <2>2 DEF RemovedFrom
    <3>2. IsNode(e) /\ e.red = g.red /\ e.left = g.left /\ e.right = sub.tree
      BY <1>1, <3>1, ReplacedParts
    <3>3. RemovedFrom(g, key, Removed(FixUp(e), sub.freed))
      BY <1>1, <1>3, <1>4, <2>1, <3>1, RemovedBelowRight
    <3> HIDE DEF e
    <3>4. LET d == Removed(FixUp(e), sub.freed) IN RemovedFrom(t, key, d) /\ Shrinks(t, d.tree)
      BY <1>5, <3>1, <3>2, <3>3
    <3> QED
      BY <3>4 DEF e
  <2>4. DeleteBelow(g, key, f) = {Removed(FixUp([g EXCEPT !.right = sub.tree]), sub.freed) : sub \in f[g.right]}
    BY <1>7, Zenon DEF DeleteBelow
  <2> QED
    BY <2>2, <2>3, <2>4 DEF f
<1> QED
  BY <1>6, <1>7

(* delete of a key in the node or to its right (tree_alloc.rs:355-378). *)
LEMMA DeleteGoesRight ==
  ASSUME NEW t \in Tree, t # Nil, NEW key, Fit(t, key), t.base <= key, ~(key < t.base),
         \A v \in Tree : Count[v] < Count[t] /\ v # Nil /\ Fit(v, key) => DeletedFrom(v, key)
  PROVE  DeletedFrom(t, key)
<1>1. CASE Turned(t).right = Nil
  BY <1>1, DeleteLast
<1>2. CASE Turned(t).right # Nil
  <2>1. DeleteFn(key)[t] = UNION {DeleteBelow(g, key, DeleteFn(key)) : g \in LeanRight(Turned(t))}
    <3>1. DeleteFn(key)[t] = DeleteStep(t, key, DeleteFn(key))
      BY DeleteUnfolded
    <3> QED
      BY <1>2, <3>1 DEF DeleteStep, DeleteRight
  <2>2. PICK c \in BOOLEAN, n \in Nat : Proper(t, c, n) \/ RightThree(t, c, n)
    BY DEF Fit
  <2>3. LeanRight(Turned(t)) # {}
    BY <1>2, <2>2, LeanRightShape
  <2>4. \A g \in LeanRight(Turned(t)) :
          /\ DeleteBelow(g, key, DeleteFn(key)) # {}
          /\ \A d \in DeleteBelow(g, key, DeleteFn(key)) : RemovedFrom(t, key, d) /\ Shrinks(t, d.tree)
    BY <1>2, DeleteBelowIs
  <2> QED
    BY <2>1, <2>3, <2>4 DEF DeletedFrom
<1> QED
  BY <1>1, <1>2

(* delete does not panic, removes the key and nothing else, and keeps the  *)
(* balance (tree_alloc.rs:342-379).                                        *)
THEOREM DeleteIs ==
  ASSUME NEW h \in Tree, h # Nil, NEW key, Fit(h, key)
  PROVE  DeletedFrom(h, key)
<1> DEFINE T == {k \in Nat : \A t \in Tree : Count[t] = k /\ t # Nil /\ Fit(t, key) => DeletedFrom(t, key)}
<1>1. ASSUME NEW k \in Nat, \A j \in Nat : j < k => j \in T
      PROVE  k \in T
  <2> SUFFICES ASSUME NEW t \in Tree, Count[t] = k, t # Nil, Fit(t, key) PROVE DeletedFrom(t, key)
    OBVIOUS
  <2>1. \A v \in Tree : Count[v] < Count[t] /\ v # Nil /\ Fit(v, key) => DeletedFrom(v, key)
    <3> SUFFICES ASSUME NEW v \in Tree, Count[v] < Count[t], v # Nil, Fit(v, key) PROVE DeletedFrom(v, key)
      OBVIOUS
    <3>1. Count[v] \in Nat
      BY TreeIs, TypesOf
    <3> QED
      BY <1>1, <3>1
  <2>2. key \in Nat /\ t.base \in Nat
    <3>1. t \in AnyTree
      BY TreeIs
    <3>2. PICK r \in Regs(t) : r.base = key
      BY DEF Fit, HasKey
    <3> QED
      BY <3>1, <3>2, TypesOf, NodeParts
  <2>3. CASE key < t.base
    BY <2>1, <2>3, DeleteGoesLeft
  <2>4. CASE t.base <= key
    BY <2>1, <2>2, <2>4, DeleteGoesRight
  <2> QED
    BY <2>2, <2>3, <2>4
<1>2. \A k \in Nat : k \in T
  <2> HIDE DEF T
  <2> QED
    BY <1>1, Inductive
<1>3. Count[h] \in Nat
  BY TreeIs, TypesOf
<1> QED
  BY <1>2, <1>3

-----------------------------------------------------------------------------
(***************************************************************************)
(* Insertion: shape and contents.                                          *)
(***************************************************************************)

(* The shape after an insertion: the node or its left link may turn red    *)
(* below a black node, and a four-node is split.                           *)
Grows(t, u) ==
  /\ t = Nil => TwoNode(u, TRUE, 0)
  /\ \A c \in BOOLEAN, n \in Nat :
       /\ TwoNode(t, c, n) => Proper(u, c, n)
       /\ ThreeNode(t, c, n) => Proper(u, c, n) \/ TwoNode(u, ~c, n + 1)

(* What an insertion makes of a black and of a red subtree. *)
LEMMA GrowsBelow ==
  ASSUME NEW t, NEW u \in AnyTree, Grows(t, u), NEW n \in Nat
  PROVE  /\ Black(t, n) => Black(u, n) \/ Red(u, n)
         /\ Red(t, n) => Red(u, n) \/ ThreeNode(u, TRUE, n)
<1>1. ASSUME Black(t, n)
      PROVE  Black(u, n) \/ Red(u, n)
  <2>1. CASE t = Nil
    <3>1. n = 0
      BY <1>1, <2>1, NilIs DEF Black
    <3> QED
      BY <2>1, <3>1, RedIs DEF Grows
  <2>2. CASE t # Nil
    <3>1. n # 0 /\ n - 1 \in Nat /\ (n - 1) + 1 = n /\ Proper(t, FALSE, n - 1) /\ ~FALSE = TRUE
      BY <1>1, <2>2, BlackNode
    <3>2. Proper(u, FALSE, n - 1) \/ TwoNode(u, ~FALSE, (n - 1) + 1)
      BY <3>1 DEF Grows, Proper
    <3>3. CASE Proper(u, FALSE, n - 1)
      BY <3>1, <3>3, BlackIs
    <3>4. CASE TwoNode(u, ~FALSE, (n - 1) + 1)
      BY <3>1, <3>4, RedIs
    <3> QED
      BY <3>2, <3>3, <3>4
  <2> QED
    BY <2>1, <2>2
<1>2. ASSUME Red(t, n)
      PROVE  Red(u, n) \/ ThreeNode(u, TRUE, n)
  <2>1. TwoNode(t, TRUE, n)
    BY <1>2, RedIs DEF Red
  <2>2. Proper(u, TRUE, n)
    BY <2>1 DEF Grows
  <2> QED
    BY <2>2, RedIs DEF Proper
<1> QED
  BY <1>1, <1>2

(* The rotation of insert_node. *)
Straight(g) == IF IsRed(g.right) /\ ~IsRed(g.left) THEN RotateLeft(g) ELSE g

(* What the end of insert_node makes of each shape                         *)
(* (tree_alloc.rs:195-205).                                                *)
LEMMA StraightShape ==
  ASSUME NEW g, NEW c \in BOOLEAN, NEW n \in Nat
  PROVE  /\ TwoNode(g, c, n) => Proper(SplitFours(Straight(g)), c, n)
         /\ ThreeNode(g, c, n) => Proper(SplitFours(Straight(g)), c, n)
         /\ RightThree(g, c, n) => Proper(SplitFours(Straight(g)), c, n)
         /\ FourNode(g, c, n) => TwoNode(SplitFours(Straight(g)), ~c, n + 1)
         /\ LeftFour(g, c, n) => TwoNode(SplitFours(Straight(g)), ~c, n + 1)
<1>1. ASSUME TwoNode(g, c, n) \/ ThreeNode(g, c, n) \/ FourNode(g, c, n) \/ LeftFour(g, c, n)
      PROVE  Straight(g) = g
  <2>1. ~IsRed(g.right) \/ IsRed(g.left)
    BY <1>1 DEF TwoNode, ThreeNode, FourNode, LeftFour, Red, Black
  <2> QED
    BY <2>1 DEF Straight
<1>2. ASSUME RightThree(g, c, n)
      PROVE  SplitFours(Straight(g)) = FixUp(g)
  BY <1>2 DEF RightThree, Red, Black, Straight, FixUp
<1>3. RightThree(g, c, n) => Proper(SplitFours(Straight(g)), c, n)
  BY <1>2, FixUpShape DEF Proper
<1> QED
  BY <1>1, <1>3, SplitFoursShape DEF Proper

(* insert_node on the way back from the left (tree_alloc.rs:189-205). *)
LEMMA InsertLeftShape ==
  ASSUME NEW h, IsNode(h), NEW l \in AnyTree, Grows(h.left, l)
  PROVE  Grows(h, SplitFours(Straight([h EXCEPT !.left = l])))
<1> DEFINE g == [h EXCEPT !.left = l]
           u == SplitFours(Straight(g))
<1>1. IsNode(g) /\ g.red = h.red /\ g.left = l /\ g.right = h.right
  BY ReplacedParts
<1>2. h # Nil
  BY DEF IsNode
<1> HIDE DEF g
<1>3. ASSUME NEW c \in BOOLEAN, NEW n \in Nat, TwoNode(h, c, n)
      PROVE  Proper(u, c, n)
  <2>1. Black(l, n) \/ Red(l, n)
    BY <1>3, GrowsBelow DEF TwoNode
  <2>2. TwoNode(g, c, n) \/ ThreeNode(g, c, n)
    BY <1>1, <1>3, <2>1 DEF TwoNode, ThreeNode
  <2> QED
    BY <2>2, StraightShape
<1>4. ASSUME NEW c \in BOOLEAN, NEW n \in Nat, ThreeNode(h, c, n)
      PROVE  Proper(u, c, n) \/ TwoNode(u, ~c, n + 1)
  <2>1. Red(l, n) \/ ThreeNode(l, TRUE, n)
    BY <1>4, GrowsBelow DEF ThreeNode
  <2>2. ThreeNode(g, c, n) \/ LeftFour(g, c, n)
    BY <1>1, <1>4, <2>1 DEF ThreeNode, LeftFour
  <2> QED
    BY <2>2, StraightShape
<1> HIDE DEF u
<1>5. Grows(h, u)
  BY <1>2, <1>3, <1>4 DEF Grows
<1> QED
  BY <1>5 DEF u, g

(* insert_node on the way back from the right (tree_alloc.rs:189-205). *)
LEMMA InsertRightShape ==
  ASSUME NEW h, IsNode(h), NEW r \in AnyTree, Grows(h.right, r)
  PROVE  Grows(h, SplitFours(Straight([h EXCEPT !.right = r])))
<1> DEFINE g == [h EXCEPT !.right = r]
           u == SplitFours(Straight(g))
<1>1. IsNode(g) /\ g.red = h.red /\ g.right = r /\ g.left = h.left
  BY ReplacedParts
<1>2. h # Nil
  BY DEF IsNode
<1> HIDE DEF g
<1>3. ASSUME NEW c \in BOOLEAN, NEW n \in Nat, TwoNode(h, c, n)
      PROVE  Proper(u, c, n)
  <2>1. Black(r, n) \/ Red(r, n)
    BY <1>3, GrowsBelow DEF TwoNode
  <2>2. TwoNode(g, c, n) \/ RightThree(g, c, n)
    BY <1>1, <1>3, <2>1 DEF TwoNode, RightThree
  <2> QED
    BY <2>2, StraightShape
<1>4. ASSUME NEW c \in BOOLEAN, NEW n \in Nat, ThreeNode(h, c, n)
      PROVE  Proper(u, c, n) \/ TwoNode(u, ~c, n + 1)
  <2>1. Black(r, n) \/ Red(r, n)
    BY <1>4, GrowsBelow DEF ThreeNode
  <2>2. ThreeNode(g, c, n) \/ FourNode(g, c, n)
    BY <1>1, <1>4, <2>1 DEF ThreeNode, FourNode
  <2> QED
    BY <2>2, StraightShape
<1> HIDE DEF u
<1>5. Grows(h, u)
  BY <1>2, <1>3, <1>4 DEF Grows
<1> QED
  BY <1>5 DEF u, g

-----------------------------------------------------------------------------
NewKey(t, node) == \A r \in Regs(t) : r.base # node.base

InsertedInto(t, node, u) ==
  /\ IsNode(u) /\ Regs(u) = Regs(t) \cup {RegionOf(node)} /\ Count[u] = Count[t] + 1
  /\ InOrder(u) /\ Exact(u)

(* The end of insert_node keeps what the tree holds, and makes the sizes   *)
(* exact (tree_alloc.rs:195-205).                                          *)
LEMMA StraightKeeps ==
  ASSUME NEW g, IsNode(g)
  PROVE  Keeps(g, SplitFours(Straight(g))) /\ (SubExact(g) => Exact(SplitFours(Straight(g))))
<1>1. IsNode(Straight(g)) /\ Keeps(g, Straight(g))
  BY RotateLeftKeeps, KeepsItself DEF Straight, IsRed, Keeps
<1>2. Keeps(g, SplitFours(Straight(g)))
  BY <1>1, SplitFoursKeeps, KeepsTwice
<1>3. SubExact(g) => SubExact(Straight(g))
  BY <1>1 DEF Keeps
<1> QED
  BY <1>1, <1>2, <1>3, SplitFoursKeeps

(* What the tree holds after an insertion to the left                      *)
(* (tree_alloc.rs:189-205).                                                *)
LEMMA InsertLeftKeeps ==
  ASSUME NEW h, IsNode(h), InOrder(h), Exact(h), NEW node, IsNode(node), node.base < h.base,
         NEW l, InsertedInto(h.left, node, l)
  PROVE  InsertedInto(h, node, SplitFours(Straight([h EXCEPT !.left = l])))
<1> DEFINE g == [h EXCEPT !.left = l]
           u == SplitFours(Straight(g))
<1>1. /\ l \in AnyTree /\ Regs(l) = Regs(h.left) \cup {RegionOf(node)} /\ Count[l] = Count[h.left] + 1
      /\ InOrder(l) /\ Exact(l)
  BY DEF InsertedInto, IsNode
<1>2. IsNode(g) /\ SameNode(g, h) /\ g.left = l /\ g.right = h.right
  BY <1>1, ReplacedParts
<1>3. h.left \in AnyTree /\ h.right \in AnyTree /\ h.base \in Nat
  BY NodeParts DEF IsNode
<1> HIDE DEF g
<1>4. /\ Regs(h) = {RegionOf(h)} \cup Regs(h.left) \cup Regs(h.right)
      /\ Regs(g) = {RegionOf(g)} \cup Regs(g.left) \cup Regs(g.right)
  BY <1>2, NodeIs DEF IsNode
<1>5. RegionOf(g) = RegionOf(h) /\ RegionOf(node).base = node.base /\ g.base = h.base
  BY <1>2 DEF RegionOf, SameNode
<1>6. /\ InOrder(h.right) /\ \A r \in Regs(h.left) : r.base < h.base
      /\ \A r \in Regs(h.right) : h.base < r.base
      /\ Exact(h.right)
  BY NodeIs DEF IsNode
<1>7. Regs(g) = Regs(h) \cup {RegionOf(node)}
  BY <1>1, <1>2, <1>4, <1>5
<1>8. InOrder(g)
  <2>1. \A r \in Regs(l) : r.base < h.base
    BY <1>1, <1>5, <1>6
  <2> QED
    BY <1>1, <1>2, <1>5, <1>6, <2>1, NodeIs DEF IsNode
<1>9. Count[g] = Count[h] + 1
  <2>1. Count[g] = Count[g.left] + 1 + Count[g.right] /\ Count[h] = Count[h.left] + 1 + Count[h.right]
    BY <1>2, NodeIs DEF IsNode
  <2> QED
    BY <1>1, <1>2, <1>3, <2>1, TypesOf
<1>10. SubExact(g)
  BY <1>1, <1>2, <1>6 DEF SubExact
<1>11. Keeps(g, u) /\ Exact(u)
  BY <1>2, <1>10, StraightKeeps
<1> HIDE DEF u
<1>12. InsertedInto(h, node, u)
  BY <1>7, <1>8, <1>9, <1>11 DEF InsertedInto, Keeps
<1> QED
  BY <1>12 DEF u, g

(* What the tree holds after an insertion to the right                     *)
(* (tree_alloc.rs:189-205).                                                *)
LEMMA InsertRightKeeps ==
  ASSUME NEW h, IsNode(h), InOrder(h), Exact(h), NEW node, IsNode(node), h.base < node.base,
         NEW l, InsertedInto(h.right, node, l)
  PROVE  InsertedInto(h, node, SplitFours(Straight([h EXCEPT !.right = l])))
<1> DEFINE g == [h EXCEPT !.right = l]
           u == SplitFours(Straight(g))
<1>1. /\ l \in AnyTree /\ Regs(l) = Regs(h.right) \cup {RegionOf(node)} /\ Count[l] = Count[h.right] + 1
      /\ InOrder(l) /\ Exact(l)
  BY DEF InsertedInto, IsNode
<1>2. IsNode(g) /\ SameNode(g, h) /\ g.right = l /\ g.left = h.left
  BY <1>1, ReplacedParts
<1>3. h.left \in AnyTree /\ h.right \in AnyTree /\ h.base \in Nat
  BY NodeParts DEF IsNode
<1> HIDE DEF g
<1>4. /\ Regs(h) = {RegionOf(h)} \cup Regs(h.left) \cup Regs(h.right)
      /\ Regs(g) = {RegionOf(g)} \cup Regs(g.left) \cup Regs(g.right)
  BY <1>2, NodeIs DEF IsNode
<1>5. RegionOf(g) = RegionOf(h) /\ RegionOf(node).base = node.base /\ g.base = h.base
  BY <1>2 DEF RegionOf, SameNode
<1>6. /\ InOrder(h.left) /\ \A r \in Regs(h.left) : r.base < h.base
      /\ \A r \in Regs(h.right) : h.base < r.base
      /\ Exact(h.left)
  BY NodeIs DEF IsNode
<1>7. Regs(g) = Regs(h) \cup {RegionOf(node)}
  BY <1>1, <1>2, <1>4, <1>5
<1>8. InOrder(g)
  <2>1. \A r \in Regs(l) : h.base < r.base
    BY <1>1, <1>5, <1>6
  <2> QED
    BY <1>1, <1>2, <1>5, <1>6, <2>1, NodeIs DEF IsNode
<1>9. Count[g] = Count[h] + 1
  <2>1. Count[g] = Count[g.left] + 1 + Count[g.right] /\ Count[h] = Count[h.left] + 1 + Count[h.right]
    BY <1>2, NodeIs DEF IsNode
  <2> QED
    BY <1>1, <1>2, <1>3, <2>1, TypesOf
<1>10. SubExact(g)
  BY <1>1, <1>2, <1>6 DEF SubExact
<1>11. Keeps(g, u) /\ Exact(u)
  BY <1>2, <1>10, StraightKeeps
<1> HIDE DEF u
<1>12. InsertedInto(h, node, u)
  BY <1>7, <1>8, <1>9, <1>11 DEF InsertedInto, Keeps
<1> QED
  BY <1>12 DEF u, g

Fresh(node) == IsNode(node) /\ node.red = TRUE /\ node.left = Nil /\ node.right = Nil /\ node.max_size = node.size

(* A new node is the insertion into None (tree_alloc.rs:184-187). *)
LEMMA FreshIs ==
  ASSUME NEW node, Fresh(node)
  PROVE  InsertedInto(Nil, node, node) /\ Grows(Nil, node)
<1>1. IsNode(node) /\ node.size \in Nat /\ node \in AnyTree
  BY NodeParts DEF Fresh, IsNode
<1>2. Regs(node) = {RegionOf(node)} /\ InOrder(node) /\ Count[node] = 0 + 1 + 0
  BY <1>1, NodeIs, NilIs DEF IsNode, Fresh
<1>3. Exact(node)
  <2>1. Largest(node) = node.size
    BY <1>1 DEF Largest, Max2, MaxSize, Fresh
  <2> QED
    BY <1>1, <2>1, NodeIs, NilIs DEF IsNode, Fresh
<1>4. TwoNode(node, TRUE, 0)
  BY <1>1, NilIs DEF TwoNode, Black, IsRed, Fresh
<1>5. Grows(Nil, node)
  BY <1>4 DEF Grows, TwoNode, ThreeNode, IsNode
<1>6. InsertedInto(Nil, node, node)
  BY <1>1, <1>2, <1>3, NilIs DEF InsertedInto
<1> QED
  BY <1>5, <1>6

(* insert_node adds the node and nothing else, keeps order and sizes, and  *)
(* grows the tree by at most one level (tree_alloc.rs:183-206).            *)
THEOREM InsertNodeIs ==
  ASSUME NEW node, Fresh(node), NEW h \in Tree, InOrder(h), Exact(h), NewKey(h, node)
  PROVE  InsertedInto(h, node, InsertNode(h, node)) /\ Grows(h, InsertNode(h, node))
<1> DEFINE Done(t) == InsertedInto(t, node, InsertNode(t, node)) /\ Grows(t, InsertNode(t, node))
           P == {t \in AnyTree : t \in Tree /\ InOrder(t) /\ Exact(t) /\ NewKey(t, node) => Done(t)}
<1>0. node \in AnyTree /\ IsNode(node) /\ node.base \in Nat
  BY NodeParts DEF Fresh, IsNode
<1>1. Nil \in P
  <2>1. InsertNode(Nil, node) = node
    BY <1>0, TreeIs, InsertUnfolded
  <2> QED
    BY <2>1, NilIs, FreshIs
<1>2. ASSUME NEW t \in AnyNode, t.left \in P, t.right \in P
      PROVE  t \in P
  <2>1. t # Nil /\ t \in AnyTree /\ t.left \in AnyTree /\ t.right \in AnyTree /\ t.base \in Nat /\ IsNode(t)
    BY NodeOrNot, NodeParts DEF IsNode
  <2> SUFFICES ASSUME t \in Tree, InOrder(t), Exact(t), NewKey(t, node) PROVE Done(t)
    BY <2>1
  <2>2. t.left \in Tree /\ t.right \in Tree
    BY <2>1, TreeIs DEF Closed
  <2>3. /\ Regs(t) = {RegionOf(t)} \cup Regs(t.left) \cup Regs(t.right)
        /\ InOrder(t.left) /\ InOrder(t.right) /\ Exact(t.left) /\ Exact(t.right)
    BY <2>1, NodeIs
  <2>4. NewKey(t.left, node) /\ NewKey(t.right, node) /\ t.base # node.base
    <3>1. NewKey(t, node) /\ RegionOf(t) \in Regs(t) /\ RegionOf(t).base = t.base
      BY <2>3 DEF RegionOf
    <3>2. Regs(t.left) \subseteq Regs(t) /\ Regs(t.right) \subseteq Regs(t)
      BY <2>3
    <3> QED
      BY <3>1, <3>2 DEF NewKey
  <2>5. Done(t.left) /\ Done(t.right)
    BY <1>2, <2>2, <2>3, <2>4
  <2>6. InsertNode(t, node) = InsertAt(t, InsertNode(t.left, node), InsertNode(t.right, node), node)
    BY <1>0, <2>1, InsertUnfolded
  <2>7. CASE node.base < t.base
    <3> DEFINE l == InsertNode(t.left, node)
    <3>1. InsertedInto(t.left, node, l) /\ Grows(t.left, l) /\ l \in AnyTree
      BY <2>5 DEF InsertedInto, IsNode
    <3>2. InsertNode(t, node) = SplitFours(Straight([t EXCEPT !.left = l]))
      BY <2>6, <2>7 DEF InsertAt, Straight
    <3> HIDE DEF l
    <3> QED
      BY <1>0, <2>1, <2>7, <3>1, <3>2, InsertLeftKeeps, InsertLeftShape
  <2>8. CASE ~(node.base < t.base)
    <3> DEFINE l == InsertNode(t.right, node)
    <3>1. InsertedInto(t.right, node, l) /\ Grows(t.right, l) /\ l \in AnyTree
      BY <2>5 DEF InsertedInto, IsNode
    <3>2. InsertNode(t, node) = SplitFours(Straight([t EXCEPT !.right = l]))
      BY <2>6, <2>8 DEF InsertAt, Straight
    <3>3. t.base < node.base
      BY <1>0, <2>1, <2>4, <2>8
    <3> HIDE DEF l
    <3> QED
      BY <1>0, <2>1, <3>3, <3>1, <3>2, InsertRightKeeps, InsertRightShape
  <2> QED
    BY <2>7, <2>8
<1>3. AnyTree \subseteq P
  <2> HIDE DEF P
  <2> QED
    BY <1>1, <1>2, TreeInduction
<1> QED
  BY <1>3, TreeIs

-----------------------------------------------------------------------------
(***************************************************************************)
(* The searches of free.                                                   *)
(***************************************************************************)

(* N holds the node of t with the greatest base below addr, if there is one. *)
GreatestBelow(t, addr, N) ==
  \/ N = {} /\ \A r \in Regs(t) : addr <= r.base
  \/ \E p \in NodesOf[t] : /\ N = {p} /\ IsNode(p) /\ RegionOf(p) \in Regs(t) /\ p.base < addr
                           /\ \A r \in Regs(t) : r.base < addr => r.base <= p.base

(* N holds the node of t with the least base from addr on, if there is one. *)
LeastFrom(t, addr, N) ==
  \/ N = {} /\ \A r \in Regs(t) : r.base < addr
  \/ \E p \in NodesOf[t] : /\ N = {p} /\ IsNode(p) /\ RegionOf(p) \in Regs(t) /\ addr <= p.base
                           /\ \A r \in Regs(t) : addr <= r.base => p.base <= r.base

(* What a node adds to what its children hold. *)
LEMMA NodesBelow ==
  ASSUME NEW t, IsNode(t)
  PROVE  /\ t \in NodesOf[t] /\ NodesOf[t.left] \subseteq NodesOf[t] /\ NodesOf[t.right] \subseteq NodesOf[t]
         /\ Regs(t) = {RegionOf(t)} \cup Regs(t.left) \cup Regs(t.right)
         /\ RegionOf(t).base = t.base /\ t.base \in Nat
         /\ t.left \in AnyTree /\ t.right \in AnyTree
         /\ \A r \in Regs(t) : r.base \in Nat
BY NodesOfIs, NodeIs, NodeParts, TypesOf DEF IsNode, RegionOf

(* predecessor finds the greatest base below the address                   *)
(* (tree_alloc.rs:258-273).                                                *)
LEMMA PredecessorIs ==
  ASSUME NEW addr \in Nat, NEW t \in Tree, InOrder(t)
  PROVE  GreatestBelow(t, addr, PredecessorIn(t, addr))
<1> DEFINE P == {u \in AnyTree : u \in Tree /\ InOrder(u) => GreatestBelow(u, addr, PredecessorIn(u, addr))}
<1>1. Nil \in P
  BY PredecessorUnfolded, NilIs DEF GreatestBelow
<1>2. ASSUME NEW u \in AnyNode, u.left \in P, u.right \in P
      PROVE  u \in P
  <2>1. IsNode(u) /\ u \in AnyTree /\ u # Nil
    BY NodeOrNot DEF IsNode
  <2> SUFFICES ASSUME u \in Tree, InOrder(u) PROVE GreatestBelow(u, addr, PredecessorIn(u, addr))
    BY <2>1
  <2>2. /\ u \in NodesOf[u] /\ NodesOf[u.left] \subseteq NodesOf[u] /\ NodesOf[u.right] \subseteq NodesOf[u]
        /\ Regs(u) = {RegionOf(u)} \cup Regs(u.left) \cup Regs(u.right)
        /\ RegionOf(u).base = u.base /\ u.base \in Nat
        /\ \A r \in Regs(u) : r.base \in Nat
    BY <2>1, NodesBelow
  <2>3. u.left \in Tree /\ u.right \in Tree
    BY <2>1, TreeIs DEF Closed
  <2>4. /\ InOrder(u.left) /\ InOrder(u.right)
        /\ \A r \in Regs(u.left) : r.base < u.base
        /\ \A r \in Regs(u.right) : u.base < r.base
    BY <2>1, NodeIs
  <2> DEFINE L == PredecessorIn(u.left, addr)
             R == PredecessorIn(u.right, addr)
  <2>5. GreatestBelow(u.left, addr, L) /\ GreatestBelow(u.right, addr, R)
    BY <1>2, <2>3, <2>4
  <2>6. PredecessorIn(u, addr) = IF u.base >= addr THEN L ELSE IF R = {} THEN {u} ELSE R
    BY <2>1, PredecessorUnfolded
  <2> HIDE DEF L, R
  <2>7. CASE u.base >= addr
    <3>1. \A r \in Regs(u.right) : addr <= r.base
      BY <2>2, <2>4, <2>7
    <3>2. GreatestBelow(u, addr, L)
      <4>1. CASE L = {} /\ \A r \in Regs(u.left) : addr <= r.base
        BY <2>2, <2>7, <3>1, <4>1 DEF GreatestBelow
      <4>2. CASE ~(L = {} /\ \A r \in Regs(u.left) : addr <= r.base)
        <5>1. PICK p \in NodesOf[u.left] :
                /\ L = {p} /\ IsNode(p) /\ RegionOf(p) \in Regs(u.left) /\ p.base < addr
                /\ \A r \in Regs(u.left) : r.base < addr => r.base <= p.base
          BY <2>5, <4>2 DEF GreatestBelow
        <5>2. \A r \in Regs(u) : r.base < addr => r.base <= p.base
          BY <2>2, <2>7, <3>1, <5>1
        <5> QED
          BY <2>2, <5>1, <5>2 DEF GreatestBelow
      <4> QED
        BY <4>1, <4>2
    <3> QED
      BY <2>6, <2>7, <3>2
  <2>8. CASE u.base < addr
    <3>1. CASE R = {}
      <4>1. \A r \in Regs(u.right) : addr <= r.base
        BY <2>5, <3>1 DEF GreatestBelow
      <4>2. \A r \in Regs(u) : r.base < addr => r.base <= u.base
        BY <2>2, <2>4, <4>1
      <4>3. PredecessorIn(u, addr) = {u}
        BY <2>2, <2>6, <2>8, <3>1
      <4> QED
        BY <2>1, <2>2, <2>8, <4>2, <4>3 DEF GreatestBelow
    <3>2. CASE R # {}
      <4>1. PICK p \in NodesOf[u.right] :
              /\ R = {p} /\ IsNode(p) /\ RegionOf(p) \in Regs(u.right) /\ p.base < addr
              /\ \A r \in Regs(u.right) : r.base < addr => r.base <= p.base
        BY <2>5, <3>2 DEF GreatestBelow
      <4>2. u.base < p.base /\ p.base \in Nat
        <5>1. RegionOf(p).base = p.base
          BY DEF RegionOf
        <5> QED
          BY <2>2, <2>4, <4>1, <5>1
      <4>3. \A r \in Regs(u) : r.base < addr => r.base <= p.base
        BY <2>2, <2>4, <4>1, <4>2
      <4>4. PredecessorIn(u, addr) = {p}
        BY <2>2, <2>6, <2>8, <3>2, <4>1
      <4> QED
        BY <2>2, <4>1, <4>3, <4>4 DEF GreatestBelow
    <3> QED
      BY <3>1, <3>2
  <2> QED
    BY <2>2, <2>7, <2>8
<1>3. AnyTree \subseteq P
  <2> HIDE DEF P
  <2> QED
    BY <1>1, <1>2, TreeInduction
<1> QED
  BY <1>3, TreeIs

(* successor finds the least base from the address on                      *)
(* (tree_alloc.rs:275-286).                                                *)
LEMMA SuccessorIs ==
  ASSUME NEW addr \in Nat, NEW t \in Tree, InOrder(t)
  PROVE  LeastFrom(t, addr, SuccessorIn(t, addr))
<1> DEFINE P == {u \in AnyTree : u \in Tree /\ InOrder(u) => LeastFrom(u, addr, SuccessorIn(u, addr))}
<1>1. Nil \in P
  BY SuccessorUnfolded, NilIs DEF LeastFrom
<1>2. ASSUME NEW u \in AnyNode, u.left \in P, u.right \in P
      PROVE  u \in P
  <2>1. IsNode(u) /\ u \in AnyTree /\ u # Nil
    BY NodeOrNot DEF IsNode
  <2> SUFFICES ASSUME u \in Tree, InOrder(u) PROVE LeastFrom(u, addr, SuccessorIn(u, addr))
    BY <2>1
  <2>2. /\ u \in NodesOf[u] /\ NodesOf[u.left] \subseteq NodesOf[u] /\ NodesOf[u.right] \subseteq NodesOf[u]
        /\ Regs(u) = {RegionOf(u)} \cup Regs(u.left) \cup Regs(u.right)
        /\ RegionOf(u).base = u.base /\ u.base \in Nat
        /\ \A r \in Regs(u) : r.base \in Nat
    BY <2>1, NodesBelow
  <2>3. u.left \in Tree /\ u.right \in Tree
    BY <2>1, TreeIs DEF Closed
  <2>4. /\ InOrder(u.left) /\ InOrder(u.right)
        /\ \A r \in Regs(u.left) : r.base < u.base
        /\ \A r \in Regs(u.right) : u.base < r.base
    BY <2>1, NodeIs
  <2> DEFINE L == SuccessorIn(u.left, addr)
             R == SuccessorIn(u.right, addr)
  <2>5. LeastFrom(u.left, addr, L) /\ LeastFrom(u.right, addr, R)
    BY <1>2, <2>3, <2>4
  <2>6. SuccessorIn(u, addr) = IF u.base < addr THEN R ELSE IF L = {} THEN {u} ELSE L
    BY <2>1, SuccessorUnfolded
  <2> HIDE DEF L, R
  <2>7. CASE u.base < addr
    <3>1. \A r \in Regs(u.left) : r.base < addr
      BY <2>2, <2>4, <2>7
    <3>2. LeastFrom(u, addr, R)
      <4>1. CASE R = {} /\ \A r \in Regs(u.right) : r.base < addr
        BY <2>2, <2>7, <3>1, <4>1 DEF LeastFrom
      <4>2. CASE ~(R = {} /\ \A r \in Regs(u.right) : r.base < addr)
        <5>1. PICK p \in NodesOf[u.right] :
                /\ R = {p} /\ IsNode(p) /\ RegionOf(p) \in Regs(u.right) /\ addr <= p.base
                /\ \A r \in Regs(u.right) : addr <= r.base => p.base <= r.base
          BY <2>5, <4>2 DEF LeastFrom
        <5>2. \A r \in Regs(u) : addr <= r.base => p.base <= r.base
          BY <2>2, <2>7, <3>1, <5>1
        <5> QED
          BY <2>2, <5>1, <5>2 DEF LeastFrom
      <4> QED
        BY <4>1, <4>2
    <3> QED
      BY <2>6, <2>7, <3>2
  <2>8. CASE ~(u.base < addr)
    <3>1. CASE L = {}
      <4>1. \A r \in Regs(u.left) : r.base < addr
        BY <2>5, <3>1 DEF LeastFrom
      <4>2. \A r \in Regs(u) : addr <= r.base => u.base <= r.base
        BY <2>2, <2>4, <4>1
      <4>3. SuccessorIn(u, addr) = {u} /\ addr <= u.base
        BY <2>2, <2>6, <2>8, <3>1
      <4> QED
        BY <2>1, <2>2, <4>2, <4>3 DEF LeastFrom
    <3>2. CASE L # {}
      <4>1. PICK p \in NodesOf[u.left] :
              /\ L = {p} /\ IsNode(p) /\ RegionOf(p) \in Regs(u.left) /\ addr <= p.base
              /\ \A r \in Regs(u.left) : addr <= r.base => p.base <= r.base
        BY <2>5, <3>2 DEF LeastFrom
      <4>2. p.base < u.base /\ p.base \in Nat
        <5>1. RegionOf(p).base = p.base
          BY DEF RegionOf
        <5> QED
          BY <2>2, <2>4, <4>1, <5>1
      <4>3. \A r \in Regs(u) : addr <= r.base => p.base <= r.base
        BY <2>2, <2>4, <4>1, <4>2
      <4>4. SuccessorIn(u, addr) = {p}
        BY <2>6, <2>8, <3>2, <4>1
      <4> QED
        BY <2>2, <4>1, <4>3, <4>4 DEF LeastFrom
    <3> QED
      BY <3>1, <3>2
  <2> QED
    BY <2>7, <2>8
<1>3. AnyTree \subseteq P
  <2> HIDE DEF P
  <2> QED
    BY <1>1, <1>2, TreeInduction
<1> QED
  BY <1>3, TreeIs

-----------------------------------------------------------------------------
(***************************************************************************)
(* Heights: the bound, and balance as the property of TreeAlloc states it. *)
(***************************************************************************)

(* A path has at most two nodes for each black one.                        *)
Shallow(t, n) == (Black(t, n) => t \in Trees[2 * n]) /\ (Red(t, n) => t \in Trees[2 * n + 1])

(* A balanced tree of n black nodes on a path has at most 2n levels, and   *)
(* one more when its root is red.                                          *)
LEMMA DepthOf ==
  ASSUME NEW t \in AnyTree, NEW n \in Nat
  PROVE  Shallow(t, n)
<1> DEFINE P == {u \in AnyTree : \A k \in Nat : Shallow(u, k)}
<1>1. Nil \in P
  <2> SUFFICES ASSUME NEW k \in Nat PROVE (Black(Nil, k) => Nil \in Trees[2 * k]) /\ ~Red(Nil, k)
    BY NilIs DEF Shallow
  <2>1. k = 0 => 2 * k = 0
    OBVIOUS
  <2> QED
    BY <2>1, NilIs, TreesUnfolded DEF Black, Red, IsRed
<1>2. ASSUME NEW u \in AnyNode, u.left \in P, u.right \in P
      PROVE  u \in P
  <2>1. IsNode(u) /\ u \in AnyTree /\ u # Nil
    BY NodeOrNot DEF IsNode
  <2>2. \A k \in Nat : Shallow(u.left, k) /\ Shallow(u.right, k)
    BY <1>2
  <2> SUFFICES ASSUME NEW k \in Nat PROVE Shallow(u, k)
    BY <2>1
  <2>3. ASSUME Red(u, k)
        PROVE  u \in Trees[2 * k + 1]
    <3>1. TwoNode(u, TRUE, k)
      BY <2>1, <2>3, RedIs
    <3>2. Shallow(u.left, k) /\ Shallow(u.right, k)
      BY <2>2
    <3>3. u.left \in Trees[2 * k] /\ u.right \in Trees[2 * k]
      BY <3>1, <3>2 DEF TwoNode, Shallow
    <3>4. 2 * k \in Nat
      OBVIOUS
    <3> QED
      BY <2>1, <3>3, <3>4, NodeIn
  <2>4. ASSUME Black(u, k)
        PROVE  u \in Trees[2 * k]
    <3>1. k # 0 /\ k - 1 \in Nat /\ Proper(u, FALSE, k - 1)
      BY <2>1, <2>4, BlackNode
    <3> DEFINE j == k - 1
    <3>2. j \in Nat /\ 2 * j \in Nat /\ 2 * j + 1 \in Nat /\ 2 * j <= 2 * j + 1 /\ (2 * j + 1) + 1 = 2 * k
      BY <3>1
    <3>3. (Black(u.left, j) \/ Red(u.left, j)) /\ Black(u.right, j)
      BY <3>1 DEF Proper, TwoNode, ThreeNode
    <3> HIDE DEF j
    <3>4. Shallow(u.left, j) /\ Shallow(u.right, j)
      BY <2>2, <3>2
    <3>5. Trees[2 * j] \subseteq Trees[2 * j + 1]
      BY <3>2, TreesGrow
    <3>6. u.left \in Trees[2 * j + 1] /\ u.right \in Trees[2 * j + 1]
      BY <3>3, <3>4, <3>5 DEF Shallow
    <3>7. u \in Trees[(2 * j + 1) + 1]
      BY <2>1, <3>2, <3>6, NodeIn
    <3> QED
      BY <3>2, <3>7
  <2> QED
    BY <2>3, <2>4 DEF Shallow
<1>3. AnyTree \subseteq P
  <2> HIDE DEF P
  <2> QED
    BY <1>1, <1>2, TreeInduction
<1> QED
  BY <1>3

(* The levels of a two- or three-node. *)
LEMMA ProperDepth ==
  ASSUME NEW t, NEW c, NEW n \in Nat, Proper(t, c, n)
  PROVE  t \in Trees[2 * n + 2]
<1>1. /\ IsNode(t) /\ (Black(t.left, n) \/ Red(t.left, n)) /\ Black(t.right, n)
      /\ t.left \in AnyTree /\ t.right \in AnyTree
  BY NodeParts DEF Proper, TwoNode, ThreeNode, IsNode
<1>2. 2 * n \in Nat /\ 2 * n + 1 \in Nat /\ 2 * n <= 2 * n + 1 /\ (2 * n + 1) + 1 = 2 * n + 2
  OBVIOUS
<1>3. Trees[2 * n] \subseteq Trees[2 * n + 1]
  BY <1>2, TreesGrow
<1>4. t.left \in Trees[2 * n + 1] /\ t.right \in Trees[2 * n + 1]
  BY <1>1, <1>3, DepthOf DEF Shallow
<1>5. t \in Trees[(2 * n + 1) + 1]
  BY <1>1, <1>2, <1>4, NodeIn
<1> QED
  BY <1>2, <1>5

(* A tree whose root has at most k black nodes below it on a path. *)
Rooted(t, k) == t = Nil \/ \E c \in BOOLEAN, n \in 0 .. k : Proper(t, c, n)

(* A balanced tree up to the bound is in the bounded set. *)
LEMMA RootedInTree ==
  ASSUME NEW t, Rooted(t, MaxHeight + 1)
  PROVE  t \in Tree
<1>1. CASE t = Nil
  BY <1>1, TreeIs
<1>2. CASE t # Nil
  <2>1. PICK c \in BOOLEAN, n \in 0 .. (MaxHeight + 1) : Proper(t, c, n)
    BY <1>2 DEF Rooted
  <2>2. /\ n \in Nat /\ 2 * n + 2 \in Nat /\ 2 * MaxHeight + 4 \in Nat
        /\ 2 * n + 2 <= 2 * MaxHeight + 4
    BY MaxHeightAssumption
  <2>3. t \in Trees[2 * n + 2]
    BY <2>1, <2>2, ProperDepth
  <2> QED
    BY <2>2, <2>3, TreesGrow DEF Tree
<1> QED
  BY <1>1, <1>2

(* The bound on the height may be raised. *)
LEMMA RootedGrows ==
  ASSUME NEW t, NEW j \in Int, NEW k \in Int, j <= k, Rooted(t, j)
  PROVE  Rooted(t, k)
<1>1. 0 .. j \subseteq 0 .. k
  OBVIOUS
<1> QED
  BY <1>1 DEF Rooted

-----------------------------------------------------------------------------
(* The black heights of a balanced tree are one number. *)
LEMMA BlackHeightsIs ==
  \A t \in Tree : Height[t] >= 0 => BlackHeights[t] = {Height[t]}
<1> DEFINE P == {t \in AnyTree : t \in Tree /\ Height[t] >= 0 => BlackHeights[t] = {Height[t]}}
<1>1. Nil \in P
  BY BlackHeightsUnfolded, NilIs
<1>2. ASSUME NEW t \in AnyNode, t.left \in P, t.right \in P
      PROVE  t \in P
  <2>1. t # Nil /\ t \in AnyTree /\ t.left \in AnyTree /\ t.right \in AnyTree
    BY NodeOrNot, NodeParts DEF IsNode
  <2> SUFFICES ASSUME t \in Tree, Height[t] >= 0 PROVE BlackHeights[t] = {Height[t]}
    BY <2>1
  <2>2. t.left \in Tree /\ t.right \in Tree
    BY <2>1, TreeIs DEF Closed
  <2>3. Height[t] = HeightAbove(t, Height[t.left], Height[t.right])
    BY <2>1, NodeIs
  <2>4. /\ Height[t.left] = Height[t.right] /\ Height[t.left] >= 0
        /\ Height[t] = Height[t.left] + (IF t.red THEN 0 ELSE 1)
    BY <2>3 DEF HeightAbove
  <2>5. BlackHeights[t.left] = {Height[t.left]} /\ BlackHeights[t.right] = {Height[t.left]}
    BY <1>2, <2>2, <2>4
  <2>6. BlackHeights[t] =
          {h + (IF t.red THEN 0 ELSE 1) : h \in BlackHeights[t.left] \cup BlackHeights[t.right]}
    BY <2>1, BlackHeightsUnfolded
  <2>7. BlackHeights[t.left] \cup BlackHeights[t.right] = {Height[t.left]}
    BY <2>5
  <2> QED
    BY <2>4, <2>6, <2>7
<1>3. AnyTree \subseteq P
  <2> HIDE DEF P
  <2> QED
    BY <1>1, <1>2, TreeInduction
<1> QED
  BY <1>3, TreeIs

(* The black heights of a two- or three-node. *)
LEMMA ProperHeights ==
  ASSUME NEW t \in Tree, NEW c \in BOOLEAN, NEW n \in Nat, Proper(t, c, n)
  PROVE  BlackHeights[t] = {n + (IF c THEN 0 ELSE 1)}
<1>1. /\ t # Nil /\ t.left \in Tree /\ t.right \in Tree /\ t.red = c
      /\ Height[t.left] = n /\ Height[t.right] = n
  BY TreeIs DEF Closed, Proper, TwoNode, ThreeNode, IsNode, Black, Red
<1>2. BlackHeights[t.left] = {n} /\ BlackHeights[t.right] = {n}
  BY <1>1, BlackHeightsIs
<1>3. BlackHeights[t] = {h + (IF t.red THEN 0 ELSE 1) : h \in BlackHeights[t.left] \cup BlackHeights[t.right]}
  BY <1>1, BlackHeightsUnfolded
<1>4. BlackHeights[t.left] \cup BlackHeights[t.right] = {n}
  BY <1>2
<1> QED
  BY <1>1, <1>3, <1>4

(* The bound in the guard of free. *)
LEMMA HeightBound ==
  ASSUME NEW t, Rooted(t, MaxHeight + 1), BlackHeights[t] \subseteq 0 .. MaxHeight
  PROVE  Rooted(t, MaxHeight)
<1>1. CASE t = Nil
  BY <1>1 DEF Rooted
<1>2. CASE t # Nil
  <2>1. PICK c \in BOOLEAN, n \in 0 .. (MaxHeight + 1) : Proper(t, c, n)
    BY <1>2 DEF Rooted
  <2>2. t \in Tree /\ n \in Nat
    BY <2>1, RootedInTree, MaxHeightAssumption
  <2>3. n + (IF c THEN 0 ELSE 1) \in 0 .. MaxHeight
    BY <2>1, <2>2, ProperHeights
  <2>4. n \in 0 .. MaxHeight
    BY <2>2, <2>3, MaxHeightAssumption
  <2> QED
    BY <2>1, <2>4 DEF Rooted
<1> QED
  BY <1>1, <1>2

-----------------------------------------------------------------------------
(* A balanced tree as the properties say it. *)
LEMMA NodesAreProper ==
  ASSUME NEW t \in AnyTree, Height[t] >= 0, NEW x \in NodesOf[t]
  PROVE  ~IsRed(x.right) /\ ~(IsRed(x) /\ IsRed(x.left))
<1> DEFINE P == {u \in AnyTree : Height[u] >= 0 =>
                   \A y \in NodesOf[u] : ~IsRed(y.right) /\ ~(IsRed(y) /\ IsRed(y.left))}
<1>1. Nil \in P
  BY NodesOfIs, NilIs
<1>2. ASSUME NEW u \in AnyNode, u.left \in P, u.right \in P
      PROVE  u \in P
  <2>1. u # Nil /\ u \in AnyTree /\ u.left \in AnyTree /\ u.right \in AnyTree
    BY NodeOrNot, NodeParts DEF IsNode
  <2> SUFFICES ASSUME Height[u] >= 0, NEW y \in NodesOf[u]
               PROVE  ~IsRed(y.right) /\ ~(IsRed(y) /\ IsRed(y.left))
    BY <2>1
  <2>2. Height[u] = HeightAbove(u, Height[u.left], Height[u.right])
    BY <2>1, NodeIs
  <2>3. /\ Height[u.left] = Height[u.right] /\ Height[u.left] >= 0
        /\ ~IsRed(u.right) /\ ~(u.red /\ IsRed(u.left))
    BY <2>2 DEF HeightAbove
  <2>4. NodesOf[u] = {u} \cup NodesOf[u.left] \cup NodesOf[u.right]
    BY <2>1, NodesOfIs
  <2>5. CASE y = u
    BY <2>3, <2>5 DEF IsRed
  <2>6. CASE y # u
    BY <1>2, <2>3, <2>4, <2>6
  <2> QED
    BY <2>5, <2>6
<1>3. AnyTree \subseteq P
  <2> HIDE DEF P
  <2> QED
    BY <1>1, <1>2, TreeInduction
<1> QED
  BY <1>3

(* What Balanced says of the root. *)
LEMMA RootedBalance ==
  ASSUME NEW t, Rooted(t, MaxHeight)
  PROVE  /\ \E k \in Nat : BlackHeights[t] = {k}
         /\ \A x \in Subtrees[t] : ~IsRed(x.right) /\ (IsRed(x) /\ IsRed(x.left) => x = t)
<1>0. t \in Tree
  BY RootedInTree, RootedGrows, MaxHeightAssumption
<1>1. CASE t = Nil
  BY <1>0, <1>1, BlackHeightsUnfolded, SubtreesUnfolded
<1>2. CASE t # Nil
  <2>1. PICK c \in BOOLEAN, n \in 0 .. MaxHeight : Proper(t, c, n)
    BY <1>2 DEF Rooted
  <2>2. n \in Nat /\ n + (IF c THEN 0 ELSE 1) \in Nat
    BY MaxHeightAssumption
  <2>3. BlackHeights[t] = {n + (IF c THEN 0 ELSE 1)}
    BY <1>0, <2>1, <2>2, ProperHeights
  <2>4. /\ t \in AnyTree /\ t.left \in AnyTree /\ t.right \in AnyTree
        /\ Height[t.left] = n /\ Height[t.right] = n /\ ~IsRed(t.right)
    BY <2>1, NodeParts DEF Proper, TwoNode, ThreeNode, IsNode, Black, Red
  <2>5. Subtrees[t] = {t} \cup NodesOf[t.left] \cup NodesOf[t.right]
    BY <1>0, <1>2, <2>4, SameReference, NodesOfIs
  <2>6. \A x \in NodesOf[t.left] \cup NodesOf[t.right] : ~IsRed(x.right) /\ ~(IsRed(x) /\ IsRed(x.left))
    BY <2>2, <2>4, NodesAreProper
  <2> QED
    BY <2>2, <2>3, <2>4, <2>5, <2>6
<1> QED
  BY <1>1, <1>2
=============================================================================
