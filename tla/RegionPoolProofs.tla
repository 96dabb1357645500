-------------------------- MODULE RegionPoolProofs --------------------------
(***************************************************************************)
(* Proofs about RegionPool, for every set of areas that do not touch,      *)
(* every set of requests and every number of blocks in use.                *)
(***************************************************************************)
EXTENDS RegionPool, TLAPS

-----------------------------------------------------------------------------
(* Arithmetic of the allocator.                                            *)

(* Quotient and remainder, the facts that masks with align - 1 stand for.  *)
LEMMA DivMod ==
  ASSUME NEW n \in Nat, NEW d \in Nat \ {0}
  PROVE  /\ n \div d \in Nat
         /\ n % d \in 0 .. (d - 1)
         /\ n = (n \div d) * d + (n % d)
  OBVIOUS

(* A multiple of d leaves no remainder. *)
LEMMA MultipleMod ==
  ASSUME NEW k \in Nat, NEW d \in Nat \ {0}
  PROVE  (k * d) % d = 0
  OBVIOUS

(* (base + align - 1) & !(align - 1) is a multiple of align, not below     *)
(* base: the subtraction aligned - n.base in alloc_rec does not underflow. *)
LEMMA AlignUpBounds ==
  ASSUME NEW base \in Nat, NEW align \in Nat \ {0}
  PROVE  /\ AlignUp(base, align) \in Nat
         /\ AlignUp(base, align) >= base
         /\ AlignUp(base, align) % align = 0
<1> DEFINE n == base + align - 1
           k == n \div align
<1>1. n \in Nat
  OBVIOUS
<1>2. k \in Nat /\ n % align \in 0 .. (align - 1) /\ n = k * align + (n % align)
  BY <1>1, DivMod
<1>3. AlignUp(base, align) = k * align
  BY DEF AlignUp
<1>4. k * align \in Nat
  BY <1>2
<1>5. k * align >= base
  BY <1>2, <1>4
<1>6. (k * align) % align = 0
  BY <1>2, MultipleMod
<1> QED
  BY <1>3, <1>4, <1>5, <1>6

(* The test (aligned & !(w - 1)) == ((aligned + size - 1) & !(w - 1))      *)
(* admits exactly a block that no multiple of w cuts.                      *)
LEMMA SameWindowFits ==
  ASSUME NEW base \in Nat, NEW size \in Nat \ {0}, NEW w \in Nat \ {0},
         SameWindow(base, base + size - 1, w)
  PROVE  (base % w) + size <= w
<1> DEFINE last == base + size - 1
           k == base \div w
<1>1. last \in Nat
  OBVIOUS
<1>2. base % w \in 0 .. (w - 1) /\ base = k * w + (base % w) /\ k \in Nat
  BY DivMod
<1>3. last % w \in 0 .. (w - 1) /\ last = (last \div w) * w + (last % w)
  BY <1>1, DivMod
<1>4. last \div w = k
  BY DEF SameWindow
<1>5. last = k * w + (last % w)
  BY <1>3, <1>4
<1>6. k * w \in Nat
  BY <1>2
<1> HIDE DEF k
<1> QED
  BY <1>2, <1>3, <1>5, <1>6

-----------------------------------------------------------------------------
(* Regions.                                                                *)

(* The fields of a region are numbers, and so is its end. *)
LEMMA RegionFields ==
  ASSUME NEW r \in Region
  PROVE  r.base \in Nat /\ r.size \in Nat /\ End(r) = r.base + r.size /\ End(r) \in Nat
  BY DEF Region, End

(* A region built from two numbers, and what its fields are. *)
LEMMA RegionMade ==
  ASSUME NEW base \in Nat, NEW size \in Nat
  PROVE  LET r == [base |-> base, size |-> size] IN
         r \in Region /\ r.base = base /\ r.size = size /\ End(r) = base + size
  BY DEF Region, End

(* A set of areas between any two of which there is memory that is in none. *)
Separate(A) == \A a, c \in A : a = c \/ Before(a, c) \/ Before(c, a)

(* Two regions that meet lie in the same area. *)
LEMMA SameArea ==
  ASSUME NEW A \in SUBSET Region, Separate(A),
         NEW r \in Region, NEW s \in Region, NEW a \in A, NEW c \in A,
         Inside(r, a), Inside(s, c), End(r) = s.base
  PROVE  a = c
<1>1. a \in Region /\ c \in Region
  OBVIOUS
<1>2. a = c \/ Before(a, c) \/ Before(c, a)
  BY DEF Separate
<1> QED
  BY <1>1, <1>2, RegionFields DEF Inside, Before

(* x lies within r, or within r and s together, which meet. *)
Within(x, r, s) ==
  r.base <= x.base /\ End(x) <= End(s) /\ (r = s \/ End(r) = s.base)

(* What lies within regions of some areas lies in one of these areas.      *)
LEMMA WithinArea ==
  ASSUME NEW A \in SUBSET Region, Separate(A),
         NEW x \in Region, NEW r \in Region, NEW s \in Region, Within(x, r, s),
         \E a \in A : Inside(r, a), \E a \in A : Inside(s, a)
  PROVE  \E a \in A : Inside(x, a)
<1>1. PICK a \in A : Inside(r, a)
  OBVIOUS
<1>2. PICK c \in A : Inside(s, c)
  OBVIOUS
<1>3. CASE r = s
  BY <1>1, <1>3, RegionFields DEF Within, Inside
<1>4. CASE End(r) = s.base
  <2>1. a = c
    BY <1>1, <1>2, <1>4, SameArea
  <2> QED
    BY <1>1, <1>2, <2>1, RegionFields DEF Within, Inside
<1> QED
  BY <1>3, <1>4 DEF Within

(* A region that is not empty and clear of two regions that meet is clear  *)
(* of what lies within them.                                               *)
LEMMA WithinClear ==
  ASSUME NEW x \in Region, NEW r \in Region, NEW s \in Region, Within(x, r, s),
         NEW u \in Region, u.size > 0, Disjoint(r, u), Disjoint(s, u)
  PROVE  Disjoint(x, u)
  BY RegionFields DEF Within, Disjoint

-----------------------------------------------------------------------------
(* Cutting a block from a region.                                          *)

(* The block and the rest of a region that fits divide the region without  *)
(* the bytes skipped below the block, and the rest begins above the old    *)
(* base: sizes stay natural numbers and a key of the tree only grows.      *)
LEMMA CutAndRest ==
  ASSUME NEW r \in Region, NEW q \in Request, Fits(r, q)
  PROVE  /\ Cut(r, q) \in [base : Nat, size : Nat \ {0}]
         /\ Rest(r, q) \in Region
         /\ r.base <= Cut(r, q).base
         /\ End(Cut(r, q)) = Rest(r, q).base
         /\ End(Rest(r, q)) = End(r)
         /\ r.base < Rest(r, q).base
<1> DEFINE aligned == AlignUp(r.base, q.align)
<1>1. r.base \in Nat /\ r.size \in Nat /\ End(r) = r.base + r.size
  BY RegionFields
<1>2. q.size \in Nat \ {0} /\ q.align \in Nat \ {0}
  BY DEF Request
<1>3. aligned \in Nat /\ aligned >= r.base
  BY <1>1, <1>2, AlignUpBounds
<1>4. r.size >= aligned - r.base + q.size
  BY DEF Fits
<1>5. /\ Cut(r, q) = [base |-> aligned, size |-> q.size]
      /\ Cut(r, q).base = aligned
      /\ Cut(r, q) \in [base : Nat, size : Nat \ {0}]
      /\ End(Cut(r, q)) = aligned + q.size
  BY <1>2, <1>3 DEF Cut, End
<1> HIDE DEF aligned
<1>6. /\ aligned + q.size \in Nat
      /\ End(r) - (aligned + q.size) \in Nat
  BY <1>1, <1>2, <1>3, <1>4
<1>7. Rest(r, q) = [base |-> aligned + q.size, size |-> End(r) - (aligned + q.size)]
  BY <1>5 DEF Rest
<1>8. /\ Rest(r, q) \in Region
      /\ Rest(r, q).base = aligned + q.size
      /\ End(Rest(r, q)) = (aligned + q.size) + (End(r) - (aligned + q.size))
  BY <1>6, <1>7, RegionMade
<1>9. End(Rest(r, q)) = End(r)
  BY <1>1, <1>6, <1>8
<1>10. r.base < aligned + q.size
  BY <1>1, <1>2, <1>3
<1> QED
  BY <1>3, <1>5, <1>8, <1>9, <1>10

(* The block that is cut meets its request, as the abstract heap states it. *)
LEMMA CutMeets ==
  ASSUME NEW r \in Region, NEW q \in Request, Fits(r, q)
  PROVE  Heap!Meets(Cut(r, q), q)
<1> DEFINE aligned == AlignUp(r.base, q.align)
<1>1. r.base \in Nat /\ q.size \in Nat \ {0} /\ q.align \in Nat \ {0}
      /\ q.boundary \subseteq Nat \ {0}
  BY RegionFields DEF Request
<1>2. aligned \in Nat /\ aligned % q.align = 0
  BY <1>1, AlignUpBounds
<1>3. /\ Cut(r, q).base = aligned
      /\ Cut(r, q).size = q.size
      /\ End(Cut(r, q)) = aligned + q.size
  BY DEF Cut, End
<1>4. \A m \in q.max_address : ToPhysicalAddr(End(Cut(r, q))) <= m
  <2>1. TAKE m \in q.max_address
  <2>2. ToPhysicalAddr(aligned) + q.size <= m
    BY DEF Fits
  <2>3. aligned - Hhdm + q.size = (aligned + q.size) - Hhdm
    BY <1>1, <1>2, HhdmAssumption
  <2> QED
    BY <1>3, <2>2, <2>3 DEF ToPhysicalAddr
<1>5. \A w \in q.boundary : (aligned % w) + q.size <= w
  <2>1. TAKE w \in q.boundary
  <2>2. SameWindow(aligned, aligned + q.size - 1, w)
    BY DEF Fits
  <2> QED
    BY <1>1, <1>2, <2>2, SameWindowFits
<1> QED
  BY <1>2, <1>3, <1>4, <1>5 DEF Heap!Meets, Heap!End, Heap!ToPhysicalAddr, End, ToPhysicalAddr

-----------------------------------------------------------------------------
(* alloc.                                                                  *)

(* Every region and every block lies within what was free or in use.       *)
AllWithin ==
  \A x \in free' \cup live' :
    \E r, s \in free \cup live : r \in Region /\ s \in Region /\ Within(x, r, s)

(* alloc replaces a region by its rest, which is no other region of the    *)
(* tree, and what it hands out and what it keeps lie in that region.       *)
LEMMA AllocOutcome ==
  ASSUME Apart, NEW q \in Request, Alloc(q)
  PROVE  /\ Apart'
         /\ AllWithin
         /\ \E r \in free : \E t : t \notin free \ {r} /\ free' = (free \ {r}) \cup {t}
<1> USE DEF Apart
<1>1. PICK r \in free :
        /\ Fits(r, q)
        /\ free' = (free \ {r}) \cup {Rest(r, q)}
        /\ live' = live \cup {Cut(r, q)}
  BY DEF Alloc
<1> DEFINE c == Cut(r, q)
           t == Rest(r, q)
<1>2. r \in Region
  BY DEF TypeOK
<1>3. /\ c \in [base : Nat, size : Nat \ {0}]
      /\ t \in Region
      /\ r.base <= c.base
      /\ End(c) = t.base
      /\ End(t) = End(r)
      /\ r.base < t.base
  BY <1>1, <1>2, CutAndRest
<1>4. c \in Region
  BY <1>3 DEF Region
<1> HIDE DEF c, t
<1>5. free' = (free \ {r}) \cup {t} /\ live' = live \cup {c}
  BY <1>1 DEF c, t
<1>6. \A s \in free \cup live : s \in Region
  BY DEF TypeOK, Region
<1>7. TypeOK'
  BY <1>3, <1>5 DEF TypeOK
<1>8. \A s \in free \ {r} : Before(s, t) \/ Before(t, s)
  BY <1>2, <1>3, <1>6, RegionFields DEF FreeApart, Before
<1>9. FreeApart'
  BY <1>5, <1>8 DEF FreeApart
<1>10. FreeClearOfLive'
  <2>1. \A s \in free \ {r} : Disjoint(s, c)
    BY <1>2, <1>3, <1>4, <1>6, RegionFields DEF FreeApart, Before, Disjoint
  <2>2. \A b \in live : Disjoint(t, b)
    BY <1>2, <1>3, <1>6, RegionFields DEF FreeClearOfLive, Disjoint
  <2>3. Disjoint(t, c)
    BY <1>3, <1>4, RegionFields DEF Disjoint
  <2> QED
    BY <1>5, <2>1, <2>2, <2>3 DEF FreeClearOfLive
<1>11. LiveDisjoint'
  <2>1. \A b \in live : Disjoint(b, c) /\ Disjoint(c, b)
    BY <1>2, <1>3, <1>4, <1>6, RegionFields DEF FreeClearOfLive, Disjoint
  <2> QED
    BY <1>5, <2>1 DEF LiveDisjoint
<1>12. AllWithin
  <2>1. Within(c, r, r) /\ Within(t, r, r)
    BY <1>2, <1>3, <1>4, RegionFields DEF Within
  <2>2. \A s \in Region : Within(s, s, s)
    BY RegionFields DEF Within
  <2>3. ASSUME NEW x \in free' \cup live'
        PROVE  \E p, s \in free \cup live : p \in Region /\ s \in Region /\ Within(x, p, s)
    <3>1. x = t \/ x = c \/ x \in free \cup live
      BY <1>5
    <3> QED
      BY <1>2, <1>6, <2>1, <2>2, <3>1
  <2> QED
    BY <2>3 DEF AllWithin
<1>13. t \notin free \ {r}
  BY <1>3, <1>8, RegionFields DEF Before
<1> QED
  BY <1>5, <1>7, <1>9, <1>10, <1>11, <1>12, <1>13

-----------------------------------------------------------------------------
(* free.                                                                   *)

Touching(b) == {p \in Predecessor(b.base) : End(p) >= b.base}
Reached(m, b) == {s \in Successor(b.base) : End(m) >= s.base}

(* A block in use touches at most one region from below, and that region   *)
(* ends where the block begins.                                            *)
LEMMA TouchingBelow ==
  ASSUME Apart, NEW b \in live, NEW p \in free, p.base < b.base, End(p) >= b.base
  PROVE  Touching(b) = {p} /\ End(p) = b.base /\ p.size > 0
<1> USE DEF Apart
<1>1. b \in Region /\ b.size > 0 /\ \A r \in free : r \in Region
  BY DEF TypeOK, Region
<1>2. End(p) = b.base
  BY <1>1, RegionFields DEF FreeClearOfLive, Disjoint
<1>3. \A r \in free : r.base < b.base => r.base <= p.base
  BY <1>1, <1>2, RegionFields DEF FreeApart, Before
<1>4. p \in Touching(b)
  BY <1>3 DEF Touching, Predecessor
<1>5. \A r \in Touching(b) : r = p
  BY <1>1, <1>3, RegionFields DEF Touching, Predecessor, FreeApart, Before
<1>6. p.size > 0
  BY <1>1, <1>2, RegionFields
<1> QED
  BY <1>2, <1>4, <1>5, <1>6

(* A region at or above a block in use, and not above its end, either      *)
(* begins where the block ends or is an empty region at its base.          *)
LEMMA TouchingAbove ==
  ASSUME Apart, NEW b \in live, NEW s \in free, s.base >= b.base, End(b) >= s.base
  PROVE  s.base = End(b) \/ (s.base = b.base /\ s.size = 0)
<1>1. b \in Region /\ b.size > 0 /\ s \in Region
  BY DEF Apart, TypeOK, Region
<1> QED
  BY <1>1, RegionFields DEF Apart, FreeClearOfLive, Disjoint

(* The successor is one region at most. *)
LEMMA OneSuccessor ==
  ASSUME Apart, NEW addr \in Nat, NEW s \in Successor(addr), NEW t \in Successor(addr)
  PROVE  s = t
<1>1. s \in free /\ t \in free /\ s.base <= t.base /\ t.base <= s.base
  BY DEF Successor
<1>2. s \in Region /\ t \in Region
  BY <1>1 DEF Apart, TypeOK
<1> QED
  BY <1>1, <1>2, RegionFields DEF Apart, FreeApart, Before

(***************************************************************************)
(* The four things free can do.  The first is the coalescing with the      *)
(* predecessor, whose result never reaches the successor: it is at most as *)
(* long as the longer of the two regions merged.  The second is the block  *)
(* that is dropped because its successor is an empty region at its base.   *)
(***************************************************************************)
MergesBelow(b) ==
  \E p \in free :
    /\ End(p) = b.base /\ p.size > 0
    /\ free' = (free \ {p}) \cup {[base |-> p.base, size |-> Max2(b.size, p.size)]}

DropsBlock(b) ==
  \E s \in free : s.base = b.base /\ s.size = 0 /\ free' = free \ {s}

MergesAbove(b) ==
  \E s \in free :
    /\ s.base = End(b)
    /\ \A r \in free : r.base < b.base => End(r) < b.base
    /\ \A r \in free : r.base >= b.base => s.base <= r.base
    /\ free' = (free \ {s}) \cup {[base |-> b.base, size |-> End(s) - b.base]}

InsertsBlock(b) ==
  /\ \A r \in free : r.base < b.base => End(r) < b.base
  /\ \A r \in free : r.base >= b.base => End(b) < r.base
  /\ free' = free \cup {b}

(* What free computes from the block once the predecessor is dealt with. *)
Settles(b, m, gone) ==
  LET reached == Reached(m, b)
      merged  == IF reached = {} THEN {m} ELSE {MergeSuccessor(m, s) : s \in reached}
  IN free' = (free \ (gone \cup reached)) \cup {r \in merged : r.size > 0}

(* free by the number of regions the block touches from below.             *)
LEMMA FreeUnfolded ==
  ASSUME NEW b \in live, Free(b)
  PROVE  /\ live' = live \ {b}
         /\ Touching(b) = {} => Settles(b, b, {})
         /\ \A p : Touching(b) = {p} => Settles(b, MergePredecessor(p, b), {p})
  BY DEF Free, Settles, Touching, Reached

(* A block that touches a region from below is merged with it.             *)
LEMMA FreeBelow ==
  ASSUME Apart, NEW b \in live, Free(b),
         NEW p \in free, p.base < b.base, End(p) >= b.base
  PROVE  MergesBelow(b)
<1> DEFINE m == MergePredecessor(p, b)
<1>1. /\ b \in Region /\ b.size > 0 /\ p \in Region
      /\ \A r \in free : r \in Region
  BY DEF Apart, TypeOK, Region
<1>2. Touching(b) = {p} /\ End(p) = b.base /\ p.size > 0
  BY TouchingBelow
<1>3. /\ b.base \in Nat /\ b.size \in Nat /\ End(b) = b.base + b.size
      /\ p.base \in Nat /\ p.size \in Nat /\ End(p) = p.base + p.size
  BY <1>1, RegionFields
<1>4. Max2(p.base + b.size, End(p)) - p.base = Max2(b.size, p.size)
  BY <1>3 DEF Max2
<1>5. m = [base |-> p.base, size |-> Max2(b.size, p.size)]
  BY <1>4 DEF MergePredecessor
<1>6. Max2(b.size, p.size) \in Nat /\ Max2(b.size, p.size) > 0
  BY <1>1, <1>3 DEF Max2
<1>7. m \in Region /\ m.size > 0 /\ End(m) = p.base + Max2(b.size, p.size)
  BY <1>3, <1>5, <1>6, RegionMade
<1>8. End(m) < End(b)
  BY <1>1, <1>2, <1>3, <1>7 DEF Max2
<1>9. Settles(b, m, {p})
  BY <1>2, FreeUnfolded
<1> HIDE DEF m
<1>10. Reached(m, b) = {}
  <2> SUFFICES ASSUME NEW s \in Reached(m, b) PROVE FALSE
    OBVIOUS
  <2>1. s \in free /\ s.base >= b.base /\ End(m) >= s.base
    BY DEF Reached, Successor
  <2>2. s \in Region
    BY <1>1, <2>1
  <2>3. End(b) > s.base
    BY <1>1, <1>7, <1>8, <2>1, <2>2, RegionFields
  <2>4. s.base = b.base
    BY <1>1, <2>1, <2>2, <2>3, RegionFields, TouchingAbove
  <2>5. Before(p, s) \/ Before(s, p)
    BY <1>3, <2>1, <2>4 DEF Apart, FreeApart
  <2> QED
    BY <1>1, <1>2, <1>3, <2>2, <2>4, <2>5, RegionFields DEF Before
<1>11. free' = (free \ {p}) \cup {m}
  BY <1>7, <1>9, <1>10 DEF Settles
<1> QED
  BY <1>2, <1>5, <1>11 DEF MergesBelow

(* A block that touches none is dropped, merged with its successor or      *)
(* inserted.                                                               *)
LEMMA FreeAbove ==
  ASSUME Apart, NEW b \in live, Free(b), Touching(b) = {}
  PROVE  DropsBlock(b) \/ MergesAbove(b) \/ InsertsBlock(b)
<1>1. /\ b \in Region /\ b.size > 0
      /\ \A r \in free : r \in Region
  BY DEF Apart, TypeOK, Region
<1>2. b.base \in Nat /\ b.size \in Nat /\ End(b) = b.base + b.size
  BY <1>1, RegionFields
<1>3. Settles(b, b, {})
  BY FreeUnfolded
<1>4. \A r \in free : r.base < b.base => End(r) < b.base
  <2> SUFFICES ASSUME NEW r \in free, r.base < b.base, End(r) >= b.base PROVE FALSE
    BY <1>1, <1>2, RegionFields
  <2>1. Touching(b) = {r}
    BY TouchingBelow
  <2> QED
    BY <2>1
<1>5. CASE Reached(b, b) = {}
  <2>1. free' = free \cup {b}
    BY <1>1, <1>3, <1>5 DEF Settles
  <2>2. \A r \in free : r.base >= b.base => End(b) < r.base
    <3> SUFFICES ASSUME NEW r \in free, r.base >= b.base, End(b) >= r.base PROVE FALSE
      BY <1>1, <1>2, RegionFields
    <3>1. PICK t \in free : t.base >= b.base /\ t.base < r.base
      BY <1>1, <1>5, RegionFields DEF Reached, Successor
    <3>2. t \in Region /\ r \in Region
      BY <1>1
    <3>3. t.base = b.base /\ t.size = 0
      BY <1>2, <3>1, <3>2, RegionFields, TouchingAbove
    <3>4. t \in Successor(b.base)
      BY <1>1, <3>3, RegionFields DEF Successor
    <3>5. t \in Reached(b, b)
      BY <1>1, <1>2, <3>3, <3>4 DEF Reached
    <3> QED
      BY <1>5, <3>5
  <2> QED
    BY <1>4, <2>1, <2>2 DEF InsertsBlock
<1>6. CASE Reached(b, b) # {}
  <2>1. PICK s : s \in Reached(b, b)
    BY <1>6
  <2>2. /\ s \in free /\ s.base >= b.base /\ End(b) >= s.base
        /\ \A r \in free : r.base >= b.base => s.base <= r.base
    BY <2>1 DEF Reached, Successor
  <2>3. s.base \in Nat /\ s.size \in Nat /\ End(s) = s.base + s.size
    BY <1>1, <2>2, RegionFields
  <2>4. Reached(b, b) = {s}
    BY <1>2, <2>1, OneSuccessor DEF Reached
  <2>5. {MergeSuccessor(b, t) : t \in {s}} = {MergeSuccessor(b, s)}
    OBVIOUS
  <2>6. free' = (free \ {s}) \cup {r \in {MergeSuccessor(b, s)} : r.size > 0}
    BY <1>3, <2>4, <2>5 DEF Settles
  <2>7. MergeSuccessor(b, s).size = End(s) - b.base
    BY DEF MergeSuccessor
  <2>8. s.base = End(b) \/ (s.base = b.base /\ s.size = 0)
    BY <2>2, TouchingAbove
  <2>9. CASE s.base = b.base /\ s.size = 0
    <3>1. MergeSuccessor(b, s).size = 0
      BY <1>2, <2>3, <2>7, <2>9
    <3>2. free' = free \ {s}
      BY <2>6, <3>1
    <3> QED
      BY <2>2, <2>9, <3>2 DEF DropsBlock
  <2>10. CASE s.base = End(b)
    <3>1. MergeSuccessor(b, s).size > 0
      BY <1>1, <1>2, <2>3, <2>7, <2>10
    <3>2. free' = (free \ {s}) \cup {[base |-> b.base, size |-> End(s) - b.base]}
      BY <2>6, <3>1 DEF MergeSuccessor
    <3> QED
      BY <1>4, <2>2, <2>10, <3>2 DEF MergesAbove
  <2> QED
    BY <2>8, <2>9, <2>10
<1> QED
  BY <1>5, <1>6

(* Every call of free is one of the four. *)
LEMMA FreeOutcomes ==
  ASSUME Apart, NEW b \in live, Free(b)
  PROVE  /\ live' = live \ {b}
         /\ MergesBelow(b) \/ DropsBlock(b) \/ MergesAbove(b) \/ InsertsBlock(b)
<1>1. live' = live \ {b}
  BY FreeUnfolded
<1>2. CASE Touching(b) = {}
  BY <1>1, <1>2, FreeAbove
<1>3. CASE Touching(b) # {}
  <2>1. PICK p : p \in Touching(b)
    BY <1>3
  <2>2. p \in free /\ p.base < b.base /\ End(p) >= b.base
    BY <2>1 DEF Touching, Predecessor
  <2> QED
    BY <1>1, <2>2, FreeBelow
<1> QED
  BY <1>2, <1>3

(***************************************************************************)
(* What a call of free comes to: some regions are replaced by one that is  *)
(* clear of all the others and lies within the block and what it touches.  *)
(***************************************************************************)
Replaces(b, gone, m) ==
  /\ gone \subseteq free /\ m \in Region
  /\ free' = (free \ gone) \cup {m}
  /\ \A r \in free \ gone : Before(r, m) \/ Before(m, r)
  /\ \A c \in live \ {b} : Disjoint(m, c)
  /\ \E r, s \in free \cup live : r \in Region /\ s \in Region /\ Within(m, r, s)

(* A call that replaces regions in this way keeps everything apart.        *)
LEMMA ReplacePreserves ==
  ASSUME Apart, NEW b \in live, live' = live \ {b}, NEW gone, NEW m, Replaces(b, gone, m)
  PROVE  Apart' /\ AllWithin
<1> USE DEF Apart, Replaces
<1>1. TypeOK'
  BY DEF TypeOK
<1>2. FreeApart'
  BY DEF FreeApart
<1>3. FreeClearOfLive'
  BY DEF FreeClearOfLive
<1>4. LiveDisjoint'
  BY DEF LiveDisjoint
<1>5. AllWithin
  <2>1. \A s \in free \cup live : s \in Region
    BY DEF TypeOK, Region
  <2>2. \A s \in Region : Within(s, s, s)
    BY RegionFields DEF Within
  <2>3. ASSUME NEW x \in free' \cup live'
        PROVE  \E p, s \in free \cup live : p \in Region /\ s \in Region /\ Within(x, p, s)
    <3>1. x = m \/ x \in free \cup live
      OBVIOUS
    <3> QED
      BY <2>1, <2>2, <3>1
  <2> QED
    BY <2>3 DEF AllWithin
<1> QED
  BY <1>1, <1>2, <1>3, <1>4, <1>5

(* Every call of free leaves the tree without the block or replaces some   *)
(* regions by one.                                                         *)
LEMMA FreeReplaces ==
  ASSUME Apart, NEW b \in live, Free(b)
  PROVE  \/ free' \subseteq free
         \/ \E gone, m : Replaces(b, gone, m)
<1>1. /\ b \in Region /\ b.size > 0
      /\ \A r \in free : r \in Region
      /\ \A c \in live : c \in Region /\ c.size > 0
  BY DEF Apart, TypeOK, Region
<1>2. b.base \in Nat /\ b.size \in Nat /\ End(b) = b.base + b.size
  BY <1>1, RegionFields
<1>5. CASE MergesBelow(b)
  <2>1. PICK p \in free :
          /\ End(p) = b.base /\ p.size > 0
          /\ free' = (free \ {p}) \cup {[base |-> p.base, size |-> Max2(b.size, p.size)]}
    BY <1>5 DEF MergesBelow
  <2> DEFINE m == [base |-> p.base, size |-> Max2(b.size, p.size)]
  <2>2. p \in Region /\ p.base \in Nat /\ p.size \in Nat /\ End(p) = p.base + p.size
    BY <1>1, RegionFields
  <2>3. /\ m \in Region /\ m.base = p.base
        /\ End(m) < End(b) /\ End(p) <= End(m)
    <3>1. Max2(b.size, p.size) \in Nat
      BY <1>2, <2>2 DEF Max2
    <3>2. m \in Region /\ m.base = p.base /\ End(m) = p.base + Max2(b.size, p.size)
      BY <2>2, <3>1, RegionMade
    <3> QED
      BY <1>1, <1>2, <2>1, <2>2, <3>2 DEF Max2
  <2>4. free' = (free \ {p}) \cup {m}
    BY <2>1
  <2> HIDE DEF m
  <2>5. \A r \in free \ {p} : Before(r, m) \/ Before(m, r)
    <3>1. TAKE r \in free \ {p}
    <3>2. r \in Region /\ (Before(r, p) \/ Before(p, r)) /\ Disjoint(r, b)
      BY <1>1 DEF Apart, FreeApart, FreeClearOfLive
    <3> QED
      BY <1>1, <1>2, <2>1, <2>2, <2>3, <3>2, RegionFields DEF Before, Disjoint
  <2>6. \A c \in live \ {b} : Disjoint(m, c)
    <3>1. TAKE c \in live \ {b}
    <3>2. c \in Region /\ c.size > 0 /\ Disjoint(p, c) /\ Disjoint(b, c)
      BY <1>1 DEF Apart, FreeClearOfLive, LiveDisjoint
    <3> QED
      BY <1>1, <1>2, <2>1, <2>2, <2>3, <3>2, RegionFields DEF Disjoint
  <2>7. Within(m, p, b)
    BY <1>2, <2>1, <2>2, <2>3, RegionFields DEF Within
  <2>8. Replaces(b, {p}, m)
    BY <1>1, <2>2, <2>3, <2>4, <2>5, <2>6, <2>7 DEF Replaces
  <2> QED
    BY <2>8
<1>6. CASE DropsBlock(b)
  BY <1>6 DEF DropsBlock
<1>7. CASE MergesAbove(b)
  <2>1. PICK s \in free :
          /\ s.base = End(b)
          /\ \A r \in free : r.base < b.base => End(r) < b.base
          /\ \A r \in free : r.base >= b.base => s.base <= r.base
          /\ free' = (free \ {s}) \cup {[base |-> b.base, size |-> End(s) - b.base]}
    BY <1>7 DEF MergesAbove
  <2> DEFINE m == [base |-> b.base, size |-> End(s) - b.base]
  <2>2. s \in Region /\ s.base \in Nat /\ s.size \in Nat /\ End(s) = s.base + s.size
    BY <1>1, RegionFields
  <2>3. m \in Region /\ m.base = b.base /\ End(m) = End(s)
    <3>1. End(s) - b.base \in Nat
      BY <1>2, <2>1, <2>2
    <3>2. m \in Region /\ m.base = b.base /\ End(m) = b.base + (End(s) - b.base)
      BY <1>2, <3>1, RegionMade
    <3> QED
      BY <1>2, <2>2, <3>2
  <2>4. free' = (free \ {s}) \cup {m}
    BY <2>1
  <2> HIDE DEF m
  <2>5. \A r \in free \ {s} : Before(r, m) \/ Before(m, r)
    <3>1. TAKE r \in free \ {s}
    <3>2. r \in Region /\ (Before(r, s) \/ Before(s, r))
      BY <1>1 DEF Apart, FreeApart
    <3>3. r.base < b.base => End(r) < b.base
      BY <2>1
    <3>4. r.base >= b.base => s.base <= r.base
      BY <2>1
    <3> QED
      BY <1>2, <2>2, <2>3, <3>2, <3>3, <3>4, RegionFields DEF Before
  <2>6. \A c \in live \ {b} : Disjoint(m, c)
    <3>1. TAKE c \in live \ {b}
    <3>2. c \in Region /\ c.size > 0 /\ Disjoint(s, c) /\ Disjoint(b, c)
      BY <1>1 DEF Apart, FreeClearOfLive, LiveDisjoint
    <3> QED
      BY <1>2, <2>1, <2>2, <2>3, <3>2, RegionFields DEF Disjoint
  <2>7. Within(m, b, s)
    BY <1>2, <2>1, <2>2, <2>3, RegionFields DEF Within
  <2>8. Replaces(b, {s}, m)
    BY <1>1, <2>2, <2>3, <2>4, <2>5, <2>6, <2>7 DEF Replaces
  <2> QED
    BY <2>8
<1>8. CASE InsertsBlock(b)
  <2>1. free' = (free \ {}) \cup {b}
    BY <1>8 DEF InsertsBlock
  <2>2. \A r \in free \ {} : Before(r, b) \/ Before(b, r)
    BY <1>1, <1>2, <1>8, RegionFields DEF InsertsBlock, Before
  <2>3. \A c \in live \ {b} : Disjoint(b, c)
    BY DEF Apart, LiveDisjoint
  <2>4. Within(b, b, b)
    BY <1>1, RegionFields DEF Within
  <2>5. Replaces(b, {}, b)
    BY <1>1, <2>1, <2>2, <2>3, <2>4 DEF Replaces
  <2> QED
    BY <2>5
<1> QED
  BY <1>5, <1>6, <1>7, <1>8, FreeOutcomes

(* free keeps everything apart, adds no memory to the heap and at most one *)
(* region to the tree.                                                     *)
LEMMA FreeOutcome ==
  ASSUME Apart, NEW b \in live, Free(b)
  PROVE  /\ Apart'
         /\ AllWithin
         /\ \E m : free' \subseteq free \cup {m}
<1>1. live' = live \ {b}
  BY FreeOutcomes
<1>2. CASE free' \subseteq free
  <2>1. Apart'
    BY <1>1, <1>2 DEF Apart, TypeOK, FreeApart, FreeClearOfLive, LiveDisjoint
  <2>2. AllWithin
    <3>1. \A s \in free \cup live : s \in Region
      BY DEF Apart, TypeOK, Region
    <3>2. \A s \in Region : Within(s, s, s)
      BY RegionFields DEF Within
    <3> QED
      BY <1>1, <1>2, <3>1, <3>2 DEF AllWithin
  <2> QED
    BY <1>2, <2>1, <2>2
<1>3. ASSUME NEW gone, NEW m, Replaces(b, gone, m)
      PROVE  Apart' /\ AllWithin /\ free' \subseteq free \cup {m}
  BY <1>1, <1>3, ReplacePreserves DEF Replaces
<1> QED
  BY <1>2, <1>3, FreeReplaces

(* What the steps of the pool keep within a set of areas stays there.      *)
LEMMA StaysInside ==
  ASSUME Apart, Apart', AllWithin,
         NEW A \in SUBSET Region, Separate(A),
         \A r \in free \cup live : \E a \in A : Inside(r, a)
  PROVE  \A x \in free' \cup live' : \E a \in A : Inside(x, a)
<1> SUFFICES ASSUME NEW x \in free' \cup live' PROVE \E a \in A : Inside(x, a)
  OBVIOUS
<1>1. PICK r, s \in free \cup live : r \in Region /\ s \in Region /\ Within(x, r, s)
  BY DEF AllWithin
<1>2. x \in Region
  BY DEF Apart, TypeOK, Region
<1> QED
  BY <1>1, <1>2, WithinArea

(* Bytes that are neither free nor in use do not become either.            *)
LEMMA StaysClear ==
  ASSUME Apart, Apart', AllWithin,
         NEW u \in Region, u.size > 0,
         \A r \in free \cup live : Disjoint(r, u)
  PROVE  \A x \in free' \cup live' : Disjoint(x, u)
<1> SUFFICES ASSUME NEW x \in free' \cup live' PROVE Disjoint(x, u)
  OBVIOUS
<1>1. PICK r, s \in free \cup live : r \in Region /\ s \in Region /\ Within(x, r, s)
  BY DEF AllWithin
<1>2. x \in Region
  BY DEF Apart, TypeOK, Region
<1> QED
  BY <1>1, <1>2, WithinClear

(* alloc and free stay inside the areas of the memory map.                 *)
LEMMA AreasStay ==
  ASSUME IInv, Apart', AllWithin
  PROVE  IInv'
<1>1. Areas \in SUBSET Region /\ Separate(Areas)
  BY AreasAssumption DEF Separate
<1>2. Apart /\ \A r \in free \cup live : \E a \in Areas : Inside(r, a)
  BY DEF IInv, InAreas
<1>3. \A x \in free' \cup live' : \E a \in Areas : Inside(x, a)
  BY <1>1, <1>2, StaysInside
<1> QED
  BY <1>3 DEF IInv, InAreas

-----------------------------------------------------------------------------
(* The theorems.                                                           *)

(* The areas of the memory map, all free, satisfy the invariant.           *)
LEMMA InitHolds == Init => IInv
<1> SUFFICES ASSUME Init PROVE IInv
  OBVIOUS
<1>1. free \subseteq Areas /\ live = {}
  BY DEF Init
<1>2. \A r \in free : Inside(r, r)
  <2>1. TAKE r \in free
  <2>2. r \in Region
    BY <1>1, AreasAssumption
  <2> QED
    BY <2>2, RegionFields DEF Inside
<1> QED
  BY <1>1, <1>2, AreasAssumption
  DEF IInv, Apart, TypeOK, FreeApart, FreeClearOfLive, LiveDisjoint, InAreas

(* alloc and free preserve the invariant.                                  *)
LEMMA StepHolds == IInv /\ [Next]_vars => IInv'
<1> SUFFICES ASSUME IInv, [Next]_vars PROVE IInv'
  OBVIOUS
<1>1. ASSUME NEW q \in Requests, Alloc(q) PROVE IInv'
  <2>1. q \in Request /\ Apart
    BY RequestsAssumption DEF IInv
  <2> QED
    BY <1>1, <2>1, AllocOutcome, AreasStay
<1>2. ASSUME NEW b \in live, Free(b) PROVE IInv'
  <2>1. Apart
    BY DEF IInv, Apart
  <2> QED
    BY <1>2, <2>1, FreeOutcome, AreasStay
<1>3. CASE UNCHANGED vars
  BY <1>3 DEF IInv, Apart, TypeOK, FreeApart, FreeClearOfLive, LiveDisjoint, InAreas, vars
<1> QED
  BY <1>1, <1>2, <1>3 DEF Next

(* The inductive invariant holds whatever alloc and free are called with.  *)
THEOREM Invariance == Spec => []IInv
<1> QED
  BY InitHolds, StepHolds, PTL DEF Spec

(* Sizes and bases stay natural numbers: no subtraction of alloc_rec or    *)
(* free underflows, and no block in use is empty.                          *)
THEOREM TypeCorrectness == Spec => []TypeOK
<1>1. IInv => TypeOK
  BY DEF IInv, Apart
<1> QED
  BY <1>1, Invariance, PTL

(* The regions of the tree stay apart: every key names one node, so the    *)
(* two deletes of free remove the regions that it merged and no other.     *)
THEOREM RegionsStayApart == Spec => []FreeApart
<1>1. IInv => FreeApart
  BY DEF IInv, Apart
<1> QED
  BY <1>1, Invariance, PTL

(* No byte of a block in use is ever in the tree, in spite of the size     *)
(* that free computes for a block merged with its predecessor.             *)
THEOREM NoFreeByteInUse == Spec => []FreeClearOfLive
<1>1. IInv => FreeClearOfLive
  BY DEF IInv, Apart
<1> QED
  BY <1>1, Invariance, PTL

(* Every step of the pool is a step of the heap or changes no block.       *)
LEMMA StepRefines == IInv /\ [Next]_vars => [Heap!Next]_live
<1> SUFFICES ASSUME IInv, [Next]_vars PROVE [Heap!Next]_live
  OBVIOUS
<1>1. ASSUME NEW q \in Requests, Alloc(q) PROVE Heap!Next
  <2>1. PICK r \in free : Fits(r, q) /\ live' = live \cup {Cut(r, q)}
    BY <1>1 DEF Alloc
  <2> DEFINE c == Cut(r, q)
  <2>2. r \in Region /\ q \in Request
    BY RequestsAssumption DEF IInv, Apart, TypeOK
  <2>3. /\ c \in [base : Nat, size : Nat \ {0}] /\ c.size = q.size
        /\ r.base <= c.base /\ End(c) <= End(r)
    <3>1. c.size = q.size
      BY DEF Cut
    <3>2. /\ c \in [base : Nat, size : Nat \ {0}]
          /\ r.base <= c.base
          /\ End(c) = Rest(r, q).base
          /\ End(Rest(r, q)) = End(r)
          /\ Rest(r, q) \in Region
      BY <2>1, <2>2, CutAndRest
    <3>3. End(c) <= End(r)
      BY <3>2, RegionFields
    <3> QED
      BY <3>1, <3>2, <3>3
  <2>4. Heap!Meets(c, q)
    BY <2>1, <2>2, CutMeets
  <2> HIDE DEF c
  <2>5. c \in Region /\ c = [base |-> c.base, size |-> q.size]
    BY <2>3 DEF Region
  <2>6. \A b \in live : Heap!Disjoint(c, b)
    <3>1. TAKE b \in live
    <3>2. b \in Region /\ Disjoint(r, b)
      BY DEF IInv, Apart, TypeOK, FreeClearOfLive, Region
    <3>3. Disjoint(c, b)
      BY <2>2, <2>3, <2>5, <3>2, RegionFields DEF Disjoint
    <3> QED
      BY <3>3 DEF Heap!Disjoint, Heap!End, Disjoint, End
  <2>7. live' = live \cup {c}
    BY <2>1 DEF c
  <2>8. Heap!HandOut(c, q)
    BY <2>4, <2>6, <2>7 DEF Heap!HandOut
  <2>9. PICK a \in Areas : a \in Region /\ Inside(r, a)
    BY AreasAssumption DEF IInv, InAreas
  <2>10. c.base \in a.base .. (Heap!End(a) - q.size)
    <3>1. a.base <= c.base /\ End(c) <= End(a)
      BY <2>2, <2>3, <2>5, <2>9, RegionFields DEF Inside
    <3>2. End(c) = c.base + q.size /\ c.base \in Nat /\ q.size \in Nat
      BY <2>3, <2>5, RegionFields
    <3>3. a.base \in Nat /\ End(a) \in Nat /\ Heap!End(a) = End(a)
      BY <2>9, RegionFields DEF Heap!End, End
    <3> QED
      BY <3>1, <3>2, <3>3
  <2> QED
    BY <2>5, <2>8, <2>10 DEF Heap!Next
<1>2. ASSUME NEW b \in live, Free(b) PROVE Heap!Next
  <2>1. live' = live \ {b}
    BY <1>2, FreeUnfolded
  <2> QED
    BY <2>1 DEF Heap!Next, Heap!TakeBack
<1>3. CASE UNCHANGED vars
  BY <1>3 DEF vars
<1> QED
  BY <1>1, <1>2, <1>3 DEF Next

(* The allocator keeps the promise its callers rely on: every block handed *)
(* out is in the memory given to the heap, shares no byte with another     *)
(* block in use, is aligned, and respects max_address and boundary.        *)
THEOREM PoolImplementsHeap == Spec => HeapSpec
<1>1. Init => Heap!Init
  BY DEF Init, Heap!Init
<1> QED
  BY <1>1, StepRefines, Invariance, PTL DEF Spec, HeapSpec, Heap!Spec
=============================================================================
