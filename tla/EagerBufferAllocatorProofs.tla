--------------------- MODULE EagerBufferAllocatorProofs ---------------------
(***************************************************************************)
(* Proofs about EagerBufferAllocator, for every number of blocks, every    *)
(* alignment, minimum block, request size and number of groups.            *)
(*                                                                         *)
(* The facts about trees of nodes are stated for any set D of nodes and    *)
(* any function f that gives their records, and used for node before and   *)
(* after a step.  IInv is inductive by itself; SumInv, about sizes and     *)
(* totalSize(), is inductive given IInv.                                   *)
(***************************************************************************)
EXTENDS EagerBufferAllocator, FiniteSetTheorems, WellFoundedInduction, TLAPS

\* The sequences that name nodes.
Names == {n \in Seq(Block \union {0, 1}) : NodeType(n)}

\* m is n or was split off from n.
Below(n, m) == Len(n) <= Len(m) /\ \A i \in 1 .. Len(n) : n[i] = m[i]

IsLeaf(D, n) == Child(n, 0) \notin D /\ Child(n, 1) \notin D

\* A node lives with its ancestors and its sibling, and there is a longest one.
Forest(D) ==
    /\ D \subseteq Names
    /\ \A n \in D : Ancestors(n) \subseteq D
    /\ \A n \in D : Child(n, 0) \in D <=> Child(n, 1) \in D
    /\ \E k \in Nat : \A n \in D : Len(n) <= k

\* A part lies in what it was split from; nodes on different branches are apart.
Inside(f, n, m) == f[n].off <= f[m].off /\ f[m].off + f[m].size <= f[n].off + f[n].size
Apart(f, n, m) == \/ f[n].off + f[n].size <= f[m].off
                  \/ f[m].off + f[m].size <= f[n].off
Layout(f, a) ==
    /\ \A n \in DOMAIN f : /\ f[n] \in [off : Nat, size : Nat, useCount : Int]
                           /\ f[n].off % a = 0
    /\ \A n, m \in DOMAIN f : Below(n, m) => Inside(f, n, m)
    /\ \A n, m \in DOMAIN f : n[1] = m[1] /\ ~Below(n, m) /\ ~Below(m, n) => Apart(f, n, m)

\* What the lists hold (H) are leaves, and every node is held or has a part that is.
Alive(D, H) ==
    /\ \A h \in H : h \in D /\ IsLeaf(D, h)
    /\ \A n \in D : \E h \in H : Below(n, h)

\* The three kinds of lists share no node, and each holds a node once.
Exclusive(free, used, groups) ==
    /\ \A p \in DOMAIN used : /\ used[p].node \notin free
                              /\ \A g \in DOMAIN groups : used[p].node \notin groups[g]
    /\ \A p, q \in DOMAIN used : used[p].node = used[q].node => p = q
    /\ \A g \in DOMAIN groups : groups[g] \intersect free = {}
    /\ \A g, h \in DOMAIN groups : g # h => groups[g] \intersect groups[h] = {}

\* useCount of n by its two children; a split node has a child that is not free.
Counts(D, free, n, i) == IF Child(n, i) \in D /\ Child(n, i) \notin free THEN 1 ELSE 0
Counting(f, free) ==
    \A n \in DOMAIN f :
        /\ f[n].useCount = Counts(DOMAIN f, free, n, 0) + Counts(DOMAIN f, free, n, 1)
        /\ ~IsLeaf(DOMAIN f, n) => f[n].useCount > 0

\* All that concerns the nodes, the free list and the set of held nodes.
Core(f, a, free, H) ==
    /\ Forest(DOMAIN f) /\ Layout(f, a) /\ Alive(DOMAIN f, H) /\ Counting(f, free)
    /\ free \subseteq H

\* A pointer in use points into its node, with room for what was asked.
ChunkInv ==
    \A p \in DOMAIN mUsedList :
        LET u == mUsedList[p]
        IN  /\ u \in [node : Names, size : Nat \ {0}, align : Nat \ {0}, group : 0 .. Len(mGroups)]
            /\ p = <<u.node[1], p[2]>> /\ p[2] \in Nat
            /\ node[u.node].off <= p[2]
            /\ p[2] + u.size <= node[u.node].off + node[u.node].size
            /\ p[2] % u.align = 0

\* The caller's barrier and the groups.
PhaseInv ==
    /\ config \in Config
    /\ mGroups \in Seq(SUBSET Names) /\ mCurrentFreeList \in 0 .. Len(mGroups)
    /\ Len(mGroups) <= MaxGroups
    /\ groupBytes \in Seq(SUBSET (Block \X Nat)) /\ Len(groupBytes) = Len(mGroups)
    /\ barrier \in {"none", "open", "closing"}
    /\ barrier = "none" => mGroups = << >>
    /\ barrier # "open" => mCurrentFreeList = 0

\* While the barrier is open, what a group was handed lies in nodes that are in
\* use by the group or in its list.
Owns(g, n) == \/ n \in mGroups[g]
              \/ \E p \in DOMAIN mUsedList : mUsedList[p].node = n /\ mUsedList[p].group = g
GroupInv ==
    /\ GroupsDisjoint
    /\ barrier = "open" =>
           \A g \in DOMAIN groupBytes : \A x \in groupBytes[g] :
               \E n \in DOMAIN node : Owns(g, n) /\ x \in NodeBytes(n)

IInv ==
    /\ Core(node, mAlign, mFreeList, Held(mFreeList, mUsedList, mGroups))
    /\ Exclusive(mFreeList, mUsedList, mGroups)
    /\ ChunkInv /\ PhaseInv /\ GroupInv

-----------------------------------------------------------------------------
(* Names and branches.                                                     *)

\* A name is a sequence, told apart by its elements.
LEMMA NameFacts ==
    ASSUME NEW n \in Names
    PROVE  /\ n \in Seq(Block \union {0, 1}) /\ Len(n) \in Nat /\ Len(n) >= 1
           /\ n[1] \in Block /\ Head(n) = n[1]
           /\ \A i \in 2 .. Len(n) : n[i] \in {0, 1}
           /\ DOMAIN n = 1 .. Len(n)
BY DEF Names, NodeType

LEMMA NameEqual ==
    ASSUME NEW n \in Names, NEW m \in Names, Len(n) = Len(m),
           \A i \in 1 .. Len(n) : n[i] = m[i]
    PROVE  n = m
BY DEF Names

\* The root of block b.
LEMMA RootName ==
    ASSUME NEW b \in Block
    PROVE  <<b>> \in Names /\ Len(<<b>>) = 1 /\ <<b>>[1] = b
BY DEF Names, NodeType

LEMMA ChildName ==
    ASSUME NEW n \in Names, NEW i \in {0, 1}
    PROVE  /\ Child(n, i) \in Names /\ Len(Child(n, i)) = Len(n) + 1
           /\ \A j \in 1 .. Len(n) : Child(n, i)[j] = n[j]
           /\ Child(n, i)[Len(n) + 1] = i
<1>1. /\ n \in Seq(Block \union {0, 1}) /\ Len(n) \in Nat /\ Len(n) >= 1
      /\ n[1] \in Block /\ \A j \in 2 .. Len(n) : n[j] \in {0, 1}
  BY NameFacts
<1>2. /\ Append(n, i) \in Seq(Block \union {0, 1}) /\ Len(Append(n, i)) = Len(n) + 1
      /\ \A j \in 1 .. Len(n) : Append(n, i)[j] = n[j]
      /\ Append(n, i)[Len(n) + 1] = i
  BY <1>1
<1>3. NodeType(Append(n, i))
  BY <1>1, <1>2 DEF NodeType
<1> QED
  BY <1>2, <1>3 DEF Child, Names

\* Below is a partial order in which what is above a name is a chain.
LEMMA BelowOrder ==
    ASSUME NEW n \in Names, NEW m \in Names, NEW h \in Names
    PROVE  /\ Below(n, n)
           /\ Below(n, m) /\ Below(m, h) => Below(n, h)
           /\ Below(n, m) /\ Len(n) = Len(m) => n = m
           /\ Below(n, h) /\ Below(m, h) => Below(n, m) \/ Below(m, n)
           /\ Below(n, m) => Len(n) <= Len(m) /\ n[1] = m[1]
<1>1. Len(n) \in Nat /\ Len(m) \in Nat /\ Len(h) \in Nat /\ Len(n) >= 1
  BY NameFacts
<1>2. Below(n, n)
  BY <1>1 DEF Below
<1>3. Below(n, m) /\ Below(m, h) => Below(n, h)
  BY <1>1 DEF Below
<1>4. Below(n, m) /\ Len(n) = Len(m) => n = m
  BY <1>1, NameEqual DEF Below
<1>5. Below(n, h) /\ Below(m, h) => Below(n, m) \/ Below(m, n)
  BY <1>1 DEF Below
<1>6. Below(n, m) => Len(n) <= Len(m) /\ n[1] = m[1]
  BY <1>1 DEF Below
<1> QED
  BY <1>2, <1>3, <1>4, <1>5, <1>6

LEMMA BelowChild ==
    ASSUME NEW n \in Names, NEW m \in Names, NEW i \in {0, 1}
    PROVE  /\ Below(n, Child(n, i))
           /\ Below(Child(n, i), m) <=> Below(n, m) /\ Len(m) > Len(n) /\ m[Len(n) + 1] = i
           /\ Below(m, Child(n, i)) <=> Below(m, n) \/ m = Child(n, i)
<1>1. Len(n) \in Nat /\ Len(m) \in Nat /\ Len(n) >= 1
  BY NameFacts
<1>2. /\ Child(n, i) \in Names /\ Len(Child(n, i)) = Len(n) + 1
      /\ \A j \in 1 .. Len(n) : Child(n, i)[j] = n[j]
      /\ Child(n, i)[Len(n) + 1] = i
  BY ChildName
<1>3. Below(n, Child(n, i))
  BY <1>1, <1>2 DEF Below
<1>4. Below(Child(n, i), m) <=> Below(n, m) /\ Len(m) > Len(n) /\ m[Len(n) + 1] = i
  BY <1>1, <1>2 DEF Below
<1>5. ASSUME Below(m, Child(n, i)) PROVE Below(m, n) \/ m = Child(n, i)
  <2>1. CASE Len(m) <= Len(n)
    BY <1>1, <1>2, <1>5, <2>1 DEF Below
  <2>2. CASE Len(m) > Len(n)
    <3>1. Len(m) = Len(n) + 1
      BY <1>1, <1>2, <1>5, <2>2 DEF Below
    <3> QED
      BY <1>2, <1>5, <3>1, BelowOrder
  <2> QED
    BY <1>1, <2>1, <2>2
<1>6. ASSUME Below(m, n) \/ m = Child(n, i) PROVE Below(m, Child(n, i))
  BY <1>2, <1>3, <1>6, BelowOrder
<1> QED
  BY <1>3, <1>4, <1>5, <1>6

\* Ancestors are the shorter names above.
LEMMA AncestorFacts ==
    ASSUME NEW n \in Names, NEW q
    PROVE  q \in Ancestors(n) <=> q \in Names /\ Len(q) < Len(n) /\ Below(q, n)
<1>1. /\ n \in Seq(Block \union {0, 1}) /\ Len(n) \in Nat /\ Len(n) >= 1
      /\ n[1] \in Block /\ \A j \in 2 .. Len(n) : n[j] \in {0, 1}
  BY NameFacts
<1>2. ASSUME NEW k \in 1 .. Len(n) - 1
      PROVE  SubSeq(n, 1, k) \in Names /\ Len(SubSeq(n, 1, k)) = k /\ Below(SubSeq(n, 1, k), n)
  <2>1. /\ SubSeq(n, 1, k) \in Seq(Block \union {0, 1}) /\ Len(SubSeq(n, 1, k)) = k
        /\ \A i \in 1 .. k : SubSeq(n, 1, k)[i] = n[i]
    BY <1>1
  <2>2. NodeType(SubSeq(n, 1, k))
    BY <1>1, <2>1 DEF NodeType
  <2> QED
    BY <1>1, <2>1, <2>2 DEF Names, Below
<1>3. ASSUME q \in Ancestors(n) PROVE q \in Names /\ Len(q) < Len(n) /\ Below(q, n)
  <2>1. PICK k \in 1 .. Len(n) - 1 : q = SubSeq(n, 1, k)
    BY <1>3 DEF Ancestors
  <2>2. k < Len(n)
    BY <1>1
  <2> QED
    BY <1>2, <2>1, <2>2
<1>4. ASSUME q \in Names, Len(q) < Len(n), Below(q, n) PROVE q \in Ancestors(n)
  <2>1. Len(q) \in 1 .. Len(n) - 1
    BY <1>1, <1>4, NameFacts
  <2>2. /\ SubSeq(n, 1, Len(q)) \in Names /\ Len(SubSeq(n, 1, Len(q))) = Len(q)
        /\ Below(SubSeq(n, 1, Len(q)), n)
    BY <1>2, <2>1
  <2>3. q = SubSeq(n, 1, Len(q))
    BY <1>4, <2>1, <2>2, NameEqual DEF Below
  <2> QED
    BY <2>1, <2>3 DEF Ancestors
<1> QED
  BY <1>3, <1>4

\* A node that is not a root is a child of its parent, which is its last ancestor.
LEMMA ParentFacts ==
    ASSUME NEW n \in Names, ~IsRoot(n)
    PROVE  /\ Parent(n) \in Names /\ Len(Parent(n)) = Len(n) - 1
           /\ Parent(n) \in Ancestors(n) /\ Below(Parent(n), n)
           /\ n[Len(n)] \in {0, 1} /\ n = Child(Parent(n), n[Len(n)])
<1>1. Len(n) \in Nat /\ Len(n) >= 2 /\ \A i \in 2 .. Len(n) : n[i] \in {0, 1}
  <2>1. Len(n) \in Nat /\ Len(n) >= 1 /\ \A i \in 2 .. Len(n) : n[i] \in {0, 1}
    BY NameFacts
  <2> QED
    BY <2>1 DEF IsRoot
<1>2. Parent(n) \in Ancestors(n)
  BY <1>1 DEF Parent, Ancestors
<1>3. Parent(n) \in Names /\ Below(Parent(n), n)
  BY <1>2, AncestorFacts
<1>4. Len(Parent(n)) = Len(n) - 1
  BY <1>1, NameFacts DEF Parent
<1>5. n[Len(n)] \in {0, 1}
  BY <1>1
<1>6. n = Child(Parent(n), n[Len(n)])
  <2> DEFINE q == Parent(n)
             c == Child(q, n[Len(n)])
  <2>1. /\ c \in Names /\ Len(c) = Len(q) + 1
        /\ \A j \in 1 .. Len(q) : c[j] = q[j]
        /\ c[Len(q) + 1] = n[Len(n)]
    BY <1>3, <1>5, ChildName
  <2>2. \A j \in 1 .. Len(q) : q[j] = n[j]
    BY <1>3 DEF Below
  <2> HIDE DEF c
  <2>3. Len(q) = Len(n) - 1
    BY <1>4
  <2> HIDE DEF q
  <2>4. Len(c) = Len(n) /\ \A j \in 1 .. Len(n) : c[j] = n[j]
    BY <1>1, <2>1, <2>2, <2>3
  <2>5. n = c
    BY <2>1, <2>4, NameEqual
  <2> QED
    BY <2>5 DEF q, c
<1> QED
  BY <1>2, <1>3, <1>4, <1>5, <1>6

\* The child of n on the way to something below n.
LEMMA NextBelow ==
    ASSUME NEW n \in Names, NEW m \in Names, Below(n, m), n # m
    PROVE  /\ Len(n) < Len(m) /\ m[Len(n) + 1] \in {0, 1}
           /\ Below(Child(n, m[Len(n) + 1]), m)
<1>1. Len(n) \in Nat /\ Len(m) \in Nat /\ Len(n) >= 1 /\ \A i \in 2 .. Len(m) : m[i] \in {0, 1}
  BY NameFacts
<1>2. Len(n) < Len(m)
  BY <1>1, BelowOrder
<1>3. m[Len(n) + 1] \in {0, 1}
  BY <1>1, <1>2
<1> QED
  BY <1>2, <1>3, BelowChild

\* In a forest it lives too, so that nothing lives below a leaf.
LEMMA ForestBelow ==
    ASSUME NEW D, Forest(D), NEW n \in Names, NEW m \in D, Below(n, m)
    PROVE  /\ n \in D
           /\ n # m => Child(n, 0) \in D /\ Child(n, 1) \in D
           /\ IsLeaf(D, n) => n = m
<1>1. m \in Names
  BY DEF Forest
<1>2. n \in D
  <2>1. n = m \/ n \in Ancestors(m)
    BY <1>1, NextBelow, AncestorFacts
  <2> QED
    BY <2>1 DEF Forest
<1>3. ASSUME n # m PROVE Child(n, 0) \in D /\ Child(n, 1) \in D
  <2> DEFINE i == m[Len(n) + 1]
  <2>1. i \in {0, 1} /\ Below(Child(n, i), m)
    BY <1>1, <1>3, NextBelow
  <2>2. Child(n, i) \in Names
    BY <2>1, ChildName
  <2>3. Child(n, i) = m \/ Child(n, i) \in Ancestors(m)
    BY <1>1, <2>1, <2>2, NextBelow, AncestorFacts
  <2>4. Child(n, i) \in D
    BY <2>3 DEF Forest
  <2> QED
    BY <1>2, <2>1, <2>4 DEF Forest
<1> QED
  BY <1>2, <1>3 DEF IsLeaf

\* A node is the child of one parent, on one side; a root of none.
LEMMA ChildOf ==
    ASSUME NEW n \in Names, NEW q \in Names, NEW i \in {0, 1}
    PROVE  /\ Child(q, i) = n <=> ~IsRoot(n) /\ q = Parent(n) /\ i = n[Len(n)]
           /\ Child(q, i) # q
<1>1. /\ Len(n) \in Nat /\ Len(q) \in Nat /\ Len(q) >= 1
      /\ Child(q, i) \in Names /\ Len(Child(q, i)) = Len(q) + 1
      /\ \A j \in 1 .. Len(q) : Child(q, i)[j] = q[j]
      /\ Child(q, i)[Len(q) + 1] = i
  BY NameFacts, ChildName
<1>2. ASSUME Child(q, i) = n PROVE ~IsRoot(n) /\ q = Parent(n) /\ i = n[Len(n)]
  <2>1. ~IsRoot(n) /\ i = n[Len(n)]
    BY <1>1, <1>2 DEF IsRoot
  <2>2. Parent(n) \in Names /\ Len(Parent(n)) = Len(n) - 1 /\ Below(Parent(n), n)
    BY <2>1, ParentFacts
  <2>3. \A j \in 1 .. Len(q) : q[j] = Parent(n)[j]
    BY <1>1, <1>2, <2>2 DEF Below
  <2>4. Len(q) = Len(Parent(n))
    BY <1>1, <1>2, <2>2
  <2> QED
    BY <2>1, <2>2, <2>3, <2>4, NameEqual
<1>3. ASSUME ~IsRoot(n), q = Parent(n), i = n[Len(n)] PROVE Child(q, i) = n
  BY <1>3, ParentFacts
<1>4. Child(q, i) # q
  BY <1>1
<1> QED
  BY <1>2, <1>3, <1>4

-----------------------------------------------------------------------------
(* Sizes and alignments.                                                   *)

\* UP_DIV(x, a) * a.
LEMMA UpToFacts ==
    ASSUME NEW x \in Nat, NEW a \in Nat \ {0}
    PROVE  /\ UpTo(x, a) \in Nat /\ UpTo(x, a) >= x /\ UpTo(x, a) < x + a
           /\ UpTo(x, a) % a = 0
BY DEF UpTo

LEMMA ModMultiple ==
    ASSUME NEW k \in Nat, NEW a \in Nat \ {0}
    PROVE  (k * a) % a = 0
OBVIOUS

LEMMA ModQuotient ==
    ASSUME NEW x \in Nat, NEW a \in Nat \ {0}, x % a = 0
    PROVE  x = (x \div a) * a /\ x \div a \in Nat
OBVIOUS

LEMMA ModSum ==
    ASSUME NEW x \in Nat, NEW y \in Nat, NEW a \in Nat \ {0}, x % a = 0, y % a = 0
    PROVE  (x + y) % a = 0
<1>1. PICK j \in Nat : x = j * a
  BY ModQuotient
<1>2. PICK k \in Nat : y = k * a
  BY ModQuotient
<1>3. j + k \in Nat /\ x + y = (j + k) * a
  BY <1>1, <1>2
<1> QED
  BY <1>3, ModMultiple

LEMMA ModTrans ==
    ASSUME NEW x \in Nat, NEW a \in Nat \ {0}, NEW b \in Nat \ {0}, x % b = 0, b % a = 0
    PROVE  x % a = 0
<1>1. PICK j \in Nat : x = j * b
  BY ModQuotient
<1>2. PICK k \in Nat : b = k * a
  BY ModQuotient
<1>3. j * k \in Nat /\ x = (j * k) * a
  BY <1>1, <1>2
<1> QED
  BY <1>3, ModMultiple

\* Rounding up stays below a multiple.
LEMMA UpToBound ==
    ASSUME NEW x \in Nat, NEW y \in Nat, NEW a \in Nat \ {0}, x <= y, y % a = 0
    PROVE  UpTo(x, a) <= y
<1>1. PICK j \in Nat : y = j * a
  BY ModQuotient
<1>2. UpTo(x, a) \in Nat /\ UpTo(x, a) < x + a /\ UpTo(x, a) % a = 0
  BY UpToFacts
<1>3. PICK k \in Nat : UpTo(x, a) = k * a
  BY <1>2, ModQuotient
<1>4. k * a < (j + 1) * a
  BY <1>1, <1>2, <1>3
<1>5. k < j + 1
  BY <1>4
<1>6. k * a <= j * a
  BY <1>5
<1> QED
  BY <1>1, <1>3, <1>6

-----------------------------------------------------------------------------
(* Trees of nodes: a new block, a split, a whole node taken.               *)

\* Fewer nodes, or the same, where they were.
LEMMA SameLayout ==
    ASSUME NEW f, NEW g, NEW a, Layout(f, a), DOMAIN g \subseteq DOMAIN f,
           \A n \in DOMAIN g : /\ g[n] \in [off : Nat, size : Nat, useCount : Int]
                               /\ g[n].off = f[n].off /\ g[n].size = f[n].size
    PROVE  Layout(g, a)
BY DEF Layout, Inside, Apart

\* The names in a block that is not in use.
LEMMA FreshNames ==
    ASSUME NEW D, Forest(D), NEW b \in Block, b \notin {Head(n) : n \in D}
    PROVE  /\ <<b>> \in Names /\ <<b>> \notin D
           /\ \A n \in D : n \in Names /\ n[1] # b /\ ~Below(<<b>>, n) /\ ~Below(n, <<b>>)
           /\ \A i \in {0, 1} : Child(<<b>>, i) \notin D
           /\ \A n \in D, i \in {0, 1} : Child(n, i) # <<b>>
<1>1. <<b>> \in Names /\ <<b>>[1] = b /\ Len(<<b>>) = 1
  BY RootName
<1>2. \A n \in D : n \in Names /\ n[1] # b
  BY NameFacts DEF Forest
<1>3. \A n \in D : ~Below(<<b>>, n) /\ ~Below(n, <<b>>)
  BY <1>1, <1>2, BelowOrder
<1>4. ASSUME NEW i \in {0, 1} PROVE Child(<<b>>, i) \notin D
  <2>1. Below(<<b>>, Child(<<b>>, i))
    BY <1>1, BelowChild
  <2> QED
    BY <1>3, <2>1
<1>5. \A n \in D, i \in {0, 1} : Child(n, i) # <<b>>
  BY <1>1, <1>2, ChildOf DEF IsRoot
<1> QED
  BY <1>1, <1>2, <1>3, <1>4, <1>5

\* A block of s bytes at offset o, listed as free.
LEMMA AddRoot ==
    ASSUME NEW f, NEW a, NEW free, NEW H, Core(f, a, free, H),
           NEW b \in Block, b \notin {Head(n) : n \in DOMAIN f},
           NEW o \in Nat, NEW s \in Nat, o % a = 0,
           NEW g, g = Insert(f, <<b>>, [off |-> o, size |-> s, useCount |-> 0])
    PROVE  Core(g, a, free \union {<<b>>}, H \union {<<b>>})
<1> DEFINE root == <<b>>
           D == DOMAIN f
<1>1. /\ root \in Names /\ root \notin D
      /\ \A n \in D : n \in Names /\ n[1] # b /\ ~Below(root, n) /\ ~Below(n, root)
      /\ \A i \in {0, 1} : Child(root, i) \notin D
      /\ \A n \in D, i \in {0, 1} : Child(n, i) # root
  BY FreshNames DEF Core
<1>2. /\ DOMAIN g = D \union {root}
      /\ \A n \in D : g[n] = f[n]
      /\ g[root] = [off |-> o, size |-> s, useCount |-> 0]
  BY <1>1 DEF Insert
<1>3. /\ root[1] = b /\ Len(root) = 1 /\ Below(root, root) /\ Ancestors(root) = {}
      /\ \A i \in {0, 1} : Child(root, i) # root
  BY <1>1, RootName, BelowOrder, ChildOf DEF Ancestors
<1> HIDE DEF root
<1>4. Forest(DOMAIN g)
  <2>1. PICK k \in Nat : \A n \in D : Len(n) <= k
    BY DEF Core, Forest
  <2>2. k + 1 \in Nat /\ \A n \in D \union {root} : Len(n) <= k + 1
    BY <1>1, <1>3, <2>1, NameFacts
  <2>3. \A n \in D \union {root} : n \in Names /\ Ancestors(n) \subseteq D \union {root}
    BY <1>1, <1>3 DEF Core, Forest
  <2>4. \A n \in D \union {root} : Child(n, 0) \in D \union {root} <=> Child(n, 1) \in D \union {root}
    BY <1>1, <1>3 DEF Core, Forest
  <2> QED
    BY <1>2, <2>2, <2>3, <2>4 DEF Forest
<1>5. Layout(g, a)
  <2>1. /\ \A n \in D : /\ f[n] \in [off : Nat, size : Nat, useCount : Int] /\ f[n].off % a = 0
        /\ \A n, m \in D : Below(n, m) => Inside(f, n, m)
        /\ \A n, m \in D : n[1] = m[1] /\ ~Below(n, m) /\ ~Below(m, n) => Apart(f, n, m)
    BY DEF Core, Layout
  <2>2. Inside(g, root, root)
    BY <1>2 DEF Inside
  <2>3. \A n, m \in D : Inside(g, n, m) = Inside(f, n, m) /\ Apart(g, n, m) = Apart(f, n, m)
    BY <1>2 DEF Inside, Apart
  <2>4. \A n \in D \union {root} : /\ g[n] \in [off : Nat, size : Nat, useCount : Int]
                                   /\ g[n].off % a = 0
    BY <1>2, <2>1
  <2>5. \A n, m \in D \union {root} : Below(n, m) => Inside(g, n, m)
    BY <1>1, <2>1, <2>2, <2>3
  <2>6. \A n, m \in D \union {root} : n[1] = m[1] /\ ~Below(n, m) /\ ~Below(m, n) => Apart(g, n, m)
    BY <1>1, <1>3, <2>1, <2>3
  <2> QED
    BY <1>2, <2>4, <2>5, <2>6 DEF Layout
<1>6. Alive(DOMAIN g, H \union {root})
  BY <1>1, <1>2, <1>3 DEF Core, Alive, IsLeaf
<1>7. Counting(g, free \union {root})
  <2>1. \A n \in D, i \in {0, 1} : Counts(DOMAIN g, free \union {root}, n, i) = Counts(D, free, n, i)
    BY <1>1, <1>2 DEF Counts
  <2>2. \A i \in {0, 1} : Counts(DOMAIN g, free \union {root}, root, i) = 0
    BY <1>1, <1>2, <1>3 DEF Counts
  <2>3. \A n \in D : IsLeaf(DOMAIN g, n) <=> IsLeaf(D, n)
    BY <1>1, <1>2 DEF IsLeaf
  <2>4. IsLeaf(DOMAIN g, root)
    BY <1>1, <1>2, <1>3 DEF IsLeaf
  <2>5. ASSUME NEW n \in D
        PROVE  /\ g[n].useCount = Counts(DOMAIN g, free \union {root}, n, 0) +
                                  Counts(DOMAIN g, free \union {root}, n, 1)
               /\ ~IsLeaf(DOMAIN g, n) => g[n].useCount > 0
    BY <1>2, <2>1, <2>3 DEF Core, Counting
  <2>6. g[root].useCount = Counts(DOMAIN g, free \union {root}, root, 0) +
                           Counts(DOMAIN g, free \union {root}, root, 1)
    BY <1>2, <2>2
  <2> QED
    BY <1>2, <2>4, <2>5, <2>6 DEF Counting
<1> QED
  BY <1>4, <1>5, <1>6, <1>7 DEF Core, root

\* How many of the children of q leave the free list with n.
Told(n, q) == IF ~IsRoot(n) /\ q = Parent(n) THEN 1 ELSE 0

\* A node leaves the free list.
LEMMA CountsTaken ==
    ASSUME NEW D \in SUBSET Names, NEW free, NEW n \in D, n \in free, NEW q \in Names
    PROVE  Counts(D, free \ {n}, q, 0) + Counts(D, free \ {n}, q, 1)
               = Counts(D, free, q, 0) + Counts(D, free, q, 1) + Told(n, q)
<1>1. \A i \in {0, 1} : Child(q, i) = n <=> ~IsRoot(n) /\ q = Parent(n) /\ i = n[Len(n)]
  BY ChildOf
<1>2. CASE ~IsRoot(n) /\ q = Parent(n)
  <2>1. n[Len(n)] \in {0, 1}
    BY <1>2, ParentFacts
  <2>2. CASE n[Len(n)] = 0
    <3>1. Child(q, 0) = n /\ Child(q, 1) # n
      BY <1>1, <1>2, <2>2
    <3> QED
      BY <1>2, <3>1 DEF Counts, Told
  <2>3. CASE n[Len(n)] = 1
    <3>1. Child(q, 1) = n /\ Child(q, 0) # n
      BY <1>1, <1>2, <2>3
    <3> QED
      BY <1>2, <3>1 DEF Counts, Told
  <2> QED
    BY <2>1, <2>2, <2>3
<1>3. CASE ~(~IsRoot(n) /\ q = Parent(n))
  <2>1. Child(q, 0) # n /\ Child(q, 1) # n
    BY <1>1, <1>3
  <2> QED
    BY <1>3, <2>1 DEF Counts, Told
<1> QED
  BY <1>2, <1>3

\* A free node is used as a whole.
LEMMA TakeCore ==
    ASSUME NEW f, NEW a, NEW free, NEW H, Core(f, a, free, H), NEW n \in free,
           NEW g, DOMAIN g = DOMAIN f,
           \A m \in DOMAIN f : /\ g[m].off = f[m].off /\ g[m].size = f[m].size
                               /\ g[m].useCount = f[m].useCount + Told(n, m)
                               /\ g[m] \in [off : Nat, size : Nat, useCount : Int]
    PROVE  Core(g, a, free \ {n}, H)
<1>1. Forest(DOMAIN g) /\ Alive(DOMAIN g, H) /\ free \ {n} \subseteq H
  BY DEF Core
<1>2. Layout(g, a)
  BY SameLayout DEF Core
<1>3. DOMAIN f \in SUBSET Names /\ n \in DOMAIN f
  BY DEF Core, Forest, Alive
<1>4. ASSUME NEW m \in DOMAIN f
      PROVE  /\ g[m].useCount = Counts(DOMAIN f, free \ {n}, m, 0) + Counts(DOMAIN f, free \ {n}, m, 1)
             /\ ~IsLeaf(DOMAIN f, m) => g[m].useCount > 0
  <2>1. /\ f[m].useCount = Counts(DOMAIN f, free, m, 0) + Counts(DOMAIN f, free, m, 1)
        /\ ~IsLeaf(DOMAIN f, m) => f[m].useCount > 0
    BY DEF Core, Counting
  <2>2. /\ Counts(DOMAIN f, free, m, 0) \in {0, 1} /\ Counts(DOMAIN f, free, m, 1) \in {0, 1}
        /\ Told(n, m) \in {0, 1}
    BY DEF Counts, Told
  <2>3. Counts(DOMAIN f, free \ {n}, m, 0) + Counts(DOMAIN f, free \ {n}, m, 1)
            = Counts(DOMAIN f, free, m, 0) + Counts(DOMAIN f, free, m, 1) + Told(n, m)
    BY <1>3, CountsTaken
  <2> QED
    BY <2>1, <2>2, <2>3
<1>5. Counting(g, free \ {n})
  BY <1>4 DEF Counting
<1> QED
  BY <1>1, <1>2, <1>5 DEF Core

\* The names of the two parts of a leaf are new.
LEMMA SplitNames ==
    ASSUME NEW D, Forest(D), NEW n \in D, IsLeaf(D, n), NEW i \in {0, 1}
    PROVE  /\ Child(n, i) \in Names /\ Child(n, i) \notin D /\ Child(n, i)[1] = n[1]
           /\ Below(n, Child(n, i))
           /\ \A m \in D : /\ ~Below(Child(n, i), m)
                           /\ Below(m, Child(n, i)) <=> Below(m, n)
           /\ ~Below(Child(n, 0), Child(n, 1)) /\ ~Below(Child(n, 1), Child(n, 0))
           /\ \A j, k \in {0, 1} : /\ Child(Child(n, i), j) \notin D
                                   /\ Child(Child(n, i), j) # Child(n, k)
           /\ \A m \in D : m # n => Child(m, 0) # Child(n, i) /\ Child(m, 1) # Child(n, i)
<1>1. n \in Names /\ D \subseteq Names
  BY DEF Forest
<1>2. /\ Child(n, i) \in Names /\ Len(Child(n, i)) = Len(n) + 1 /\ Below(n, Child(n, i))
      /\ Len(n) \in Nat /\ Child(n, i) \notin D
  BY <1>1, ChildName, BelowChild, NameFacts DEF IsLeaf
<1>3. Child(n, i)[1] = n[1]
  BY <1>1, <1>2, BelowOrder
<1>4. ASSUME NEW m \in D PROVE ~Below(Child(n, i), m)
  BY <1>2, ForestBelow
<1>5. ASSUME NEW m \in D PROVE Below(m, Child(n, i)) <=> Below(m, n)
  BY <1>1, <1>2, BelowChild
<1>6. ASSUME NEW j \in {0, 1}, NEW k \in {0, 1}, j # k PROVE ~Below(Child(n, j), Child(n, k))
  <2>1. Child(n, k) \in Names /\ Child(n, k)[Len(n) + 1] = k
    BY <1>1, ChildName
  <2> QED
    BY <1>1, <1>6, <2>1, BelowChild
<1>7. ASSUME NEW j \in {0, 1}, NEW k \in {0, 1}
      PROVE  Child(Child(n, i), j) \notin D /\ Child(Child(n, i), j) # Child(n, k)
  <2>1. /\ Child(Child(n, i), j) \in Names /\ Below(Child(n, i), Child(Child(n, i), j))
        /\ Len(Child(Child(n, i), j)) = Len(n) + 1 + 1
    BY <1>2, ChildName, BelowChild
  <2>2. Len(Child(n, k)) = Len(n) + 1
    BY <1>1, ChildName
  <2> QED
    BY <1>2, <1>4, <2>1, <2>2
<1>8. ASSUME NEW m \in D, NEW j \in {0, 1}, Child(m, j) = Child(n, i) PROVE m = n
  <2> DEFINE c == Child(n, i)
  <2>1. m = Parent(c)
    BY <1>1, <1>2, <1>8, ChildOf
  <2>2. n = Parent(c)
    BY <1>1, <1>2, ChildOf
  <2> QED
    BY <2>1, <2>2
<1> QED
  BY <1>2, <1>3, <1>4, <1>5, <1>6, <1>7, <1>8

\* The forest and the layout after a split of the leaf n into its first s bytes and
\* the rest.
LEMMA SplitLayout ==
    ASSUME NEW f, NEW a \in Nat \ {0}, Forest(DOMAIN f), Layout(f, a),
           NEW n \in DOMAIN f, IsLeaf(DOMAIN f, n),
           NEW s \in Nat, s <= f[n].size, s % a = 0,
           NEW g, DOMAIN g = DOMAIN f \union {Child(n, 0), Child(n, 1)},
           \A m \in DOMAIN f : /\ g[m].off = f[m].off /\ g[m].size = f[m].size
                               /\ g[m] \in [off : Nat, size : Nat, useCount : Int],
           g[Child(n, 0)] = [off |-> f[n].off, size |-> s, useCount |-> 0],
           g[Child(n, 1)] = [off |-> f[n].off + s, size |-> f[n].size - s, useCount |-> 0]
    PROVE  Forest(DOMAIN g) /\ Layout(g, a)
<1> DEFINE D == DOMAIN f
           c0 == Child(n, 0)
           c1 == Child(n, 1)
           G == D \union {c0, c1}
<1>1. /\ c0 \in Names /\ c1 \in Names /\ c0 \notin D /\ c1 \notin D
      /\ c0[1] = n[1] /\ c1[1] = n[1] /\ Below(n, c0) /\ Below(n, c1)
      /\ \A m \in D : ~Below(c0, m) /\ ~Below(c1, m)
      /\ \A m \in D : (Below(m, c0) <=> Below(m, n)) /\ (Below(m, c1) <=> Below(m, n))
      /\ ~Below(c0, c1) /\ ~Below(c1, c0)
      /\ \A j \in {0, 1} : Child(c0, j) \notin G /\ Child(c1, j) \notin G
      /\ \A m \in D : m # n => /\ Child(m, 0) # c0 /\ Child(m, 1) # c0
                              /\ Child(m, 0) # c1 /\ Child(m, 1) # c1
  BY SplitNames
<1>2. D \subseteq Names /\ n \in Names /\ Len(n) \in Nat
  BY NameFacts DEF Forest
<1>3. Len(c0) = Len(n) + 1 /\ Len(c1) = Len(n) + 1
  BY <1>2, ChildName
<1>4. /\ f[n].off \in Nat /\ f[n].size \in Nat /\ f[n].off % a = 0
      /\ \A m \in D : f[m].off \in Nat /\ f[m].size \in Nat
  BY DEF Layout
<1>5. \A m \in D : /\ Ancestors(m) \subseteq D
                   /\ Child(m, 0) \in D <=> Child(m, 1) \in D
  BY DEF Forest
<1>6. PICK k \in Nat : \A m \in D : Len(m) <= k
  BY DEF Forest
<1> HIDE DEF c0, c1
<1>7. Forest(G)
  <2>1. k + 1 \in Nat /\ \A m \in G : Len(m) <= k + 1
    BY <1>2, <1>3, <1>6, NameFacts
  <2>2. \A c \in {c0, c1} : Ancestors(c) \subseteq D
    <3> SUFFICES ASSUME NEW c \in {c0, c1}, NEW q \in Ancestors(c) PROVE q \in D
      OBVIOUS
    <3>1. q \in Names /\ Len(q) < Len(c) /\ Below(q, c)
      BY <1>1, AncestorFacts
    <3>2. Below(q, n) \/ q = c
      BY <1>2, <3>1, BelowChild DEF c0, c1
    <3>3. Below(q, n)
      BY <1>2, <1>3, <3>1, <3>2
    <3> QED
      BY <3>1, <3>3, ForestBelow
  <2>3. \A m \in G : Ancestors(m) \subseteq G
    BY <1>5, <2>2
  <2>4. \A m \in G : Child(m, 0) \in G <=> Child(m, 1) \in G
    <3>1. \A m \in D : m # n => (Child(m, 0) \in G <=> Child(m, 1) \in G)
      BY <1>1, <1>5
    <3>2. Child(n, 0) \in G /\ Child(n, 1) \in G
      BY DEF c0, c1
    <3> QED
      BY <1>1, <3>1, <3>2
  <2> QED
    BY <1>1, <1>2, <2>1, <2>3, <2>4 DEF Forest
<1>8. /\ g[c0].off = f[n].off /\ g[c0].size = s
      /\ g[c1].off = f[n].off + s /\ g[c1].size = f[n].size - s
      /\ g[c0] \in [off : Nat, size : Nat, useCount : Int]
      /\ g[c1] \in [off : Nat, size : Nat, useCount : Int]
  BY <1>4 DEF c0, c1
<1>9. g[c0].off % a = 0 /\ g[c1].off % a = 0
  BY <1>4, <1>8, ModSum
<1>10. Layout(g, a)
  <2>1. \A m \in G : g[m] \in [off : Nat, size : Nat, useCount : Int] /\ g[m].off % a = 0
    BY <1>8, <1>9 DEF Layout
  <2>2. \A m, q \in D : Inside(g, m, q) = Inside(f, m, q) /\ Apart(g, m, q) = Apart(f, m, q)
    BY DEF Inside, Apart
  <2>3. ASSUME NEW m \in G, NEW q \in G, Below(m, q) PROVE Inside(g, m, q)
    <3>1. CASE m \in D /\ q \in D
      BY <2>2, <2>3, <3>1 DEF Layout
    <3>2. CASE m \in D /\ q \notin D
      <4>1. Below(m, n)
        BY <1>1, <2>3, <3>2
      <4>2. Inside(f, m, n)
        BY <3>2, <4>1 DEF Layout
      <4> QED
        BY <1>4, <1>8, <3>2, <4>2 DEF Inside
    <3>3. CASE m \notin D
      <4>1. m = q
        BY <1>1, <2>3, <3>3
      <4> QED
        BY <1>4, <1>8, <3>3, <4>1 DEF Inside
    <3> QED
      BY <3>1, <3>2, <3>3
  <2>4. ASSUME NEW m \in G, NEW q \in G, m[1] = q[1], ~Below(m, q), ~Below(q, m)
        PROVE  Apart(g, m, q)
    <3>1. CASE m \in D /\ q \in D
      BY <2>2, <2>4, <3>1 DEF Layout
    <3>2. ASSUME NEW x \in D, NEW y \in {c0, c1}, x[1] = y[1], ~Below(x, y), ~Below(y, x)
          PROVE  Apart(g, x, y) /\ Apart(g, y, x)
      <4>1. ~Below(x, n) /\ x[1] = n[1]
        BY <1>1, <3>2
      <4>2. ~Below(n, x)
        <5>1. Below(n, n)
          BY <1>2, BelowOrder
        <5> QED
          BY <4>1, <5>1, <1>2, ForestBelow
      <4>3. Apart(f, x, n)
        BY <4>1, <4>2 DEF Layout
      <4> QED
        BY <1>4, <1>8, <4>3 DEF Apart
    <3>3. Apart(g, c0, c1) /\ Apart(g, c1, c0)
      BY <1>4, <1>8 DEF Apart
    <3>4. \A x \in Names : Below(x, x)
      BY BelowOrder
    <3> QED
      BY <1>1, <1>2, <2>4, <3>1, <3>2, <3>3, <3>4
  <2> QED
    BY <2>1, <2>3, <2>4 DEF Layout, c0, c1
<1> QED
  BY <1>7, <1>10 DEF c0, c1

\* g is f after the split of n into its first s bytes and the rest.
SplitsTo(f, g, n, s) ==
    /\ DOMAIN g = DOMAIN f \union {Child(n, 0), Child(n, 1)}
    /\ \A m \in DOMAIN f : /\ g[m].off = f[m].off /\ g[m].size = f[m].size
                           /\ g[m].useCount = f[m].useCount + Told(n, m) + (IF m = n THEN 1 ELSE 0)
                           /\ g[m] \in [off : Nat, size : Nat, useCount : Int]
    /\ g[Child(n, 0)] = [off |-> f[n].off, size |-> s, useCount |-> 0]
    /\ g[Child(n, 1)] = [off |-> f[n].off + s, size |-> f[n].size - s, useCount |-> 0]

\* A free node is split: the first part is used, the rest is free.
LEMMA SplitCore ==
    ASSUME NEW f, NEW a \in Nat \ {0}, NEW free, NEW H, Core(f, a, free, H), NEW n \in free,
           NEW s \in Nat, s <= f[n].size, s % a = 0, NEW g, SplitsTo(f, g, n, s)
    PROVE  Core(g, a, (free \ {n}) \union {Child(n, 1)},
                (H \ {n}) \union {Child(n, 0), Child(n, 1)})
<1> DEFINE D == DOMAIN f
           c0 == Child(n, 0)
           c1 == Child(n, 1)
           G == D \union {c0, c1}
           free1 == (free \ {n}) \union {c1}
           H1 == (H \ {n}) \union {c0, c1}
<1>1. /\ Forest(D) /\ n \in D /\ IsLeaf(D, n) /\ n \in H /\ D \in SUBSET Names
      /\ free \subseteq H /\ H \subseteq D
  BY DEF Core, Alive, Forest
<1>2. /\ c0 \in Names /\ c1 \in Names /\ c0 \notin D /\ c1 \notin D
      /\ Below(n, c0) /\ Below(n, c1)
      /\ \A m \in D : (Below(m, c0) <=> Below(m, n)) /\ (Below(m, c1) <=> Below(m, n))
      /\ \A j \in {0, 1} : Child(c0, j) \notin G /\ Child(c1, j) \notin G
      /\ \A m \in D : m # n => /\ Child(m, 0) # c0 /\ Child(m, 1) # c0
                              /\ Child(m, 0) # c1 /\ Child(m, 1) # c1
      /\ ~Below(c0, c1)
  BY <1>1, SplitNames
<1>3. Forest(DOMAIN g) /\ Layout(g, a)
  <2>1. /\ DOMAIN g = DOMAIN f \union {Child(n, 0), Child(n, 1)}
        /\ \A m \in DOMAIN f : /\ g[m].off = f[m].off /\ g[m].size = f[m].size
                               /\ g[m] \in [off : Nat, size : Nat, useCount : Int]
        /\ g[Child(n, 0)] = [off |-> f[n].off, size |-> s, useCount |-> 0]
        /\ g[Child(n, 1)] = [off |-> f[n].off + s, size |-> f[n].size - s, useCount |-> 0]
    BY DEF SplitsTo
  <2>2. Forest(DOMAIN f) /\ Layout(f, a)
    BY DEF Core
  <2> QED
    BY <1>1, <2>1, <2>2, SplitLayout
<1>4. Alive(G, H1)
  <2>1. ASSUME NEW h \in H, h # n PROVE IsLeaf(G, h)
    <3>1. h \in D /\ IsLeaf(D, h)
      BY DEF Core, Alive
    <3>2. Child(h, 0) # c0 /\ Child(h, 1) # c0 /\ Child(h, 0) # c1 /\ Child(h, 1) # c1
      BY <1>2, <2>1, <3>1
    <3> HIDE DEF c0, c1
    <3> QED
      BY <3>1, <3>2 DEF IsLeaf
  <2>2. IsLeaf(G, c0) /\ IsLeaf(G, c1)
    BY <1>2 DEF IsLeaf
  <2>3. ASSUME NEW m \in G PROVE \E h \in H1 : Below(m, h)
    <3>1. CASE m \in {c0, c1}
      BY <1>2, <3>1, BelowOrder
    <3>2. CASE m \in D
      <4>1. PICK h \in H : Below(m, h)
        BY <3>2 DEF Core, Alive
      <4> QED
        BY <1>2, <3>2, <4>1
    <3> QED
      BY <3>1, <3>2
  <2> QED
    BY <1>1, <2>1, <2>2, <2>3 DEF Alive
<1>5. c0 # c1
  BY <1>2, BelowOrder
<1>6. /\ DOMAIN g = G /\ g[c0].useCount = 0 /\ g[c1].useCount = 0
      /\ \A m \in D : g[m].useCount = f[m].useCount + Told(n, m) + (IF m = n THEN 1 ELSE 0)
  BY DEF SplitsTo
<1> HIDE DEF c0, c1
<1>7. ASSUME NEW m \in D
      PROVE  /\ g[m].useCount = Counts(G, free1, m, 0) + Counts(G, free1, m, 1)
             /\ ~IsLeaf(G, m) => g[m].useCount > 0
  <2>1. /\ f[m].useCount = Counts(D, free, m, 0) + Counts(D, free, m, 1)
        /\ ~IsLeaf(D, m) => f[m].useCount > 0
    BY DEF Core, Counting
  <2>2. Counts(D, free \ {n}, m, 0) + Counts(D, free \ {n}, m, 1)
            = Counts(D, free, m, 0) + Counts(D, free, m, 1) + Told(n, m)
    BY <1>1, CountsTaken
  <2>3. /\ Counts(D, free, m, 0) \in {0, 1} /\ Counts(D, free, m, 1) \in {0, 1}
        /\ Told(n, m) \in {0, 1}
    BY DEF Counts, Told
  <2>4. CASE m = n
    <3>1. Child(m, 0) = c0 /\ Child(m, 1) = c1
      BY <2>4 DEF c0, c1
    <3>2. c0 \notin free1
      BY <1>1, <1>2, <1>5
    <3>3. Counts(G, free1, m, 0) = 1 /\ Counts(G, free1, m, 1) = 0
      BY <3>1, <3>2 DEF Counts
    <3>4. Counts(D, free, m, 0) = 0 /\ Counts(D, free, m, 1) = 0
      BY <1>1, <2>4 DEF Counts, IsLeaf
    <3>5. Told(n, m) = 0
      <4>1. ~IsRoot(n) => Len(Parent(n)) = Len(n) - 1 /\ Len(n) \in Nat
        BY <1>1, ParentFacts, NameFacts
      <4>2. ~IsRoot(n) => Parent(n) # n
        BY <4>1
      <4> QED
        BY <2>4, <4>2 DEF Told
    <3> QED
      BY <1>6, <2>1, <2>4, <3>3, <3>4, <3>5
  <2>5. CASE m # n
    <3>1. \A i \in {0, 1} : Child(m, i) # c0 /\ Child(m, i) # c1
      BY <1>2, <2>5
    <3>2. \A i \in {0, 1} : Counts(G, free1, m, i) = Counts(D, free \ {n}, m, i)
      BY <3>1 DEF Counts
    <3>3. IsLeaf(G, m) <=> IsLeaf(D, m)
      BY <3>1 DEF IsLeaf
    <3>4. g[m].useCount = f[m].useCount + Told(n, m)
      BY <1>6, <2>1, <2>3, <2>5
    <3> QED
      BY <2>1, <2>2, <2>3, <3>2, <3>3, <3>4
  <2> QED
    BY <2>4, <2>5
<1>8. ASSUME NEW c \in {c0, c1}
      PROVE  /\ g[c].useCount = Counts(G, free1, c, 0) + Counts(G, free1, c, 1)
             /\ ~IsLeaf(G, c) => g[c].useCount > 0
  <2>1. g[c].useCount = 0
    BY <1>6
  <2>2. Counts(G, free1, c, 0) = 0 /\ Counts(G, free1, c, 1) = 0 /\ IsLeaf(G, c)
    BY <1>2 DEF Counts, IsLeaf
  <2> QED
    BY <2>1, <2>2
<1>9. Counting(g, free1)
  <2>1. DOMAIN g = G
    BY <1>6
  <2> HIDE DEF G, free1
  <2>2. \A m \in G : m \in D \/ m \in {c0, c1}
    BY DEF G
  <2> QED
    BY <1>7, <1>8, <2>1, <2>2 DEF Counting
<1>10. free1 \subseteq H1
  BY <1>1
<1> QED
  BY <1>3, <1>4, <1>9, <1>10, <1>6 DEF Core, c0, c1

-----------------------------------------------------------------------------
(* returnMemory: the merge.                                                *)

\* The ancestors of n that returnMemory merges, and the node it ends with.
Merged(f, n) == {q \in Ancestors(n) : \A r \in Ancestors(n) :
                     Len(r) >= Len(q) => f[r].useCount = 1}
Top(f, n) == IF Merged(f, n) = {} THEN n
             ELSE CHOOSE q \in Merged(f, n) : \A r \in Merged(f, n) : Len(q) <= Len(r)

\* A nonempty set of numbers has a least one.
LEMMA LeastNumber ==
    ASSUME NEW S \in SUBSET Nat, S # {}
    PROVE  \E s \in S : \A u \in S : s <= u
<1> DEFINE R == {ss \in Nat \X Nat : ss[1] < ss[2]}
<1>1. IsWellFoundedOn(R, Nat)
  BY NatLessThanWellFounded DEF OpToRel
<1>2. PICK s \in S : \A u \in S : ~(<<u, s>> \in R)
  BY <1>1, WFMin
<1>3. \A u \in S : <<u, s>> \in R <=> u < s
  OBVIOUS
<1> HIDE DEF R
<1>4. ASSUME NEW u \in S PROVE s <= u
  <2>1. ~(u < s)
    BY <1>2, <1>3
  <2> QED
    BY <2>1
<1> QED
  BY <1>4

\* The merge ends at the shortest merged ancestor, or at n.
LEMMA TopFacts ==
    ASSUME NEW f, Forest(DOMAIN f), NEW n \in DOMAIN f
    PROVE  /\ Merged(f, n) = {} => Top(f, n) = n
           /\ Merged(f, n) # {} => /\ Top(f, n) \in Merged(f, n)
                                  /\ \A r \in Merged(f, n) : Len(Top(f, n)) <= Len(r)
           /\ Top(f, n) \in DOMAIN f /\ Top(f, n) \in Names /\ Below(Top(f, n), n)
           /\ \A q \in Merged(f, n) : /\ q \in DOMAIN f /\ q \in Names /\ q \in Ancestors(n)
                                      /\ Below(q, n) /\ Len(q) < Len(n) /\ Below(Top(f, n), q)
<1> DEFINE M == Merged(f, n)
           t == Top(f, n)
<1>1. n \in Names /\ DOMAIN f \subseteq Names /\ Ancestors(n) \subseteq DOMAIN f
  BY DEF Forest
<1>2. \A q \in M : /\ q \in Ancestors(n) /\ q \in DOMAIN f /\ q \in Names /\ Below(q, n)
                   /\ Len(q) < Len(n) /\ Len(q) \in Nat
  BY <1>1, AncestorFacts, NameFacts DEF Merged
<1>3. ASSUME M # {} PROVE t \in M /\ \A r \in M : Len(t) <= Len(r)
  <2> DEFINE S == {Len(q) : q \in M}
  <2>1. S \in SUBSET Nat /\ S # {}
    BY <1>2, <1>3
  <2>2. PICK l \in S : \A u \in S : l <= u
    BY <2>1, LeastNumber
  <2>3. PICK q \in M : Len(q) = l
    BY <2>2
  <2>4. \A r \in M : Len(q) <= Len(r)
    BY <2>2, <2>3
  <2>5. t = CHOOSE x \in M : \A r \in M : Len(x) <= Len(r)
    BY <1>3 DEF Top
  <2> HIDE DEF M, t
  <2> QED
    BY <2>3, <2>4, <2>5
<1>4. M = {} => t = n
  BY DEF Top
<1> HIDE DEF M, t
<1>5. t \in DOMAIN f /\ t \in Names /\ Below(t, n)
  BY <1>1, <1>2, <1>3, <1>4, BelowOrder
<1>6. ASSUME NEW q \in M PROVE Below(t, q)
  <2>1. t \in M /\ Len(t) <= Len(q)
    BY <1>3
  <2>2. Below(t, q) \/ Below(q, t)
    BY <1>1, <1>2, <1>5, BelowOrder
  <2>3. Below(q, t) => q = t
    BY <1>2, <1>5, <2>1, BelowOrder
  <2> QED
    BY <1>5, <2>2, <2>3, BelowOrder
<1> QED
  BY <1>2, <1>3, <1>4, <1>5, <1>6 DEF M, t

\* A merged node had one child that was not free, on the way to n: its children are
\* n, merged as well, or free.
LEMMA MergedChildren ==
    ASSUME NEW f, NEW a, NEW free, NEW H, Core(f, a, free, H), NEW n \in H, n \notin free,
           NEW q \in Merged(f, n), NEW i \in {0, 1}
    PROVE  /\ Child(q, i) \in DOMAIN f
           /\ Child(q, i) = n \/ Child(q, i) \in Merged(f, n) \/ Child(q, i) \in free
<1> DEFINE D == DOMAIN f
           j == n[Len(q) + 1]
           c == Child(q, j)
<1>1. n \in D /\ Forest(D) /\ n \in Names /\ D \subseteq Names /\ IsLeaf(D, n)
  BY DEF Core, Alive, Forest
<1>2. q \in D /\ q \in Names /\ q \in Ancestors(n) /\ Below(q, n) /\ Len(q) < Len(n) /\ Len(q) \in Nat
  BY <1>1, TopFacts, NameFacts
<1>3. j \in {0, 1} /\ Below(c, n) /\ Child(q, 0) \in D /\ Child(q, 1) \in D
  BY <1>1, <1>2, NextBelow, ForestBelow
<1>4. c \in Names /\ Len(c) = Len(q) + 1
  BY <1>2, <1>3, ChildName
<1>5. c = n \/ c \in Merged(f, n)
  <2>1. CASE Len(c) = Len(n)
    BY <1>1, <1>3, <1>4, <2>1, BelowOrder
  <2>2. CASE Len(c) # Len(n)
    <3>1. c \in Ancestors(n)
      BY <1>1, <1>2, <1>3, <1>4, <2>2, AncestorFacts, NameFacts
    <3>2. \A r \in Ancestors(n) : Len(r) >= Len(q) => f[r].useCount = 1
      BY DEF Merged
    <3>3. \A r \in Ancestors(n) : Len(r) \in Nat
      BY <1>1, AncestorFacts, NameFacts
    <3> HIDE DEF c
    <3>4. \A r \in Ancestors(n) : Len(r) >= Len(c) => f[r].useCount = 1
      BY <1>2, <1>4, <3>2, <3>3
    <3> QED
      BY <3>1, <3>4 DEF Merged
  <2> QED
    BY <2>1, <2>2
<1>6. c \notin free
  <2>1. CASE c = n
    BY <2>1
  <2>2. CASE c # n
    <3>1. Child(c, 0) \in D
      BY <1>1, <1>3, <1>4, <2>2, ForestBelow
    <3> QED
      BY <3>1 DEF Core, Alive, IsLeaf
  <2> QED
    BY <2>1, <2>2
<1>7. f[q].useCount = 1
  BY <1>2 DEF Merged
<1>8. f[q].useCount = Counts(D, free, q, 0) + Counts(D, free, q, 1)
  BY <1>2 DEF Core, Counting
<1>9. Counts(D, free, q, j) = 1
  BY <1>3, <1>6 DEF Counts
<1>10. ASSUME i # j PROVE Child(q, i) \in free
  <2>1. Counts(D, free, q, 0) \in {0, 1} /\ Counts(D, free, q, 1) \in {0, 1}
    BY DEF Counts
  <2>2. (i = 0 /\ j = 1) \/ (i = 1 /\ j = 0)
    BY <1>3, <1>10
  <2> HIDE DEF j
  <2>3. Counts(D, free, q, i) = 0
    BY <1>7, <1>8, <1>9, <2>1, <2>2
  <2>4. Child(q, i) \in D
    BY <1>3, <2>2
  <2> QED
    BY <2>3, <2>4 DEF Counts
<1>11. Child(q, i) \in D
  BY <1>3
<1> QED
  BY <1>5, <1>10, <1>11

\* What lives below the node the merge ends with are children of merged nodes.
LEMMA BelowTop ==
    ASSUME NEW f, NEW a, NEW free, NEW H, Core(f, a, free, H), NEW n \in H, n \notin free
    PROVE  /\ \A m \in DOMAIN f : Below(Top(f, n), m) /\ m # Top(f, n) =>
                  \E q \in Merged(f, n), i \in {0, 1} : m = Child(q, i)
           /\ \A q \in Merged(f, n), i \in {0, 1} :
                  Below(Top(f, n), Child(q, i)) /\ Child(q, i) # Top(f, n)
<1> DEFINE D == DOMAIN f
           M == Merged(f, n)
           t == Top(f, n)
<1>1. n \in D /\ Forest(D) /\ n \in Names /\ D \subseteq Names /\ IsLeaf(D, n)
  BY DEF Core, Alive, Forest
<1>2. /\ t \in D /\ t \in Names /\ Below(t, n)
      /\ M = {} => t = n
      /\ M # {} => t \in M
      /\ \A q \in M : q \in Names /\ Below(t, q) /\ Len(q) < Len(n) /\ Len(q) \in Nat
  BY <1>1, TopFacts, NameFacts
<1>3. ASSUME NEW m \in D, Below(t, m), m # t PROVE \E q \in M, i \in {0, 1} : m = Child(q, i)
  <2>1. t \in M /\ m \in Names
    <3>1. M # {}
      BY <1>1, <1>2, <1>3, ForestBelow
    <3> QED
      BY <1>1, <1>2, <3>1
  <2> DEFINE A == {q \in M : Below(q, m) /\ q # m}
             S == {Len(n) - Len(q) : q \in A}
  <2>2. S \in SUBSET Nat /\ S # {}
    <3>1. t \in A
      BY <1>3, <2>1
    <3>2. Len(n) \in Nat
      BY <1>1, NameFacts
    <3> QED
      BY <1>2, <3>1, <3>2
  <2>3. PICK l \in S : \A u \in S : l <= u
    BY <2>2, LeastNumber
  <2>4. PICK q \in A : Len(n) - Len(q) = l
    BY <2>3
  <2>5. \A r \in A : Len(r) <= Len(q)
    <3> SUFFICES ASSUME NEW r \in A PROVE Len(r) <= Len(q)
      OBVIOUS
    <3>1. Len(n) - Len(q) <= Len(n) - Len(r)
      BY <2>3, <2>4
    <3>2. Len(n) \in Nat /\ Len(q) \in Nat /\ Len(r) \in Nat
      BY <1>1, <1>2, NameFacts
    <3> QED
      BY <3>1, <3>2
  <2> DEFINE i == m[Len(q) + 1]
             c == Child(q, i)
  <2>6. i \in {0, 1} /\ Below(c, m) /\ q \in Names /\ q \in M
    BY <1>2, <2>1, NextBelow
  <2>7. c \in Names /\ Len(c) = Len(q) + 1 /\ Len(q) \in Nat
    BY <1>2, <2>6, ChildName
  <2>8. c \in D /\ (c = n \/ c \in M \/ c \in free)
    BY <2>6, MergedChildren
  <2>9. c = m
    <3>1. CASE c \in M
      <4>1. ~(Len(c) <= Len(q))
        BY <2>7
      <4>2. c \notin A
        BY <2>5, <4>1
      <4> QED
        BY <2>6, <3>1, <4>2
    <3>2. CASE c = n \/ c \in free
      <4>1. IsLeaf(D, c)
        BY <1>1, <3>2 DEF Core, Alive
      <4> QED
        BY <1>1, <2>6, <2>7, <4>1, ForestBelow
    <3> QED
      BY <2>8, <3>1, <3>2
  <2> QED
    BY <2>6, <2>9
<1>4. ASSUME NEW q \in M, NEW i \in {0, 1} PROVE Below(t, Child(q, i)) /\ Child(q, i) # t
  <2>1. Child(q, i) \in Names /\ Len(Child(q, i)) = Len(q) + 1 /\ Len(q) \in Nat
    BY <1>2, ChildName
  <2>2. Below(t, q) /\ Len(t) <= Len(q) /\ Len(t) \in Nat
    BY <1>2, BelowOrder, NameFacts
  <2>3. Below(t, Child(q, i))
    BY <1>2, <2>1, <2>2, BelowChild
  <2>4. Child(q, i) # t
    BY <2>1, <2>2
  <2> QED
    BY <2>3, <2>4
<1> QED
  BY <1>3, <1>4

\* The free list after the merge.
FreeAfter(f, free, n) ==
    ((free \union {n}) \ {Child(q, i) : q \in Merged(f, n), i \in {0, 1}}) \union {Top(f, n)}

\* What KeepHeld keeps when H is held.
Kept(f, H) == DOMAIN f \intersect (H \union UNION {Ancestors(h) : h \in H})

\* n can be returned: it is held by no list but the caller's; R are the nodes held elsewhere.
Returning(f, a, free, R, n) ==
    /\ Core(f, a, free, free \union R \union {n})
    /\ n \notin free /\ n \notin R /\ R \intersect free = {}

\* The nodes left after the merge are those that do not lie below its end.
LEMMA ReturnNodes ==
    ASSUME NEW f, NEW a, NEW free, NEW R, NEW n, Returning(f, a, free, R, n),
           NEW H, H = FreeAfter(f, free, n) \union R,
           NEW K, K = Kept(f, H)
    PROVE  /\ K = {m \in DOMAIN f : Below(Top(f, n), m) => m = Top(f, n)}
           /\ H \subseteq K /\ FreeAfter(f, free, n) \intersect R = {}
           /\ Top(f, n) \notin free
           /\ \A c \in K : c \in FreeAfter(f, free, n) <=> c \in free \/ c = Top(f, n)
<1> DEFINE D == DOMAIN f
           M == Merged(f, n)
           t == Top(f, n)
           F1 == FreeAfter(f, free, n)
           H0 == free \union R \union {n}
           B == {Child(q, i) : q \in M, i \in {0, 1}}
<1>1. /\ n \in D /\ Forest(D) /\ n \in Names /\ D \subseteq Names /\ IsLeaf(D, n)
      /\ H0 \subseteq D /\ \A h \in H0 : IsLeaf(D, h)
  BY DEF Returning, Core, Alive, Forest
<1>2. /\ t \in D /\ t \in Names /\ Below(t, n)
      /\ t = n \/ t \in M
  BY <1>1, TopFacts
<1>3. /\ \A m \in D : Below(t, m) /\ m # t => m \in B
      /\ \A m \in B : Below(t, m) /\ m # t
  BY <1>1, BelowTop DEF Returning
<1>4. \A m \in B : m = n \/ m \in M \/ m \in free
  BY <1>1, MergedChildren DEF Returning
<1>5. \A q \in M : ~IsLeaf(D, q)
  BY <1>1, MergedChildren DEF IsLeaf, Returning
<1>6. F1 = ((free \union {n}) \ B) \union {t}
  BY DEF FreeAfter
<1> HIDE DEF D, M, t, F1, B
<1>7. t \notin free /\ t \notin R
  BY <1>1, <1>2, <1>5 DEF Returning
<1>8. \A m \in R : m \notin B
  BY <1>1, <1>4, <1>5 DEF Returning
<1>9. F1 \intersect R = {}
  BY <1>6, <1>7 DEF Returning
<1>10. H = F1 \union R
  BY DEF F1
<1>11. \A h \in H : h \in D /\ (Below(t, h) => h = t)
  BY <1>1, <1>2, <1>3, <1>6, <1>8, <1>10
<1>12. K = D \intersect (H \union UNION {Ancestors(h) : h \in H})
  BY DEF D, Kept
<1>13. ASSUME NEW m \in K, Below(t, m) PROVE m = t
  <2>1. CASE m \in H
    BY <1>11, <1>13, <2>1
  <2>2. ASSUME NEW h \in H, m \in Ancestors(h) PROVE m = t
    <3>1. h \in Names /\ m \in Names /\ Len(m) < Len(h) /\ Below(m, h)
      BY <1>1, <1>11, <2>2, AncestorFacts
    <3>2. Below(t, h)
      BY <1>2, <1>13, <3>1, BelowOrder
    <3>3. h = t
      BY <1>11, <3>2
    <3>4. Len(t) <= Len(m) /\ Len(t) \in Nat /\ Len(m) \in Nat
      BY <1>2, <1>13, <3>1, BelowOrder, NameFacts
    <3> QED
      BY <3>1, <3>3, <3>4
  <2> QED
    BY <1>12, <2>1, <2>2
<1>14. ASSUME NEW m \in D, Below(t, m) => m = t PROVE m \in K
  <2>1. ASSUME NEW h \in H, Below(m, h) PROVE m \in K
    <3>1. m \in Names /\ h \in Names
      BY <1>1, <1>11
    <3>2. m = h \/ m \in Ancestors(h)
      BY <2>1, <3>1, NextBelow, AncestorFacts
    <3> QED
      BY <1>12, <2>1, <3>2
  <2>2. PICK h \in H0 : Below(m, h)
    BY DEF Returning, Core, Alive, D
  <2>3. CASE h \in H
    BY <2>1, <2>2, <2>3
  <2>4. CASE h \notin H
    <3>1. h \in B
      BY <1>6, <1>10, <2>4
    <3>2. Below(t, h)
      BY <1>3, <3>1
    <3>3. Below(t, m) \/ Below(m, t)
      BY <1>1, <1>2, <2>2, <3>2, BelowOrder
    <3>4. Below(m, t)
      BY <1>2, <1>14, <3>3, BelowOrder
    <3> QED
      BY <1>6, <1>10, <2>1, <3>4
  <2> QED
    BY <2>3, <2>4
<1>15. K = {m \in D : Below(t, m) => m = t}
  BY <1>12, <1>13, <1>14
<1>16. H \subseteq K
  BY <1>11, <1>12
<1>17. \A c \in K : c \in F1 <=> c \in free \/ c = t
  <2> SUFFICES ASSUME NEW c \in K PROVE c \in F1 <=> c \in free \/ c = t
    OBVIOUS
  <2>1. c \notin B
    BY <1>3, <1>13
  <2>2. c = n => c = t
    BY <1>2, <1>13
  <2> QED
    BY <1>6, <2>1, <2>2
<1> QED
  BY <1>7, <1>9, <1>15, <1>16, <1>17 DEF D, t, F1

\* The merge stopped below a node with another child in use.
LEMMA MergeStops ==
    ASSUME NEW f, Forest(DOMAIN f), NEW n \in DOMAIN f, ~IsRoot(Top(f, n))
    PROVE  f[Parent(Top(f, n))].useCount # 1
<1> DEFINE M == Merged(f, n)
           t == Top(f, n)
           q == Parent(t)
<1> SUFFICES ASSUME f[q].useCount = 1 PROVE FALSE
  OBVIOUS
<1>1. /\ M = {} => t = n
      /\ M # {} => t \in M /\ \A r \in M : Len(t) <= Len(r)
      /\ t \in Names /\ Below(t, n) /\ n \in Names
  BY TopFacts DEF Forest
<1>2. q \in Names /\ Len(q) = Len(t) - 1 /\ Below(q, t)
  BY <1>1, ParentFacts
<1>3. Len(t) \in Nat /\ Len(n) \in Nat /\ Len(t) <= Len(n) /\ Below(q, n) /\ Len(q) \in Nat
  BY <1>1, <1>2, BelowOrder, NameFacts
<1> HIDE DEF q
<1>4. q \in Ancestors(n)
  BY <1>1, <1>2, <1>3, AncestorFacts
<1>5. ASSUME NEW r \in Ancestors(n), Len(r) >= Len(q) PROVE f[r].useCount = 1
  <2>1. r \in Names /\ Below(r, n) /\ Len(r) < Len(n) /\ Len(r) \in Nat
    BY <1>1, AncestorFacts, NameFacts
  <2>2. CASE Len(r) = Len(q)
    <3>1. r = q
      BY <1>1, <1>2, <1>3, <2>1, <2>2, BelowOrder
    <3> QED
      BY <3>1
  <2>3. CASE Len(r) # Len(q)
    <3>1. Len(r) >= Len(t)
      BY <1>2, <1>3, <1>5, <2>1, <2>3
    <3>2. M # {}
      BY <1>1, <2>1, <3>1, <1>3
    <3>3. t \in M
      BY <1>1, <3>2
    <3> HIDE DEF t
    <3> QED
      BY <3>1, <3>3 DEF Merged
  <2> QED
    BY <2>2, <2>3
<1>6. q \in M
  BY <1>4, <1>5 DEF Merged
<1>7. Len(t) <= Len(q)
  BY <1>1, <1>6
<1> QED
  BY <1>2, <1>3, <1>7

\* A node is returned: the free list and the counts are those of the merged nodes.
LEMMA ReturnCore ==
    ASSUME NEW f, NEW a, NEW free, NEW R, NEW n, Returning(f, a, free, R, n),
           NEW H, H = FreeAfter(f, free, n) \union R,
           NEW g, DOMAIN g = Kept(f, H),
           \A m \in DOMAIN g :
               /\ g[m].off = f[m].off /\ g[m].size = f[m].size
               /\ g[m].useCount = (IF m \in Merged(f, n) THEN 0 ELSE f[m].useCount) - Told(Top(f, n), m)
               /\ g[m] \in [off : Nat, size : Nat, useCount : Int]
    PROVE  Core(g, a, FreeAfter(f, free, n), H)
<1> DEFINE D == DOMAIN f
           K == DOMAIN g
           t == Top(f, n)
           F1 == FreeAfter(f, free, n)
           H0 == free \union R \union {n}
<1>1. /\ n \in D /\ Forest(D) /\ n \in Names /\ D \subseteq Names /\ IsLeaf(D, n)
      /\ H0 \subseteq D /\ \A h \in H0 : IsLeaf(D, h)
  BY DEF Returning, Core, Alive, Forest
<1>2. /\ K = {m \in D : Below(t, m) => m = t}
      /\ H \subseteq K /\ F1 \intersect R = {} /\ t \notin free
      /\ \A c \in K : c \in F1 <=> c \in free \/ c = t
  <2>1. K = Kept(f, H)
    OBVIOUS
  <2> HIDE DEF K
  <2> QED
    BY <2>1, ReturnNodes
<1>3. /\ t \in D /\ t \in Names /\ Below(t, n) /\ Len(t) \in Nat
      /\ t = n \/ t \in Merged(f, n)
      /\ \A q \in Merged(f, n) : Below(t, q)
  BY <1>1, TopFacts, NameFacts
<1>4. t \in H /\ H = F1 \union R /\ \A h \in H : h \in H0 \/ h = t
  BY DEF FreeAfter
<1>5. K \subseteq D /\ t \in K
  BY <1>2, <1>3
<1>6. ~IsRoot(t) => f[Parent(t)].useCount # 1
  BY <1>1, MergeStops
<1>7. Told(t, t) = 0
  <2>1. ~IsRoot(t) => Len(Parent(t)) = Len(t) - 1
    BY <1>3, ParentFacts
  <2>2. ~IsRoot(t) => Parent(t) # t
    BY <1>3, <2>1
  <2> QED
    BY <2>2 DEF Told
<1> HIDE DEF D, K, t, F1
<1>8. \A i \in {0, 1} : Child(t, i) \notin K
  <2> SUFFICES ASSUME NEW i \in {0, 1} PROVE Child(t, i) \notin K
    OBVIOUS
  <2>1. Below(t, Child(t, i)) /\ Child(t, i) # t
    BY <1>3, BelowChild, ChildOf
  <2> QED
    BY <1>2, <2>1
<1>9. ASSUME NEW m \in K, m # t, NEW i \in {0, 1} PROVE Child(m, i) \in K <=> Child(m, i) \in D
  <2>1. m \in Names /\ ~Below(t, m)
    BY <1>1, <1>2, <1>9
  <2>2. Below(t, Child(m, i)) <=> Below(t, m) \/ t = Child(m, i)
    BY <1>3, <2>1, BelowChild
  <2> QED
    BY <1>2, <2>1, <2>2
<1>10. Forest(K)
  <2>1. ASSUME NEW m \in K, NEW q \in Ancestors(m) PROVE q \in K
    <3>1. m \in Names /\ q \in Names /\ Len(q) < Len(m) /\ Below(q, m) /\ q \in D
      BY <1>1, <1>5, AncestorFacts DEF Forest
    <3>2. ASSUME Below(t, q) PROVE q = t
      <4>1. Below(t, m)
        BY <1>3, <3>1, <3>2, BelowOrder
      <4>2. m = t
        BY <1>2, <4>1
      <4>3. Len(t) <= Len(q) /\ Len(q) \in Nat
        BY <1>3, <3>1, <3>2, BelowOrder, NameFacts
      <4> QED
        BY <1>3, <3>1, <4>2, <4>3
    <3> QED
      BY <1>2, <3>1, <3>2
  <2>2. \A m \in K : Child(m, 0) \in K <=> Child(m, 1) \in K
    <3> SUFFICES ASSUME NEW m \in K PROVE Child(m, 0) \in K <=> Child(m, 1) \in K
      OBVIOUS
    <3>1. CASE m = t
      BY <1>8, <3>1
    <3>2. CASE m # t
      <4>1. Child(m, 0) \in D <=> Child(m, 1) \in D
        BY <1>1, <1>5 DEF Forest
      <4>2. (Child(m, 0) \in K <=> Child(m, 0) \in D) /\ (Child(m, 1) \in K <=> Child(m, 1) \in D)
        BY <1>9, <3>2
      <4> QED
        BY <4>1, <4>2
    <3> QED
      BY <3>1, <3>2
  <2>3. \E k \in Nat : \A m \in K : Len(m) <= k
    BY <1>1, <1>5 DEF Forest
  <2> QED
    BY <1>1, <1>5, <2>1, <2>2, <2>3 DEF Forest
<1>11. Layout(g, a)
  BY <1>5, SameLayout DEF Returning, Core, K, D
<1>12. Alive(K, H)
  <2>1. IsLeaf(K, t)
    BY <1>8 DEF IsLeaf
  <2>2. \A h \in H : IsLeaf(K, h)
    BY <1>1, <1>4, <1>5, <2>1 DEF IsLeaf
  <2>3. ASSUME NEW m \in K PROVE \E h \in H : Below(m, h)
    <3>1. CASE m \in H
      <4>1. Below(m, m)
        BY <1>1, <1>5, BelowOrder
      <4> QED
        BY <3>1, <4>1
    <3>2. ASSUME NEW h \in H, m \in Ancestors(h) PROVE Below(m, h)
      <4>1. h \in Names
        BY <1>1, <1>2, <1>5
      <4> QED
        BY <3>2, <4>1, AncestorFacts
    <3> QED
      BY <3>1, <3>2 DEF K, Kept
  <2> QED
    BY <1>2, <2>2, <2>3 DEF Alive
<1>13. ASSUME NEW m \in K
       PROVE  /\ g[m].useCount = Counts(K, F1, m, 0) + Counts(K, F1, m, 1)
              /\ ~IsLeaf(K, m) => g[m].useCount > 0
  <2>1. /\ f[m].useCount = Counts(D, free, m, 0) + Counts(D, free, m, 1)
        /\ ~IsLeaf(D, m) => f[m].useCount > 0
    BY <1>5 DEF Returning, Core, Counting, D
  <2>2. g[m].useCount = (IF m \in Merged(f, n) THEN 0 ELSE f[m].useCount) - Told(t, m)
    BY DEF K, t
  <2>3. /\ Counts(D, free, m, 0) \in {0, 1} /\ Counts(D, free, m, 1) \in {0, 1}
        /\ Told(t, m) \in {0, 1}
    BY DEF Counts, Told
  <2>4. CASE m = t
    <3>1. Counts(K, F1, m, 0) = 0 /\ Counts(K, F1, m, 1) = 0 /\ IsLeaf(K, m)
      BY <1>8, <2>4 DEF Counts, IsLeaf
    <3>2. CASE m \in Merged(f, n)
      BY <1>7, <2>2, <2>4, <3>1, <3>2
    <3>3. CASE m \notin Merged(f, n)
      <4>1. m = n
        BY <1>3, <2>4, <3>3
      <4>2. Counts(D, free, m, 0) = 0 /\ Counts(D, free, m, 1) = 0
        BY <1>1, <4>1 DEF Counts, IsLeaf
      <4> QED
        BY <1>7, <2>1, <2>2, <2>4, <3>1, <3>3, <4>2
    <3> QED
      BY <3>2, <3>3
  <2>5. CASE m # t
    <3>1. m \notin Merged(f, n) /\ m \in D /\ m \in Names
      BY <1>1, <1>2, <1>3, <2>5
    <3>2. /\ Child(m, 0) \in K <=> Child(m, 0) \in D
          /\ Child(m, 1) \in K <=> Child(m, 1) \in D
      BY <1>9, <2>5
    <3>3. IsLeaf(K, m) <=> IsLeaf(D, m)
      BY <3>2 DEF IsLeaf
    <3>4. /\ Counts(K, F1, m, 0) = Counts(D, free \union {t}, m, 0)
          /\ Counts(K, F1, m, 1) = Counts(D, free \union {t}, m, 1)
      BY <1>2, <3>2 DEF Counts
    <3>5. Counts(D, (free \union {t}) \ {t}, m, 0) + Counts(D, (free \union {t}) \ {t}, m, 1)
            = Counts(D, free \union {t}, m, 0) + Counts(D, free \union {t}, m, 1) + Told(t, m)
      BY <1>1, <1>3, <3>1, CountsTaken
    <3>6. (free \union {t}) \ {t} = free
      BY <1>2
    <3>7. /\ Counts(D, free \union {t}, m, 0) \in {0, 1}
          /\ Counts(D, free \union {t}, m, 1) \in {0, 1}
      BY DEF Counts
    <3>8. g[m].useCount = f[m].useCount - Told(t, m)
      BY <2>2, <3>1
    <3>9. Counts(D, free, m, 0) + Counts(D, free, m, 1)
            = Counts(D, free \union {t}, m, 0) + Counts(D, free \union {t}, m, 1) + Told(t, m)
      BY <3>5, <3>6
    <3>10. g[m].useCount = Counts(K, F1, m, 0) + Counts(K, F1, m, 1)
      BY <2>1, <2>3, <3>4, <3>7, <3>8, <3>9
    <3>11. Told(t, m) = 1 => f[m].useCount # 1
      BY <1>6 DEF Told
    <3>12. f[m].useCount > 0 => g[m].useCount > 0
      BY <2>1, <2>3, <3>8, <3>11
    <3> QED
      BY <2>1, <3>3, <3>10, <3>12
  <2> QED
    BY <2>4, <2>5
<1>14. Counting(g, F1)
  BY <1>13 DEF Counting, K
<1>15. F1 \subseteq H
  BY <1>4
<1> QED
  BY <1>10, <1>11, <1>12, <1>14, <1>15 DEF Core, K, F1

\* Nothing lies above a root.
LEMMA RootAlone ==
    ASSUME NEW r \in Names, IsRoot(r), NEW m \in Names, Below(m, r)
    PROVE  m = r
<1>1. Len(r) = 1 /\ Len(m) >= 1 /\ Len(m) \in Nat
  BY NameFacts DEF IsRoot
<1>2. Len(m) <= Len(r)
  BY BelowOrder
<1>3. Len(m) = Len(r)
  BY <1>1, <1>2
<1> QED
  BY <1>3, BelowOrder

\* release(false): the whole blocks that are free are given back.
LEMMA DropRoots ==
    ASSUME NEW f, NEW a, NEW free, NEW R, Core(f, a, free, free \union R), R \intersect free = {},
           NEW H, H = {z \in free : ~IsRoot(z)} \union R,
           NEW g, g = Restrict(f, Kept(f, H))
    PROVE  Core(g, a, {z \in free : ~IsRoot(z)}, H)
<1> DEFINE D == DOMAIN f
           Z == {z \in free : IsRoot(z)}
           K == Kept(f, H)
           F1 == {z \in free : ~IsRoot(z)}
<1>1. /\ Forest(D) /\ D \subseteq Names /\ free \union R \subseteq D
      /\ \A h \in free \union R : IsLeaf(D, h)
  BY DEF Core, Alive, Forest
<1>2. DOMAIN g = K /\ \A m \in K : g[m] = f[m]
  BY DEF Restrict, Kept
<1>3. ASSUME NEW r \in Z, NEW m \in D PROVE Below(r, m) \/ Below(m, r) => m = r
  <2>1. r \in Names /\ m \in Names /\ IsRoot(r) /\ IsLeaf(D, r)
    BY <1>1
  <2> QED
    BY <1>1, <2>1, RootAlone, ForestBelow
<1>4. Z \subseteq D /\ H \subseteq D /\ \A h \in H : h \notin Z
  BY <1>1
<1> HIDE DEF Z
<1>5. K = D \ Z
  <2>1. ASSUME NEW m \in K PROVE m \notin Z
    <3>1. CASE m \in H
      BY <1>4, <3>1
    <3>2. ASSUME NEW h \in H, m \in Ancestors(h), m \in Z PROVE FALSE
      <4>1. h \in Names /\ m \in Names /\ h \in D
        BY <1>1, <1>4, <3>2
      <4>2. Below(m, h) /\ Len(m) < Len(h) /\ Len(m) \in Nat /\ Len(h) \in Nat
        BY <3>2, <4>1, AncestorFacts, NameFacts
      <4>3. m = h
        BY <1>3, <3>2, <4>1, <4>2
      <4> QED
        BY <4>2, <4>3
    <3> QED
      BY <3>1, <3>2 DEF Kept
  <2>2. ASSUME NEW m \in D, m \notin Z PROVE m \in K
    <3>1. PICK h \in free \union R : Below(m, h)
      BY DEF Core, Alive
    <3>2. h \in H
      <4>1. h \notin Z
        BY <1>3, <2>2, <3>1
      <4> QED
        BY <4>1 DEF Z
    <3>3. m = h \/ m \in Ancestors(h)
      BY <1>1, <3>1, NextBelow, AncestorFacts
    <3> QED
      BY <3>2, <3>3 DEF Kept
  <2> QED
    BY <2>1, <2>2 DEF Kept
<1> HIDE DEF K, D
<1>6. \A m \in D, i \in {0, 1} : Child(m, i) \notin Z
  <2> SUFFICES ASSUME NEW m \in D, NEW i \in {0, 1}, Child(m, i) \in Z PROVE FALSE
    OBVIOUS
  <2>1. Below(m, Child(m, i)) /\ m # Child(m, i)
    BY <1>1, BelowChild, ChildOf
  <2> QED
    BY <1>3, <2>1
<1>7. \A m \in K, i \in {0, 1} : Child(m, i) \in K <=> Child(m, i) \in D
  BY <1>5, <1>6
<1>8. Forest(K)
  <2>1. ASSUME NEW m \in K, NEW q \in Ancestors(m) PROVE q \in K
    <3>1. m \in D /\ m \in Names /\ q \in D
      BY <1>1, <1>5 DEF Forest
    <3>2. Below(q, m) /\ Len(q) < Len(m) /\ Len(q) \in Nat /\ Len(m) \in Nat
      BY <3>1, AncestorFacts, NameFacts
    <3>3. q \notin Z
      <4>1. q # m
        BY <3>2
      <4> QED
        BY <1>3, <3>1, <3>2, <4>1
    <3> QED
      BY <1>5, <3>1, <3>3
  <2>2. \A m \in K : Child(m, 0) \in K <=> Child(m, 1) \in K
    BY <1>1, <1>5, <1>7 DEF Forest
  <2>3. \E k \in Nat : \A m \in K : Len(m) <= k
    BY <1>1, <1>5 DEF Forest
  <2> QED
    BY <1>1, <1>5, <2>1, <2>2, <2>3 DEF Forest
<1>9. Layout(g, a)
  <2>1. \A m \in DOMAIN g : g[m] \in [off : Nat, size : Nat, useCount : Int]
    BY <1>2, <1>5 DEF Core, Layout, D
  <2>2. DOMAIN g \subseteq DOMAIN f /\ \A m \in DOMAIN g : g[m].off = f[m].off /\ g[m].size = f[m].size
    BY <1>2, <1>5 DEF D
  <2> QED
    BY <2>1, <2>2, SameLayout DEF Core
<1>10. Alive(K, H)
  <2>1. H \subseteq K
    BY <1>4, <1>5
  <2>2. \A h \in H : IsLeaf(K, h)
    BY <1>1, <1>5 DEF IsLeaf
  <2>3. ASSUME NEW m \in K PROVE \E h \in H : Below(m, h)
    <3>1. PICK h \in free \union R : Below(m, h)
      BY <1>5 DEF Core, Alive, D
    <3>2. h \notin Z
      BY <1>3, <1>5, <3>1
    <3> QED
      BY <3>1, <3>2 DEF Z
  <2> QED
    BY <2>1, <2>2, <2>3 DEF Alive
<1>11. Counting(g, F1)
  <2> SUFFICES ASSUME NEW m \in K
               PROVE  /\ g[m].useCount = Counts(K, F1, m, 0) + Counts(K, F1, m, 1)
                      /\ ~IsLeaf(K, m) => g[m].useCount > 0
    BY <1>2 DEF Counting
  <2>1. /\ f[m].useCount = Counts(D, free, m, 0) + Counts(D, free, m, 1)
        /\ ~IsLeaf(D, m) => f[m].useCount > 0
    BY <1>5 DEF Core, Counting, D
  <2>2. \A c \in D : c \notin Z => (c \in F1 <=> c \in free)
    BY DEF Z
  <2>3. Counts(K, F1, m, 0) = Counts(D, free, m, 0) /\ Counts(K, F1, m, 1) = Counts(D, free, m, 1)
    BY <1>5, <1>6, <1>7, <2>2 DEF Counts
  <2>4. IsLeaf(K, m) <=> IsLeaf(D, m)
    BY <1>7 DEF IsLeaf
  <2> QED
    BY <1>2, <2>1, <2>3, <2>4
<1> QED
  BY <1>2, <1>8, <1>9, <1>10, <1>11 DEF Core

-----------------------------------------------------------------------------
(* Sums of sizes.  Total is what SizeOf computes, for any function that    *)
(* gives the records; FiniteSetsExt takes the elements in the order CHOOSE *)
(* prescribes, and the order is shown not to matter.                       *)

Total(f, S) == MapThenSumSet(LAMBDA n : f[n].size, S)

Pick(s) == CHOOSE x \in s : TRUE

\* it adds the sizes of every subset of S, element by element.
Adds(it, f, S) ==
    it = [s \in SUBSET S |-> IF s = {} THEN 0 ELSE f[Pick(s)].size + it[s \ {Pick(s)}]]

TotalStep(f, S) ==
    Total(f, S) = IF S = {} THEN 0 ELSE f[Pick(S)].size + Total(f, S \ {Pick(S)})

\* What holds of a set when it holds of the set without any one of its elements, holds
\* of every subset of a finite set.
LEMMA SubsetInduction ==
    ASSUME NEW S, IsFiniteSet(S), NEW G \in SUBSET SUBSET S,
           \A s \in SUBSET S : (\A x \in s : s \ {x} \in G) => s \in G
    PROVE  G = SUBSET S
<1> DEFINE B == (SUBSET S) \ G
           C == {Cardinality(s) : s \in B}
<1>1. \A s \in SUBSET S : IsFiniteSet(s) /\ Cardinality(s) \in Nat
  BY FS_Subset, FS_CardinalityType
<1> SUFFICES ASSUME B # {} PROVE FALSE
  OBVIOUS
<1>2. C \in SUBSET Nat /\ C # {}
  BY <1>1
<1>3. PICK l \in C : \A u \in C : l <= u
  BY <1>2, LeastNumber
<1>4. PICK s \in B : Cardinality(s) = l
  BY <1>3
<1>5. PICK x \in s : s \ {x} \notin G
  BY <1>4
<1>6. s \ {x} \in B /\ IsFiniteSet(s)
  BY <1>1, <1>5
<1>7. Cardinality(s \ {x}) = Cardinality(s) - 1
  BY <1>5, <1>6, FS_RemoveElement
<1>8. l <= Cardinality(s \ {x}) /\ l \in Nat
  BY <1>2, <1>3, <1>6
<1> QED
  BY <1>4, <1>7, <1>8

\* What the library chooses is a function that adds element by element.
LEMMA TotalChosen ==
    ASSUME NEW f, NEW S
    PROVE  Total(f, S) = (CHOOSE it : Adds(it, f, S))[S]
BY DEF Total, MapThenSumSet, MapThenFoldSet, Adds, Pick

\* The element CHOOSE prescribes is an element.
LEMMA PickMember ==
    ASSUME NEW s, s # {}
    PROVE  Pick(s) \in s
BY DEF Pick

\* Two solutions agree on every subset.
LEMMA AddsUnique ==
    ASSUME NEW S, IsFiniteSet(S), NEW f, NEW i, NEW j, Adds(i, f, S), Adds(j, f, S)
    PROVE  i[S] = j[S]
<1> DEFINE G == {s \in SUBSET S : i[s] = j[s]}
<1>1. ASSUME NEW s \in SUBSET S, \A x \in s : s \ {x} \in G PROVE s \in G
  <2>1. /\ i[s] = IF s = {} THEN 0 ELSE f[Pick(s)].size + i[s \ {Pick(s)}]
        /\ j[s] = IF s = {} THEN 0 ELSE f[Pick(s)].size + j[s \ {Pick(s)}]
    BY DEF Adds
  <2>2. s # {} => i[s \ {Pick(s)}] = j[s \ {Pick(s)}]
    BY <1>1, PickMember
  <2> QED
    BY <2>1, <2>2
<1>2. G = SUBSET S
  <2> HIDE DEF G
  <2>1. G \in SUBSET SUBSET S
    BY DEF G
  <2> QED
    BY <1>1, <2>1, SubsetInduction
<1> QED
  BY <1>2

\* Total obeys the recursion it is defined by.
LEMMA TotalRecursion ==
    ASSUME NEW S, IsFiniteSet(S), NEW f
    PROVE  TotalStep(f, S)
<1> DEFINE G == {s \in SUBSET S : \A u \in SUBSET s : TotalStep(f, u)}
<1>1. ASSUME NEW s \in SUBSET S, \A x \in s : s \ {x} \in G PROVE s \in G
  <2>1. ASSUME NEW u \in SUBSET s, u # s PROVE TotalStep(f, u)
    <3>1. PICK x \in s : x \notin u
      BY <2>1
    <3>2. s \ {x} \in G /\ u \in SUBSET (s \ {x})
      BY <1>1, <3>1
    <3> QED
      BY <3>2
  <2>2. TotalStep(f, s)
    <3> DEFINE i == [u \in SUBSET s |-> IF u = {} THEN 0 ELSE f[Pick(u)].size + Total(f, u \ {Pick(u)})]
    <3>1. ASSUME NEW u \in SUBSET s, u # {} PROVE i[u \ {Pick(u)}] = Total(f, u \ {Pick(u)})
      <4> DEFINE w == u \ {Pick(u)}
      <4>1. Pick(u) \in u
        BY <3>1, PickMember
      <4>2. w \in SUBSET s /\ w # s
        BY <4>1
      <4>3. TotalStep(f, w)
        BY <2>1, <4>2
      <4> HIDE DEF w
      <4>4. i[w] = Total(f, w)
        BY <4>2, <4>3 DEF TotalStep
      <4> QED
        BY <4>4 DEF w
    <3>2. \A u \in SUBSET s : i[u] = IF u = {} THEN 0 ELSE f[Pick(u)].size + Total(f, u \ {Pick(u)})
      OBVIOUS
    <3>3. i = [u \in DOMAIN i |-> i[u]] /\ DOMAIN i = SUBSET s
      OBVIOUS
    <3> HIDE DEF i
    <3>4. \A u \in SUBSET s : i[u] = IF u = {} THEN 0 ELSE f[Pick(u)].size + i[u \ {Pick(u)}]
      BY <3>1, <3>2
    <3>5. Adds(i, f, s)
      BY <3>3, <3>4 DEF Adds
    <3>6. PICK j : j = CHOOSE it : Adds(it, f, s)
      OBVIOUS
    <3>7. Adds(j, f, s)
      BY <3>5, <3>6
    <3>8. IsFiniteSet(s)
      BY FS_Subset
    <3>9. i[s] = j[s]
      BY <3>5, <3>7, <3>8, AddsUnique
    <3>10. Total(f, s) = j[s]
      BY <3>6, TotalChosen
    <3> QED
      BY <3>2, <3>9, <3>10 DEF TotalStep
  <2> QED
    BY <2>1, <2>2
<1>2. G = SUBSET S
  <2> HIDE DEF G
  <2>1. G \in SUBSET SUBSET S
    BY DEF G
  <2> QED
    BY <1>1, <2>1, SubsetInduction
<1> QED
  BY <1>2

\* The records of S have sizes, and there are finitely many.
Summable(f, S) == IsFiniteSet(S) /\ \A x \in S : f[x].size \in Nat

\* A subset of what can be added can be added.
LEMMA SummableSubset ==
    ASSUME NEW f, NEW S, Summable(f, S), NEW s \in SUBSET S
    PROVE  Summable(f, s)
BY FS_Subset DEF Summable

\* Nothing adds up to zero.
LEMMA TotalEmpty ==
    ASSUME NEW f
    PROVE  Total(f, {}) = 0
<1>1. TotalStep(f, {})
  BY FS_EmptySet, TotalRecursion
<1> QED
  BY <1>1 DEF TotalStep

\* A total is a natural number.
LEMMA TotalNat ==
    ASSUME NEW f, NEW S, Summable(f, S)
    PROVE  Total(f, S) \in Nat
<1> DEFINE G == {s \in SUBSET S : Total(f, s) \in Nat}
<1>1. ASSUME NEW s \in SUBSET S, \A x \in s : s \ {x} \in G PROVE s \in G
  <2>1. TotalStep(f, s)
    BY SummableSubset, TotalRecursion DEF Summable
  <2>2. CASE s = {}
    BY <2>2, TotalEmpty
  <2>3. CASE s # {}
    <3>1. Pick(s) \in s
      BY <2>3, PickMember
    <3>2. Total(f, s) = f[Pick(s)].size + Total(f, s \ {Pick(s)})
      BY <2>1, <2>3 DEF TotalStep
    <3>3. f[Pick(s)].size \in Nat /\ Total(f, s \ {Pick(s)}) \in Nat
      BY <1>1, <3>1 DEF Summable
    <3> QED
      BY <3>2, <3>3
  <2> QED
    BY <2>2, <2>3
<1>2. G = SUBSET S
  <2> HIDE DEF G
  <2>1. G \in SUBSET SUBSET S /\ IsFiniteSet(S)
    BY DEF G, Summable
  <2> QED
    BY <1>1, <2>1, SubsetInduction
<1> QED
  BY <1>2

\* Any element can be added last.
LEMMA TotalRemove ==
    ASSUME NEW f, NEW S, Summable(f, S), NEW e \in S
    PROVE  Total(f, S) = f[e].size + Total(f, S \ {e})
<1> DEFINE Any(s) == \A x \in s : Total(f, s) = f[x].size + Total(f, s \ {x})
           G == {s \in SUBSET S : Any(s)}
<1>1. ASSUME NEW s \in SUBSET S, \A x \in s : s \ {x} \in G PROVE s \in G
  <2> SUFFICES ASSUME NEW x \in s PROVE Total(f, s) = f[x].size + Total(f, s \ {x})
    OBVIOUS
  <2>1. PICK c : c = Pick(s)
    OBVIOUS
  <2>2. c \in s
    BY <2>1, PickMember
  <2>3. TotalStep(f, s)
    BY SummableSubset, TotalRecursion DEF Summable
  <2>4. Total(f, s) = f[c].size + Total(f, s \ {c})
    BY <2>1, <2>3 DEF TotalStep
  <2>5. CASE x = c
    BY <2>4, <2>5
  <2>6. CASE x # c
    <3>1. Any(s \ {c}) /\ Any(s \ {x})
      BY <1>1, <2>2
    <3>2. PICK r : r = (s \ {c}) \ {x}
      OBVIOUS
    <3>3. r = (s \ {x}) \ {c} /\ x \in s \ {c} /\ c \in s \ {x}
      BY <2>2, <2>6, <3>2
    <3>4. Total(f, s \ {c}) = f[x].size + Total(f, r)
      BY <3>1, <3>2, <3>3
    <3>5. Total(f, s \ {x}) = f[c].size + Total(f, r)
      BY <3>1, <3>3
    <3>6. f[x].size \in Nat /\ f[c].size \in Nat
      BY <2>2 DEF Summable
    <3>7. Summable(f, r)
      <4>1. r \in SUBSET S
        BY <3>2
      <4> QED
        BY <4>1, SummableSubset
    <3>8. Total(f, r) \in Nat
      BY <3>7, TotalNat
    <3> QED
      BY <2>4, <3>4, <3>5, <3>6, <3>8
  <2> QED
    BY <2>5, <2>6
<1>2. G = SUBSET S
  <2> HIDE DEF G
  <2>1. G \in SUBSET SUBSET S /\ IsFiniteSet(S)
    BY DEF G, Summable
  <2> QED
    BY <1>1, <2>1, SubsetInduction
<1>3. Any(S)
  BY <1>2
<1> QED
  BY <1>3

\* Two sets without a common element.
LEMMA TotalUnion ==
    ASSUME NEW f, NEW S, NEW T, Summable(f, S), Summable(f, T), S \intersect T = {}
    PROVE  Total(f, S \union T) = Total(f, S) + Total(f, T) /\ Summable(f, S \union T)
<1> DEFINE G == {s \in SUBSET S : Total(f, s \union T) = Total(f, s) + Total(f, T)}
<1>1. Summable(f, S \union T)
  BY FS_Union DEF Summable
<1>2. ASSUME NEW s \in SUBSET S, \A x \in s : s \ {x} \in G PROVE s \in G
  <2>1. CASE s = {}
    <3>1. Total(f, s) = 0 /\ s \union T = T
      BY <2>1, TotalEmpty
    <3>2. Total(f, T) \in Nat
      BY TotalNat
    <3>3. Total(f, s \union T) = Total(f, T)
      BY <3>1
    <3>4. Total(f, s \union T) = Total(f, s) + Total(f, T)
      BY <3>1, <3>2, <3>3
    <3> QED
      BY <3>4
  <2>2. CASE s # {}
    <3>1. PICK x \in s : TRUE
      BY <2>2
    <3>2. /\ Summable(f, s \union T) /\ Summable(f, s) /\ Summable(f, s \ {x})
      BY <1>1, SummableSubset
    <3>3. (s \union T) \ {x} = (s \ {x}) \union T
      BY <3>1
    <3>4. Total(f, s \union T) = f[x].size + Total(f, (s \ {x}) \union T)
      BY <3>1, <3>2, <3>3, TotalRemove
    <3>5. Total(f, s) = f[x].size + Total(f, s \ {x})
      BY <3>1, <3>2, TotalRemove
    <3>6. Total(f, (s \ {x}) \union T) = Total(f, s \ {x}) + Total(f, T)
      BY <1>2, <3>1
    <3>7. f[x].size \in Nat /\ Total(f, s \ {x}) \in Nat /\ Total(f, T) \in Nat
      BY <3>1, <3>2, TotalNat DEF Summable
    <3> QED
      BY <3>4, <3>5, <3>6, <3>7
  <2> QED
    BY <2>1, <2>2
<1>3. G = SUBSET S
  <2> HIDE DEF G
  <2>1. G \in SUBSET SUBSET S /\ IsFiniteSet(S)
    BY DEF G, Summable
  <2> QED
    BY <1>2, <2>1, SubsetInduction
<1> QED
  BY <1>1, <1>3

\* Only the sizes matter.
LEMMA TotalSame ==
    ASSUME NEW f, NEW g, NEW S, IsFiniteSet(S), \A x \in S : f[x].size = g[x].size
    PROVE  Total(f, S) = Total(g, S)
<1> DEFINE G == {s \in SUBSET S : Total(f, s) = Total(g, s)}
<1>1. ASSUME NEW s \in SUBSET S, \A x \in s : s \ {x} \in G PROVE s \in G
  <2>1. TotalStep(f, s) /\ TotalStep(g, s)
    BY FS_Subset, TotalRecursion
  <2>2. s # {} => Pick(s) \in s
    BY PickMember
  <2> QED
    BY <1>1, <2>1, <2>2 DEF TotalStep
<1>2. G = SUBSET S
  <2> HIDE DEF G
  <2>1. G \in SUBSET SUBSET S
    BY DEF G
  <2> QED
    BY <1>1, <2>1, SubsetInduction
<1> QED
  BY <1>2

-----------------------------------------------------------------------------
(* Sizes of trees.                                                         *)

Leaves(D) == {m \in D : IsLeaf(D, m)}
Inner(D) == {m \in D : ~IsLeaf(D, m)}
Roots(D) == {m \in D : IsRoot(m)}
Under(D, s) == {m \in D : \E r \in s : Below(r, m)}
Antichain(s) == \A x, y \in s : Below(x, y) => x = y

\* A split node is as large as its two parts.
Parts(f) == \A n \in Inner(DOMAIN f) : f[n].size = f[Child(n, 0)].size + f[Child(n, 1)].size

\* The trees whose sizes can be added.
Sized(f) == Forest(DOMAIN f) /\ Summable(f, DOMAIN f) /\ Parts(f)

\* s with r replaced by its two parts.
Cut(s, r) == (s \ {r}) \union {Child(r, 0), Child(r, 1)}

\* A cut below r covers what s covers, but r.
LEMMA CutCovers ==
    ASSUME NEW D, Forest(D), NEW s \in SUBSET D, Antichain(s), NEW r \in s, r \in Inner(D)
    PROVE  /\ Cut(s, r) \in SUBSET D /\ Antichain(Cut(s, r))
           /\ Under(D, Cut(s, r)) = Under(D, s) \ {r}
           /\ r \in Names /\ Child(r, 0) \in D /\ Child(r, 1) \in D
           /\ Child(r, 0) \notin s /\ Child(r, 1) \notin s /\ Child(r, 0) # Child(r, 1)
<1> DEFINE c0 == Child(r, 0)
           c1 == Child(r, 1)
           C == {c0, c1}
<1>1. D \subseteq Names /\ r \in Names /\ r \in D
  BY DEF Forest
<1>2. c0 \in D /\ c1 \in D
  BY <1>1 DEF Forest, Inner, IsLeaf
<1>3. \A m \in Names, i \in {0, 1} :
          /\ Below(Child(r, i), m) <=> Below(r, m) /\ Len(m) > Len(r) /\ m[Len(r) + 1] = i
          /\ Below(m, Child(r, i)) <=> Below(m, r) \/ m = Child(r, i)
          /\ Below(r, Child(r, i)) /\ Child(r, i) # r
  BY <1>1, BelowChild, ChildOf
<1>4. c0[Len(r) + 1] = 0 /\ c1[Len(r) + 1] = 1 /\ Len(r) \in Nat
  BY <1>1, ChildName, NameFacts
<1>5. \A c \in C : /\ c \in Names /\ c # r /\ Below(r, c) /\ c \in D
                   /\ \A m \in Names : /\ Below(c, m) => Below(r, m) /\ Len(m) > Len(r)
                                       /\ Below(m, c) <=> Below(m, r) \/ m = c
  BY <1>1, <1>2, <1>3
<1>6. c0 # c1 /\ ~Below(c0, c1) /\ ~Below(c1, c0)
  BY <1>1, <1>2, <1>3, <1>4
<1>7. \A c \in C : c \notin s
  BY <1>5 DEF Antichain
<1>8. Cut(s, r) = (s \ {r}) \union C
  BY DEF Cut
<1>9. \A m \in Names : Below(m, m)
  BY BelowOrder
<1>10. ASSUME NEW m \in D, Below(r, m), m # r PROVE \E c \in C : Below(c, m)
  <2>1. m \in Names
    BY <1>1
  <2>2. m[Len(r) + 1] \in {0, 1} /\ Below(Child(r, m[Len(r) + 1]), m)
    BY <1>1, <1>10, <2>1, NextBelow
  <2> QED
    BY <2>2
<1> HIDE DEF C
<1>11. Antichain(Cut(s, r))
  <2> SUFFICES ASSUME NEW x \in Cut(s, r), NEW y \in Cut(s, r), Below(x, y) PROVE x = y
    BY DEF Antichain
  <2>1. CASE x \in s \ {r} /\ y \in s \ {r}
    BY <2>1 DEF Antichain
  <2>2. CASE x \in s \ {r} /\ y \in C
    <3>1. x \in Names /\ ~Below(x, r)
      BY <1>1, <2>2 DEF Antichain
    <3> QED
      BY <1>5, <2>2, <3>1
  <2>3. CASE x \in C /\ y \in s \ {r}
    <3>1. y \in Names /\ ~Below(r, y)
      BY <1>1, <2>3 DEF Antichain
    <3> QED
      BY <1>5, <2>3, <3>1
  <2>4. CASE x \in C /\ y \in C
    BY <1>6, <2>4 DEF C
  <2> QED
    BY <1>8, <2>1, <2>2, <2>3, <2>4
<1>12. Under(D, Cut(s, r)) = Under(D, s) \ {r}
  <2>1. ASSUME NEW m \in D, NEW x \in Cut(s, r), Below(x, m) PROVE m # r /\ m \in Under(D, s)
    <3>1. CASE x \in s \ {r}
      BY <2>1, <3>1 DEF Antichain, Under
    <3>2. CASE x \in C
      <4>1. Below(r, m) /\ Len(m) > Len(r)
        BY <1>1, <1>5, <2>1, <3>2
      <4> QED
        BY <1>4, <4>1 DEF Under
    <3> QED
      BY <1>8, <3>1, <3>2
  <2>2. ASSUME NEW m \in D, NEW x \in s, Below(x, m), m # r PROVE m \in Under(D, Cut(s, r))
    <3>1. CASE x = r
      BY <1>8, <1>10, <2>2, <3>1 DEF Under
    <3>2. CASE x # r
      BY <1>8, <2>2, <3>2 DEF Under
    <3> QED
      BY <3>1, <3>2
  <2> QED
    BY <2>1, <2>2 DEF Under
<1>13. Cut(s, r) \in SUBSET D
  BY <1>5, <1>8
<1> QED
  BY <1>1, <1>2, <1>6, <1>7, <1>11, <1>12, <1>13 DEF C

\* A cut moves no byte.
LEMMA CutTotal ==
    ASSUME NEW f, Sized(f), NEW s \in SUBSET DOMAIN f, NEW r \in s, r \in Inner(DOMAIN f),
           Child(r, 0) \in DOMAIN f, Child(r, 1) \in DOMAIN f,
           Child(r, 0) \notin s, Child(r, 1) \notin s, Child(r, 0) # Child(r, 1)
    PROVE  Total(f, Cut(s, r)) = Total(f, s)
<1> DEFINE D == DOMAIN f
<1>1. PICK c0 : c0 = Child(r, 0)
  OBVIOUS
<1>2. PICK c1 : c1 = Child(r, 1)
  OBVIOUS
<1>3. PICK q : q = s \ {r}
  OBVIOUS
<1>4. PICK w : w = q \union {c1}
  OBVIOUS
<1>5. PICK u : u = Cut(s, r)
  OBVIOUS
<1>6. /\ u \ {c0} = w /\ c0 \in u /\ w \ {c1} = q /\ c1 \in w
      /\ u \in SUBSET D /\ w \in SUBSET D /\ q \in SUBSET D
  BY <1>1, <1>2, <1>3, <1>4, <1>5 DEF Cut
<1>7. Summable(f, s) /\ Summable(f, u) /\ Summable(f, w) /\ Summable(f, q)
  BY <1>6, SummableSubset DEF Sized
<1>8. Total(f, s) = f[r].size + Total(f, q)
  BY <1>3, <1>7, TotalRemove
<1>9. Total(f, u) = f[c0].size + Total(f, w)
  BY <1>6, <1>7, TotalRemove
<1>10. Total(f, w) = f[c1].size + Total(f, q)
  BY <1>6, <1>7, TotalRemove
<1>11. f[r].size = f[c0].size + f[c1].size
  BY <1>1, <1>2 DEF Sized, Parts
<1>12. f[c0].size \in Nat /\ f[c1].size \in Nat /\ Total(f, q) \in Nat
  BY <1>1, <1>2, <1>7, TotalNat DEF Sized, Summable
<1> QED
  BY <1>5, <1>8, <1>9, <1>10, <1>11, <1>12

\* The leaves under an antichain add up to the antichain.
LEMMA LeavesTotal ==
    ASSUME NEW f, Sized(f), NEW S \in SUBSET DOMAIN f, Antichain(S)
    PROVE  Total(f, Under(DOMAIN f, S) \intersect Leaves(DOMAIN f)) = Total(f, S)
<1>1. PICK D : D = DOMAIN f
  OBVIOUS
<1>2. PICK L : L = Leaves(D)
  OBVIOUS
<1>3. PICK N : N = Inner(D)
  OBVIOUS
<1> DEFINE Right(s) == Total(f, Under(D, s) \intersect L) = Total(f, s)
           Ok(I) == \A s \in SUBSET D : Antichain(s) /\ Under(D, s) \intersect N = I => Right(s)
           G == {I \in SUBSET N : Ok(I)}
<1>4. Forest(D) /\ D \subseteq Names /\ \A m \in Names : Below(m, m)
  BY <1>1, BelowOrder DEF Sized, Forest
<1>5. N \in SUBSET D /\ IsFiniteSet(N) /\ L \in SUBSET D /\ \A m \in D : m \in L <=> m \notin N
  <2>1. IsFiniteSet(D) /\ N \in SUBSET D
    BY <1>1, <1>3 DEF Sized, Summable, Inner
  <2>2. IsFiniteSet(N)
    BY <2>1, FS_Subset
  <2> QED
    BY <1>2, <1>3, <2>1, <2>2 DEF Leaves, Inner
<1>6. ASSUME NEW I \in SUBSET N, \A x \in I : I \ {x} \in G PROVE I \in G
  <2> SUFFICES ASSUME NEW s \in SUBSET D, Antichain(s), Under(D, s) \intersect N = I PROVE Right(s)
    OBVIOUS
  <2>1. \A m \in s : m \in Under(D, s)
    BY <1>4 DEF Under
  <2>2. ASSUME NEW r \in s, NEW m \in D, Below(r, m), r \in L PROVE r = m
    <3>1. IsLeaf(D, r) /\ r \in Names
      BY <1>2, <1>4, <2>2 DEF Leaves
    <3> QED
      BY <1>4, <2>2, <3>1, ForestBelow
  <2>3. CASE I = {}
    <3>1. s \subseteq L
      BY <1>5, <2>1, <2>3
    <3>2. Under(D, s) \intersect L = s
      BY <2>1, <2>2, <3>1 DEF Under
    <3> QED
      BY <3>2
  <2>4. CASE I # {}
    <3>1. PICK r \in s : r \in N
      <4>1. PICK m \in D : m \in I /\ m \in Under(D, s) /\ m \in N
        BY <1>5, <2>4
      <4>2. PICK r \in s : Below(r, m)
        BY <4>1 DEF Under
      <4>3. r \notin L
        BY <1>5, <2>2, <4>1, <4>2
      <4> QED
        BY <1>5, <4>2, <4>3
    <3>2. /\ Cut(s, r) \in SUBSET D /\ Antichain(Cut(s, r))
          /\ Under(D, Cut(s, r)) = Under(D, s) \ {r}
          /\ Child(r, 0) \in D /\ Child(r, 1) \in D
          /\ Child(r, 0) \notin s /\ Child(r, 1) \notin s /\ Child(r, 0) # Child(r, 1)
      BY <1>3, <1>4, <3>1, CutCovers
    <3>3. r \in I /\ Under(D, Cut(s, r)) \intersect N = I \ {r}
      BY <2>1, <3>1, <3>2
    <3>4. Ok(I \ {r})
      BY <1>6, <3>3
    <3>5. Right(Cut(s, r))
      BY <3>2, <3>3, <3>4
    <3>6. Under(D, Cut(s, r)) \intersect L = Under(D, s) \intersect L
      BY <1>5, <3>1, <3>2
    <3>7. Total(f, Cut(s, r)) = Total(f, s)
      BY <1>1, <1>3, <3>1, <3>2, CutTotal
    <3> QED
      BY <3>5, <3>6, <3>7
  <2> QED
    BY <2>3, <2>4
<1>7. G = SUBSET N
  <2> HIDE DEF G
  <2>1. G \in SUBSET SUBSET N
    BY DEF G
  <2> QED
    BY <1>5, <1>6, <2>1, SubsetInduction
<1>8. Under(D, S) \intersect N \in SUBSET N
  OBVIOUS
<1>9. Ok(Under(D, S) \intersect N)
  BY <1>7, <1>8
<1>10. Right(S)
  BY <1>1, <1>9
<1> QED
  BY <1>1, <1>2, <1>10

\* The leaves of all trees add up to the roots.
LEMMA RootsTotal ==
    ASSUME NEW f, Sized(f)
    PROVE  Total(f, Leaves(DOMAIN f)) = Total(f, Roots(DOMAIN f))
<1>1. PICK D : D = DOMAIN f
  OBVIOUS
<1>2. Forest(D) /\ D \subseteq Names
  BY <1>1 DEF Sized, Forest
<1>3. Roots(D) \in SUBSET D /\ \A r \in Roots(D) : r \in Names /\ IsRoot(r)
  BY <1>2 DEF Roots
<1>4. Antichain(Roots(D))
  BY <1>3, RootAlone DEF Antichain
<1>5. ASSUME NEW m \in D PROVE m \in Under(D, Roots(D))
  <2> DEFINE r == <<m[1]>>
  <2>1. m \in Names /\ m[1] \in Block /\ Len(m) \in Nat /\ Len(m) >= 1
    BY <1>2, NameFacts
  <2>2. r \in Names /\ Len(r) = 1 /\ r[1] = m[1]
    BY <2>1, RootName
  <2> HIDE DEF r
  <2>3. Below(r, m)
    BY <2>1, <2>2 DEF Below
  <2>4. r \in D
    BY <1>2, <2>2, <2>3, ForestBelow
  <2> QED
    BY <2>2, <2>3, <2>4 DEF Under, Roots, IsRoot
<1>6. Under(D, Roots(D)) \intersect Leaves(D) = Leaves(D)
  BY <1>5 DEF Leaves
<1>7. Total(f, Under(D, Roots(D)) \intersect Leaves(D)) = Total(f, Roots(D))
  BY <1>1, <1>3, <1>4, LeavesTotal
<1> QED
  BY <1>1, <1>6, <1>7

-----------------------------------------------------------------------------
(* totalSize() is the sum of the whole blocks, split or not.               *)

SizeInv(f, total) == Sized(f) /\ total = Total(f, Roots(DOMAIN f))

\* Chunks in use were asked for with a size and an alignment the caller passes.
ArgInv(used, c) == \A p \in DOMAIN used : used[p].size \in c.Size /\ used[p].align \in c.AlignArg

SumInv == SizeInv(node, mTotalSize) /\ ArgInv(mUsedList, config)

\* g has the nodes of f that are in its domain, as large as they were.
SameSizes(f, g) == \A m \in DOMAIN f \intersect DOMAIN g : g[m].size = f[m].size

\* Nodes go: the blocks that go with them are gone from the total.
LEMMA ShrinkSized ==
    ASSUME NEW f, NEW total, SizeInv(f, total), NEW g, DOMAIN g \subseteq DOMAIN f,
           Forest(DOMAIN g), SameSizes(f, g), NEW Z, Z = Roots(DOMAIN f) \ Roots(DOMAIN g)
    PROVE  SizeInv(g, total - Total(f, Z))
<1>1. PICK D : D = DOMAIN f
  OBVIOUS
<1>2. PICK K : K = DOMAIN g
  OBVIOUS
<1>3. /\ Forest(D) /\ Summable(f, D) /\ Parts(f) /\ K \in SUBSET D /\ Forest(K)
      /\ \A m \in K : g[m].size = f[m].size
      /\ total = Total(f, Roots(D))
  BY <1>1, <1>2 DEF SizeInv, Sized, SameSizes
<1>4. Summable(f, K) /\ Summable(g, K)
  <2>1. Summable(f, K)
    BY <1>3, SummableSubset
  <2> QED
    BY <1>3, <2>1 DEF Summable
<1>5. Parts(g)
  <2> SUFFICES ASSUME NEW n \in Inner(K) PROVE g[n].size = g[Child(n, 0)].size + g[Child(n, 1)].size
    BY <1>2 DEF Parts
  <2>1. n \in K /\ Child(n, 0) \in K /\ Child(n, 1) \in K
    BY <1>3 DEF Inner, IsLeaf, Forest
  <2>2. n \in Inner(D)
    BY <1>3, <2>1 DEF Inner, IsLeaf
  <2> QED
    BY <1>1, <1>3, <2>1, <2>2 DEF Parts
<1>6. PICK A : A = Roots(K)
  OBVIOUS
<1>7. A \in SUBSET D /\ A \in SUBSET K /\ Z \in SUBSET D /\ Roots(D) = A \union Z /\ A \intersect Z = {}
  BY <1>1, <1>2, <1>3, <1>6 DEF Roots
<1>8. Summable(f, A) /\ Summable(f, Z)
  BY <1>3, <1>7, SummableSubset
<1>9. Total(f, Roots(D)) = Total(f, A) + Total(f, Z)
  BY <1>7, <1>8, TotalUnion
<1>10. Total(f, A) \in Nat /\ Total(f, Z) \in Nat
  BY <1>8, TotalNat
<1>11. Total(f, A) = Total(g, A)
  <2>1. IsFiniteSet(A) /\ \A x \in A : f[x].size = g[x].size
    BY <1>3, <1>7, <1>8 DEF Summable
  <2> QED
    BY <2>1, TotalSame
<1>12. total - Total(f, Z) = Total(g, A)
  BY <1>3, <1>9, <1>10, <1>11
<1>13. Sized(g)
  BY <1>2, <1>3, <1>4, <1>5 DEF Sized
<1> QED
  BY <1>2, <1>6, <1>12, <1>13 DEF SizeInv

\* No whole block goes.
LEMMA KeepSized ==
    ASSUME NEW f, NEW total, SizeInv(f, total), NEW g, DOMAIN g \subseteq DOMAIN f,
           Forest(DOMAIN g), SameSizes(f, g), Roots(DOMAIN f) \subseteq DOMAIN g
    PROVE  SizeInv(g, total)
<1>1. Roots(DOMAIN f) \ Roots(DOMAIN g) = {}
  BY DEF Roots
<1>2. SizeInv(g, total - Total(f, {}))
  BY <1>1, ShrinkSized
<1>3. Total(f, {}) = 0
  BY TotalEmpty
<1>4. Summable(f, Roots(DOMAIN f)) /\ total = Total(f, Roots(DOMAIN f))
  <2>1. Roots(DOMAIN f) \in SUBSET DOMAIN f
    BY DEF Roots
  <2> QED
    BY <2>1, SummableSubset DEF SizeInv, Sized
<1>5. total \in Nat
  BY <1>4, TotalNat
<1>6. total - Total(f, {}) = total
  BY <1>3, <1>5
<1> QED
  BY <1>2, <1>6

\* A leaf is split.
LEMMA SplitSized ==
    ASSUME NEW f, NEW total, SizeInv(f, total), NEW n \in DOMAIN f, IsLeaf(DOMAIN f, n),
           NEW s \in Nat, s <= f[n].size, NEW g, SplitsTo(f, g, n, s), Forest(DOMAIN g)
    PROVE  SizeInv(g, total)
<1>1. PICK D : D = DOMAIN f
  OBVIOUS
<1>2. PICK c0 : c0 = Child(n, 0)
  OBVIOUS
<1>3. PICK c1 : c1 = Child(n, 1)
  OBVIOUS
<1>4. PICK K : K = D \union {c0, c1}
  OBVIOUS
<1>5. /\ Forest(D) /\ Summable(f, D) /\ Parts(f) /\ Forest(K) /\ DOMAIN g = K
      /\ \A m \in D : g[m].size = f[m].size
      /\ g[c0].size = s /\ g[c1].size = f[n].size - s
      /\ total = Total(f, Roots(D))
  BY <1>1, <1>2, <1>3, <1>4 DEF SizeInv, Sized, SplitsTo
<1>6. /\ c0 \in Names /\ c1 \in Names /\ c0 \notin D /\ c1 \notin D /\ n \in Names
      /\ \A j \in {0, 1} : Child(c0, j) \notin K /\ Child(c1, j) \notin K
      /\ \A m \in D : m # n => /\ Child(m, 0) # c0 /\ Child(m, 1) # c0
                              /\ Child(m, 0) # c1 /\ Child(m, 1) # c1
  <2>1. n \in D /\ IsLeaf(D, n) /\ n \in Names
    BY <1>1, <1>5 DEF Forest
  <2>2. ASSUME NEW i \in {0, 1}
        PROVE  /\ Child(n, i) \in Names /\ Child(n, i) \notin D
               /\ \A j, k \in {0, 1} : /\ Child(Child(n, i), j) \notin D
                                       /\ Child(Child(n, i), j) # Child(n, k)
               /\ \A m \in D : m # n => Child(m, 0) # Child(n, i) /\ Child(m, 1) # Child(n, i)
    BY <1>5, <2>1, SplitNames
  <2>3. 0 \in {0, 1} /\ 1 \in {0, 1}
    OBVIOUS
  <2> QED
    BY <1>2, <1>3, <1>4, <2>1, <2>2, <2>3
<1>7. ~IsRoot(c0) /\ ~IsRoot(c1)
  <2>1. Len(c0) = Len(n) + 1 /\ Len(c1) = Len(n) + 1 /\ Len(n) \in Nat /\ Len(n) >= 1
    BY <1>2, <1>3, <1>6, ChildName, NameFacts
  <2> QED
    BY <2>1 DEF IsRoot
<1>8. f[n].size \in Nat /\ \A m \in D : f[m].size \in Nat
  BY <1>1, <1>5 DEF Summable
<1>9. Summable(g, K)
  <2>1. IsFiniteSet(D \union {c0})
    BY <1>5, FS_AddElement DEF Summable
  <2>2. IsFiniteSet(K)
    <3>1. K = (D \union {c0}) \union {c1}
      BY <1>4
    <3> QED
      BY <2>1, <3>1, FS_AddElement
  <2>3. f[n].size - s \in Nat
    BY <1>8
  <2> QED
    BY <1>4, <1>5, <1>8, <2>2, <2>3 DEF Summable
<1>10. Parts(g)
  <2> SUFFICES ASSUME NEW m \in Inner(K) PROVE g[m].size = g[Child(m, 0)].size + g[Child(m, 1)].size
    BY <1>5 DEF Parts
  <2>1. m \in D
    BY <1>4, <1>6 DEF Inner, IsLeaf
  <2>2. CASE m = n
    <3>1. g[n].size = f[n].size
      BY <1>5, <2>1, <2>2
    <3>2. f[n].size = s + (f[n].size - s)
      BY <1>8
    <3> QED
      BY <1>2, <1>3, <1>5, <2>2, <3>1, <3>2
  <2>3. CASE m # n
    <3>1. Child(m, 0) \in D /\ Child(m, 1) \in D
      BY <1>4, <1>5, <1>6, <2>1, <2>3 DEF Inner, IsLeaf, Forest
    <3>2. m \in Inner(D)
      BY <2>1, <3>1 DEF Inner, IsLeaf
    <3> QED
      BY <1>1, <1>5, <2>1, <3>1, <3>2 DEF Parts
  <2> QED
    BY <2>2, <2>3
<1>11. Roots(K) = Roots(D)
  BY <1>4, <1>7 DEF Roots
<1>12. Total(f, Roots(D)) = Total(g, Roots(D))
  <2>1. PICK A : A = Roots(D)
    OBVIOUS
  <2>2. A \in SUBSET D
    BY <2>1 DEF Roots
  <2>3. IsFiniteSet(A) /\ \A x \in A : f[x].size = g[x].size
    BY <1>5, <2>2, FS_Subset DEF Summable
  <2> QED
    BY <2>1, <2>3, TotalSame
<1> QED
  BY <1>5, <1>9, <1>10, <1>11, <1>12 DEF SizeInv, Sized

\* A block of s bytes is added.
LEMMA AddSized ==
    ASSUME NEW f, NEW total, SizeInv(f, total), NEW b \in Block, b \notin {Head(n) : n \in DOMAIN f},
           NEW s \in Nat, NEW g, DOMAIN g = DOMAIN f \union {<<b>>},
           \A m \in DOMAIN f : g[m] = f[m], g[<<b>>].size = s, Forest(DOMAIN g)
    PROVE  SizeInv(g, total + s)
<1>1. PICK D : D = DOMAIN f
  OBVIOUS
<1>2. PICK r : r = <<b>>
  OBVIOUS
<1>3. PICK K : K = D \union {r}
  OBVIOUS
<1>4. /\ Forest(D) /\ Summable(f, D) /\ Parts(f) /\ Forest(K) /\ DOMAIN g = K
      /\ \A m \in D : g[m].size = f[m].size /\ f[m].size \in Nat
      /\ g[r].size = s /\ total = Total(f, Roots(D))
  BY <1>1, <1>2, <1>3 DEF SizeInv, Sized, Summable
<1>5. /\ r \in Names /\ r \notin D /\ \A i \in {0, 1} : Child(r, i) \notin D
      /\ \A n \in D, i \in {0, 1} : Child(n, i) # r
  BY <1>1, <1>2, <1>4, FreshNames
<1>6. IsRoot(r) /\ \A i \in {0, 1} : Child(r, i) # r
  BY <1>2, <1>5, RootName, ChildOf DEF IsRoot
<1>7. Summable(g, K)
  <2>1. IsFiniteSet(K)
    BY <1>3, <1>4, FS_AddElement DEF Summable
  <2> QED
    BY <1>3, <1>4, <2>1 DEF Summable
<1>8. Parts(g)
  <2> SUFFICES ASSUME NEW m \in Inner(K) PROVE g[m].size = g[Child(m, 0)].size + g[Child(m, 1)].size
    BY <1>4 DEF Parts
  <2>1. m \in D
    BY <1>3, <1>5, <1>6 DEF Inner, IsLeaf
  <2>2. Child(m, 0) \in D /\ Child(m, 1) \in D
    BY <1>3, <1>4, <1>5, <2>1 DEF Inner, IsLeaf, Forest
  <2>3. m \in Inner(D)
    BY <2>1, <2>2 DEF Inner, IsLeaf
  <2> QED
    BY <1>1, <1>4, <2>1, <2>2, <2>3 DEF Parts
<1>9. PICK A : A = Roots(D)
  OBVIOUS
<1>10. /\ A \in SUBSET D /\ Roots(K) \ {r} = A /\ r \in Roots(K) /\ Roots(K) \in SUBSET K
  BY <1>3, <1>5, <1>6, <1>9 DEF Roots
<1>11. Summable(g, Roots(K)) /\ Summable(f, A)
  BY <1>4, <1>7, <1>10, SummableSubset
<1>12. Total(g, Roots(K)) = s + Total(g, A)
  BY <1>4, <1>10, <1>11, TotalRemove
<1>13. Total(f, A) = Total(g, A)
  <2>1. IsFiniteSet(A) /\ \A x \in A : f[x].size = g[x].size
    BY <1>4, <1>10, <1>11 DEF Summable
  <2> QED
    BY <2>1, TotalSame
<1>14. Total(f, A) \in Nat
  BY <1>11, TotalNat
<1>15. total + s = Total(g, Roots(K))
  BY <1>4, <1>9, <1>12, <1>13, <1>14
<1> QED
  BY <1>4, <1>7, <1>8, <1>15 DEF SizeInv, Sized

-----------------------------------------------------------------------------
(* Bytes.                                                                  *)

\* Two nodes that lists hold do not overlap.
LEMMA LeavesApart ==
    ASSUME NEW f, NEW a, NEW free, NEW H, Core(f, a, free, H), NEW n \in H, NEW m \in H,
           n # m, n[1] = m[1]
    PROVE  Apart(f, n, m)
<1>1. /\ Forest(DOMAIN f) /\ n \in DOMAIN f /\ m \in DOMAIN f /\ n \in Names /\ m \in Names
      /\ IsLeaf(DOMAIN f, n) /\ IsLeaf(DOMAIN f, m)
  BY DEF Core, Alive, Forest
<1>2. ~Below(n, m) /\ ~Below(m, n)
  BY <1>1, ForestBelow
<1> QED
  BY <1>1, <1>2 DEF Core, Layout

LEMMA BytesFacts ==
    ASSUME NEW b, NEW o \in Nat, NEW s \in Nat, NEW x \in Bytes(b, o, s)
    PROVE  x[1] = b /\ x[2] \in Nat /\ o <= x[2] /\ x[2] < o + s /\ x = <<b, x[2]>>
BY DEF Bytes

LEMMA BytesWithin ==
    ASSUME NEW b, NEW o \in Nat, NEW s \in Nat, NEW p \in Nat, NEW t \in Nat,
           p <= o, o + s <= p + t
    PROVE  Bytes(b, o, s) \subseteq Bytes(b, p, t)
<1> SUFFICES ASSUME NEW i \in 0 .. s - 1 PROVE <<b, o + i>> \in Bytes(b, p, t)
  BY DEF Bytes
<1>1. (o - p) + i \in 0 .. t - 1 /\ o + i = p + ((o - p) + i)
  OBVIOUS
<1> QED
  BY <1>1 DEF Bytes

\* Bytes of one node and bytes of another that lists hold.
LEMMA BytesApart ==
    ASSUME NEW f, NEW a, NEW free, NEW H, Core(f, a, free, H), NEW n \in H, NEW m \in H, n # m,
           NEW x, x \in Bytes(n[1], f[n].off, f[n].size), x \in Bytes(m[1], f[m].off, f[m].size)
    PROVE  FALSE
<1>1. /\ f[n].off \in Nat /\ f[n].size \in Nat /\ f[m].off \in Nat /\ f[m].size \in Nat
  BY DEF Core, Alive, Layout
<1>2. /\ x[1] = n[1] /\ x[2] \in Nat /\ f[n].off <= x[2] /\ x[2] < f[n].off + f[n].size
      /\ x[1] = m[1] /\ f[m].off <= x[2] /\ x[2] < f[m].off + f[m].size
  BY <1>1, BytesFacts
<1>3. Apart(f, n, m)
  BY <1>2, LeavesApart
<1> QED
  BY <1>1, <1>2, <1>3 DEF Apart

-----------------------------------------------------------------------------
(* Every way to take a node.                                               *)

\* What a list keeps stays where it is.
SamePlace(f, g, n) == /\ n \in DOMAIN f /\ n \in DOMAIN g
                      /\ g[n].off = f[n].off /\ g[n].size = f[n].size

\* A step of alloc: node u, with room for the request at off, is in no list any more
\* (it may have been in the open group's), and the lists are as they were otherwise.
Taken(u, off, size, align) ==
    /\ u \in Names /\ off \in Nat /\ size \in Nat \ {0} /\ align \in Nat \ {0}
    /\ Use(u, off, size, align)
    /\ Core(node', mAlign, mFreeList', Held(mFreeList', mUsedList, mGroups') \union {u})
    /\ Exclusive(mFreeList', mUsedList, mGroups')
    /\ u \notin Held(mFreeList', mUsedList, mGroups')
    /\ node'[u].off <= off /\ off + size <= node'[u].off + node'[u].size /\ off % align = 0
    /\ \A p \in DOMAIN mUsedList : SamePlace(node, node', mUsedList[p].node)
    /\ mGroups' \in Seq(SUBSET Names) /\ Len(mGroups') = Len(mGroups)
    /\ \A g \in DOMAIN mGroups : \A n \in mGroups[g] :
           /\ SamePlace(node, node', n)
           /\ n \in mGroups'[g] \/ (n = u /\ g = mCurrentFreeList)
    /\ UNCHANGED <<config, mCurrentFreeList, barrier>>

\* The pointer is new.
LEMMA TakenPointer ==
    ASSUME IInv, NEW u, NEW off, NEW size, NEW align, Taken(u, off, size, align)
    PROVE  <<Head(u), off>> \notin DOMAIN mUsedList /\ Head(u) = u[1]
<1>1. Head(u) = u[1]
  BY NameFacts DEF Taken
<1> DEFINE p == <<Head(u), off>>
<1> SUFFICES ASSUME p \in DOMAIN mUsedList PROVE FALSE
  BY <1>1
<1> DEFINE v == mUsedList[p].node
           H == Held(mFreeList', mUsedList, mGroups')
<1>2. v \in H /\ u \notin H
  BY DEF Taken, Held
<1>3. /\ p = <<v[1], p[2]>> /\ p[2] \in Nat /\ mUsedList[p].size \in Nat \ {0}
      /\ node[v].off <= p[2] /\ p[2] + mUsedList[p].size <= node[v].off + node[v].size
  BY DEF IInv, ChunkInv
<1>4. v[1] = u[1] /\ p[2] = off
  BY <1>1, <1>3
<1>5. node'[v].off = node[v].off /\ node'[v].size = node[v].size
  BY DEF Taken, SamePlace
<1>6. Core(node', mAlign, mFreeList', H \union {u})
  BY DEF Taken
<1>7. /\ node'[u].off <= off /\ off + size <= node'[u].off + node'[u].size
      /\ off \in Nat /\ size \in Nat \ {0}
  BY DEF Taken
<1> HIDE DEF p, v, H
<1>8. Apart(node', u, v)
  BY <1>2, <1>4, <1>6, LeavesApart
<1>9. /\ node'[u].off \in Nat /\ node'[u].size \in Nat /\ node'[v].off \in Nat /\ node'[v].size \in Nat
  BY <1>2, <1>6 DEF Core, Alive, Layout
<1> QED
  BY <1>3, <1>4, <1>5, <1>7, <1>8, <1>9 DEF Apart

LEMMA TakenKeeps ==
    ASSUME IInv, NEW u, NEW off, NEW size, NEW align, Taken(u, off, size, align)
    PROVE  IInv'
<1> DEFINE p == <<u[1], off>>
           w == [node |-> u, size |-> size, align |-> align, group |-> mCurrentFreeList]
           H == Held(mFreeList', mUsedList, mGroups')
<1>1. p \notin DOMAIN mUsedList /\ Head(u) = u[1]
  BY TakenPointer
<1>2. /\ u \in Names /\ off \in Nat /\ size \in Nat \ {0} /\ align \in Nat \ {0}
      /\ Core(node', mAlign, mFreeList', H \union {u})
      /\ Exclusive(mFreeList', mUsedList, mGroups') /\ u \notin H
      /\ node'[u].off <= off /\ off + size <= node'[u].off + node'[u].size /\ off % align = 0
      /\ \A q \in DOMAIN mUsedList : SamePlace(node, node', mUsedList[q].node)
      /\ mGroups' \in Seq(SUBSET Names) /\ Len(mGroups') = Len(mGroups)
      /\ \A g \in DOMAIN mGroups : \A n \in mGroups[g] :
             /\ SamePlace(node, node', n)
             /\ n \in mGroups'[g] \/ (n = u /\ g = mCurrentFreeList)
      /\ config' = config /\ mCurrentFreeList' = mCurrentFreeList /\ barrier' = barrier
  BY DEF Taken
<1>3. /\ PhaseInv /\ ChunkInv /\ GroupInv
      /\ Core(node, mAlign, mFreeList, Held(mFreeList, mUsedList, mGroups))
  BY DEF IInv
<1>4. /\ mUsedList' = Insert(mUsedList, p, w)
      /\ groupBytes' = IF mCurrentFreeList = 0 THEN groupBytes
                       ELSE [groupBytes EXCEPT ![mCurrentFreeList] = @ \union Bytes(u[1], off, size)]
  BY <1>1 DEF Taken, Use
<1>5. /\ DOMAIN mUsedList' = DOMAIN mUsedList \union {p}
      /\ \A q \in DOMAIN mUsedList : mUsedList'[q] = mUsedList[q]
      /\ mUsedList'[p] = w
  BY <1>1, <1>4 DEF Insert
<1>6. Held(mFreeList', mUsedList', mGroups') = H \union {u}
  <2>1. {mUsedList'[q].node : q \in DOMAIN mUsedList'} = {mUsedList[q].node : q \in DOMAIN mUsedList} \union {u}
    BY <1>5
  <2> QED
    BY <2>1 DEF Held
<1>7. mAlign' = mAlign /\ MaxGroups' = MaxGroups
  BY <1>2 DEF mAlign, MaxGroups
<1>8. Core(node', mAlign', mFreeList', Held(mFreeList', mUsedList', mGroups'))
  BY <1>2, <1>6, <1>7
<1>9. /\ DOMAIN mGroups = 1 .. Len(mGroups) /\ DOMAIN mGroups' = 1 .. Len(mGroups)
      /\ Len(mGroups) \in Nat /\ mCurrentFreeList \in 0 .. Len(mGroups)
      /\ DOMAIN groupBytes = 1 .. Len(mGroups) /\ groupBytes \in Seq(SUBSET (Block \X Nat))
  BY <1>2, <1>3 DEF PhaseInv
<1>10. /\ w.node = u /\ w.size = size /\ w.align = align /\ w.group = mCurrentFreeList
       /\ w \in [node : Names, size : Nat \ {0}, align : Nat \ {0}, group : 0 .. Len(mGroups')]
  BY <1>2, <1>9
<1> HIDE DEF w, H
<1>11. Exclusive(mFreeList, mUsedList, mGroups)'
  <2>1. /\ u \notin mFreeList' /\ \A g \in DOMAIN mGroups' : u \notin mGroups'[g]
        /\ \A q \in DOMAIN mUsedList : mUsedList[q].node # u
    BY <1>2 DEF H, Held
  <2> HIDE DEF p
  <2> QED
    BY <1>2, <1>5, <1>10, <2>1 DEF Exclusive
<1>12. ChunkInv'
  <2>1. ASSUME NEW q \in DOMAIN mUsedList
        PROVE  LET v == mUsedList'[q]
               IN  /\ v \in [node : Names, size : Nat \ {0}, align : Nat \ {0}, group : 0 .. Len(mGroups')]
                   /\ q = <<v.node[1], q[2]>> /\ q[2] \in Nat
                   /\ node'[v.node].off <= q[2]
                   /\ q[2] + v.size <= node'[v.node].off + node'[v.node].size
                   /\ q[2] % v.align = 0
    BY <1>2, <1>3, <1>5 DEF ChunkInv, SamePlace
  <2>2. p = <<u[1], p[2]>> /\ p[2] = off
    OBVIOUS
  <2> HIDE DEF p
  <2>3. LET v == mUsedList'[p]
        IN  /\ v \in [node : Names, size : Nat \ {0}, align : Nat \ {0}, group : 0 .. Len(mGroups')]
            /\ p = <<v.node[1], p[2]>> /\ p[2] \in Nat
            /\ node'[v.node].off <= p[2]
            /\ p[2] + v.size <= node'[v.node].off + node'[v.node].size
            /\ p[2] % v.align = 0
    BY <1>2, <1>5, <1>9, <1>10, <2>2
  <2> QED
    BY <1>5, <2>1, <2>3 DEF ChunkInv
<1>13. Bytes(u[1], off, size) \in SUBSET (Block \X Nat)
  BY <1>2, NameFacts DEF Bytes
<1>14. PhaseInv'
  <2>1. groupBytes' \in Seq(SUBSET (Block \X Nat)) /\ Len(groupBytes') = Len(mGroups)
    <3>1. CASE mCurrentFreeList = 0
      BY <1>3, <1>4, <3>1 DEF PhaseInv
    <3>2. CASE mCurrentFreeList # 0
      <4> DEFINE nb == groupBytes[mCurrentFreeList] \union Bytes(u[1], off, size)
      <4>1. mCurrentFreeList \in 1 .. Len(groupBytes) /\ Len(groupBytes) = Len(mGroups)
        BY <1>3, <1>9, <3>2 DEF PhaseInv
      <4>2. nb \in SUBSET (Block \X Nat)
        BY <1>9, <1>13, <4>1
      <4>3. groupBytes' = [groupBytes EXCEPT ![mCurrentFreeList] = nb]
        BY <1>4, <3>2
      <4> HIDE DEF nb
      <4> QED
        BY <1>9, <4>1, <4>2, <4>3
    <3> QED
      BY <3>1, <3>2
  <2>2. barrier = "none" => mGroups' = << >>
    BY <1>2, <1>3 DEF PhaseInv
  <2> QED
    BY <1>2, <1>3, <1>7, <1>9, <2>1, <2>2 DEF PhaseInv
<1>15. ASSUME NEW g \in DOMAIN mGroups, NEW n \in DOMAIN node, Owns(g, n), NEW x \in NodeBytes(n)
       PROVE  /\ n \in H \union {u} /\ (n = u => g = mCurrentFreeList)
              /\ Owns(g, n)' /\ x \in NodeBytes(n)' /\ SamePlace(node, node', n)
              /\ x \in Bytes(n[1], node'[n].off, node'[n].size)
  <2>1. SamePlace(node, node', n)
    BY <1>2, <1>15 DEF Owns
  <2>2. n \in Names
    BY <1>3 DEF Core, Forest
  <2>3. x \in NodeBytes(n)' /\ x \in Bytes(n[1], node'[n].off, node'[n].size)
    BY <2>1, <2>2, NameFacts DEF NodeBytes, SamePlace
  <2>4. CASE n \in mGroups[g]
    <3>1. n \in mGroups'[g] \/ (n = u /\ g = mCurrentFreeList)
      BY <1>2, <2>4
    <3>2. n \in mGroups'[g] => n \in H
      BY <1>9 DEF H, Held
    <3>3. (n = u /\ g = mCurrentFreeList) => Owns(g, n)'
      BY <1>5, <1>10 DEF Owns
    <3> QED
      BY <1>2, <2>1, <2>3, <3>1, <3>2, <3>3 DEF Owns
  <2>5. CASE n \notin mGroups[g]
    <3>1. PICK q \in DOMAIN mUsedList : mUsedList[q].node = n /\ mUsedList[q].group = g
      BY <1>15, <2>5 DEF Owns
    <3>2. n \in H
      BY <3>1 DEF H, Held
    <3>3. Owns(g, n)'
      BY <1>5, <3>1 DEF Owns
    <3> QED
      BY <1>2, <2>1, <2>3, <3>2, <3>3
  <2> QED
    BY <2>4, <2>5
<1>16. CASE mCurrentFreeList = 0
  <2>1. groupBytes' = groupBytes
    BY <1>4, <1>16
  <2>2. GroupsDisjoint'
    BY <1>3, <2>1 DEF GroupInv, GroupsDisjoint
  <2>3. ASSUME barrier = "open", NEW g \in DOMAIN groupBytes, NEW x \in groupBytes[g]
        PROVE  \E n \in DOMAIN node' : Owns(g, n)' /\ x \in NodeBytes(n)'
    <3>1. PICK n \in DOMAIN node : Owns(g, n) /\ x \in NodeBytes(n)
      BY <1>3, <2>3 DEF GroupInv
    <3>2. Owns(g, n)' /\ x \in NodeBytes(n)' /\ SamePlace(node, node', n)
      BY <1>9, <1>15, <3>1
    <3> QED
      BY <3>2 DEF SamePlace
  <2> QED
    BY <1>2, <1>8, <1>11, <1>12, <1>14, <2>1, <2>2, <2>3 DEF IInv, GroupInv
<1>17. CASE mCurrentFreeList # 0
  <2> DEFINE new == Bytes(u[1], off, size)
  <2>0. PICK c : c = mCurrentFreeList
    OBVIOUS
  <2>1. barrier = "open" /\ c \in DOMAIN mGroups
    BY <1>3, <1>9, <1>17, <2>0 DEF PhaseInv
  <2>2. /\ DOMAIN groupBytes' = DOMAIN groupBytes
        /\ groupBytes'[c] = groupBytes[c] \union new
        /\ \A g \in DOMAIN groupBytes : g # c => groupBytes'[g] = groupBytes[g]
    BY <1>4, <1>9, <1>17, <2>0, <2>1
  <2>3. /\ u \in DOMAIN node' /\ node'[u].off \in Nat /\ node'[u].size \in Nat
    BY <1>2 DEF Core, Alive, Layout
  <2>4. new \subseteq Bytes(u[1], node'[u].off, node'[u].size)
    BY <1>2, <2>3, BytesWithin
  <2>5. Owns(c, u)'
    BY <1>5, <1>10, <2>0 DEF Owns
  <2>6. NodeBytes(u)' = Bytes(u[1], node'[u].off, node'[u].size)
    BY <1>1 DEF NodeBytes
  <2> HIDE DEF new
  <2>7. ASSUME NEW g \in DOMAIN groupBytes, NEW x \in groupBytes[g]
        PROVE  \E n \in DOMAIN node' : /\ Owns(g, n)' /\ x \in NodeBytes(n)'
                                       /\ g # c => x \notin new
    <3>1. PICK n \in DOMAIN node : Owns(g, n) /\ x \in NodeBytes(n)
      BY <1>3, <2>1, <2>7 DEF GroupInv
    <3>2. /\ Owns(g, n)' /\ x \in NodeBytes(n)' /\ n \in DOMAIN node'
          /\ n \in H \union {u} /\ (n = u => g = mCurrentFreeList)
          /\ x \in Bytes(n[1], node'[n].off, node'[n].size)
      BY <1>9, <1>15, <3>1 DEF SamePlace
    <3>3. ASSUME g # c, x \in new PROVE FALSE
      <4>1. n # u
        BY <2>0, <3>2, <3>3
      <4>2. x \in Bytes(u[1], node'[u].off, node'[u].size)
        BY <2>4, <3>3
      <4> QED
        BY <1>2, <3>2, <4>1, <4>2, BytesApart
    <3> QED
      BY <3>2, <3>3
  <2>8. ASSUME NEW g \in DOMAIN groupBytes, NEW x \in groupBytes'[g]
        PROVE  \E n \in DOMAIN node' : Owns(g, n)' /\ x \in NodeBytes(n)'
    <3>1. CASE x \in groupBytes[g]
      BY <2>7, <3>1
    <3>2. CASE x \notin groupBytes[g]
      <4>1. g = c /\ x \in new
        BY <2>2, <2>8, <3>2
      <4> QED
        BY <2>3, <2>4, <2>5, <2>6, <4>1
    <3> QED
      BY <3>1, <3>2
  <2>9. ASSUME NEW g \in DOMAIN groupBytes, NEW h \in DOMAIN groupBytes, g # h,
               NEW x \in groupBytes'[g], x \in groupBytes'[h]
        PROVE  FALSE
    <3>1. ~(x \in groupBytes[g] /\ x \in groupBytes[h])
      BY <1>3, <2>9 DEF GroupInv, GroupsDisjoint
    <3>2. g # c => x \in groupBytes[g]
      BY <2>2, <2>9
    <3>3. h # c => x \in groupBytes[h]
      BY <2>2, <2>9
    <3>4. CASE g = c
      <4>1. x \in new /\ x \in groupBytes[h]
        BY <2>2, <2>9, <3>1, <3>3, <3>4
      <4> QED
        BY <2>7, <2>9, <3>4, <4>1
    <3>5. CASE h = c
      <4>1. x \in new /\ x \in groupBytes[g]
        BY <2>2, <2>9, <3>1, <3>2, <3>5
      <4> QED
        BY <2>7, <2>9, <3>5, <4>1
    <3> QED
      BY <3>1, <3>2, <3>3, <3>4, <3>5
  <2>10. GroupsDisjoint'
    BY <2>2, <2>9 DEF GroupsDisjoint
  <2>11. GroupInv'
    BY <2>2, <2>8, <2>10 DEF GroupInv
  <2> QED
    BY <1>8, <1>11, <1>12, <1>14, <2>11 DEF IInv
<1> QED
  BY <1>16, <1>17

\* Where a request goes in a node that is large enough for it.
LEMMA PlaceFacts ==
    ASSUME NEW n, node[n].off \in Nat, node[n].size \in Nat, node[n].off % mAlign = 0,
           mAlign \in Nat \ {0}, NEW size \in Nat \ {0}, NEW align \in Nat \ {0},
           node[n].size >= RealSize(size, align)
    PROVE  /\ AlignedOff(n, align) \in Nat /\ AlignedOff(n, align) % align = 0
           /\ node[n].off <= AlignedOff(n, align)
           /\ AlignedOff(n, align) + size <= node[n].off + node[n].size
           /\ SizeAlign(n, size, align) \in Nat /\ SizeAlign(n, size, align) % mAlign = 0
           /\ AlignedOff(n, align) + size <= node[n].off + SizeAlign(n, size, align)
<1> DEFINE A == AlignedOff(n, align)
           x == size + A - node[n].off
<1>1. /\ A \in Nat /\ A % align = 0 /\ node[n].off <= A
      /\ A + size <= node[n].off + node[n].size
  <2>1. CASE NeedExtraSize(align)
    <3>1. A = UpTo(node[n].off, align) /\ node[n].size >= size + align - 1
      BY <2>1 DEF AlignedOff, RealSize
    <3>2. A \in Nat /\ A >= node[n].off /\ A < node[n].off + align /\ A % align = 0
      BY <3>1, UpToFacts
    <3> HIDE DEF A
    <3> QED
      BY <3>1, <3>2
  <2>2. CASE ~NeedExtraSize(align)
    <3>1. A = node[n].off /\ node[n].size >= size
      BY <2>2 DEF AlignedOff, RealSize
    <3>2. A % align = 0
      BY <2>2, <3>1, ModTrans DEF NeedExtraSize
    <3> QED
      BY <3>1, <3>2
  <2> QED
    BY <2>1, <2>2
<1>2. SizeAlign(n, size, align) = UpTo(x, mAlign)
  BY DEF SizeAlign
<1> HIDE DEF A
<1>3. x \in Nat
  BY <1>1
<1>4. UpTo(x, mAlign) \in Nat /\ UpTo(x, mAlign) >= x /\ UpTo(x, mAlign) % mAlign = 0
  BY <1>3, UpToFacts
<1>5. A + size <= node[n].off + UpTo(x, mAlign)
  <2>1. PICK y \in Nat : y = UpTo(x, mAlign)
    BY <1>4
  <2> QED
    BY <1>1, <1>4, <2>1
<1> QED
  BY <1>1, <1>2, <1>4, <1>5 DEF A

\* The requests and the allocator are those EagerAssumption describes.
LEMMA ConfigFacts ==
    ASSUME PhaseInv
    PROVE  /\ mAlign \in Nat \ {0} /\ mMinAllocSize \in Nat /\ mMinAllocSize % mAlign = 0
           /\ config.Size \subseteq Nat \ {0} /\ config.AlignArg \subseteq Nat \ {0}
           /\ \A o \in config.Offset : o \in Nat /\ o % mAlign = 0
           /\ MaxGroups \in Nat /\ (mMinAllocSize = 0 \/ MaxGroups = 0)
BY EagerAssumption DEF PhaseInv, mAlign, mMinAllocSize, MaxGroups

\* What the invariant says of the lists.
LEMMA ListFacts ==
    ASSUME IInv
    PROVE  /\ Forest(DOMAIN node)
           /\ \A n \in DOMAIN node : /\ n \in Names /\ node[n].off \in Nat /\ node[n].size \in Nat
                                     /\ node[n].off % mAlign = 0
                                     /\ node[n] \in [off : Nat, size : Nat, useCount : Int]
           /\ \A n \in mFreeList : n \in DOMAIN node /\ IsLeaf(DOMAIN node, n)
           /\ \A p \in DOMAIN mUsedList : /\ mUsedList[p].node \in DOMAIN node
                                          /\ IsLeaf(DOMAIN node, mUsedList[p].node)
                                          /\ mUsedList[p].node \notin mFreeList
           /\ \A g \in DOMAIN mGroups : \A n \in mGroups[g] :
                  n \in DOMAIN node /\ IsLeaf(DOMAIN node, n) /\ n \notin mFreeList
           /\ DOMAIN mGroups = 1 .. Len(mGroups) /\ mGroups \in Seq(SUBSET Names) /\ Len(mGroups) \in Nat
           /\ mCurrentFreeList \in 0 .. Len(mGroups)
<1>1. Core(node, mAlign, mFreeList, Held(mFreeList, mUsedList, mGroups))
  BY DEF IInv
<1>2. Forest(DOMAIN node) /\ Layout(node, mAlign)
  BY <1>1 DEF Core
<1>3. \A h \in Held(mFreeList, mUsedList, mGroups) : h \in DOMAIN node /\ IsLeaf(DOMAIN node, h)
  BY <1>1 DEF Core, Alive
<1>4. \A n \in DOMAIN node : n \in Names
  BY <1>2 DEF Forest
<1>5. \A n \in DOMAIN node : /\ node[n].off \in Nat /\ node[n].size \in Nat
                             /\ node[n].off % mAlign = 0
                             /\ node[n] \in [off : Nat, size : Nat, useCount : Int]
  BY <1>2 DEF Layout
<1>6. Exclusive(mFreeList, mUsedList, mGroups)
  BY DEF IInv
<1>7. /\ mGroups \in Seq(SUBSET Names) /\ mCurrentFreeList \in 0 .. Len(mGroups)
      /\ DOMAIN mGroups = 1 .. Len(mGroups) /\ Len(mGroups) \in Nat
  BY DEF IInv, PhaseInv
<1> QED
  BY <1>2, <1>3, <1>4, <1>5, <1>6, <1>7 DEF Held, Exclusive

\* Being in a list.
LEMMA HeldMember ==
    ASSUME NEW free, NEW used, NEW groups, NEW m
    PROVE  m \in Held(free, used, groups) <=>
               \/ m \in free
               \/ \E p \in DOMAIN used : used[p].node = m
               \/ \E g \in DOMAIN groups : m \in groups[g]
BY DEF Held

\* g is f with the count of the parent of n changed by d.
CountsBy(f, g, n, d) ==
    /\ DOMAIN g = DOMAIN f
    /\ \A m \in DOMAIN f : /\ g[m].off = f[m].off /\ g[m].size = f[m].size
                           /\ g[m] \in [off : Nat, size : Nat, useCount : Int]
                           /\ g[m].useCount = f[m].useCount + Told(n, m) * d

\* The count of the parent of n goes up by d.
LEMMA CountedFacts ==
    ASSUME NEW f, NEW n \in DOMAIN f, Forest(DOMAIN f), NEW d \in Int,
           \A m \in DOMAIN f : f[m] \in [off : Nat, size : Nat, useCount : Int],
           NEW g, g = IF IsRoot(n) THEN f ELSE Counted(f, Parent(n), d)
    PROVE  CountsBy(f, g, n, d)
<1>1. CASE IsRoot(n)
  BY <1>1 DEF Told, CountsBy
<1>2. CASE ~IsRoot(n)
  <2> DEFINE q == Parent(n)
  <2>1. q \in DOMAIN f
    BY <1>2, ParentFacts DEF Forest
  <2>2. g = [f EXCEPT ![q] = [f[q] EXCEPT !.useCount = f[q].useCount + d]]
    BY <1>2 DEF Counted
  <2>3. f[q] \in [off : Nat, size : Nat, useCount : Int] /\ f[q].useCount + d \in Int
    BY <2>1
  <2> HIDE DEF q
  <2>4. /\ g[q].off = f[q].off /\ g[q].size = f[q].size
        /\ g[q] \in [off : Nat, size : Nat, useCount : Int]
        /\ g[q].useCount = f[q].useCount + d
    BY <2>1, <2>2, <2>3
  <2>5. DOMAIN g = DOMAIN f /\ \A m \in DOMAIN f : m # q => g[m] = f[m]
    BY <2>1, <2>2
  <2>6. Told(n, q) = 1 /\ \A m : m # q => Told(n, m) = 0
    BY <1>2 DEF Told, q
  <2>7. ASSUME NEW m \in DOMAIN f, m # q
        PROVE  g[m].useCount = f[m].useCount + Told(n, m) * d
    BY <2>5, <2>6, <2>7
  <2>8. g[q].useCount = f[q].useCount + Told(n, q) * d
    BY <2>4, <2>6
  <2> QED
    BY <2>4, <2>5, <2>7, <2>8 DEF CountsBy
<1> QED
  BY <1>1, <1>2

LEMMA TakeFromGroupKeeps ==
    ASSUME IInv, NEW size \in config.Size, NEW align \in config.AlignArg,
           mCurrentFreeList # 0, TakeFromGroup(size, align), UNCHANGED config
    PROVE  IInv'
<1> DEFINE c == mCurrentFreeList
<1>1. PICK n \in LowerBound(mGroups[c], size, align) :
          /\ Use(n, AlignedOff(n, align), size, align)
          /\ mGroups' = [mGroups EXCEPT ![c] = mGroups[c] \ {n}]
  BY DEF TakeFromGroup
<1>2. UNCHANGED <<node, mFreeList, mCurrentFreeList, mTotalSize, barrier>>
  BY DEF TakeFromGroup
<1>3. /\ mAlign \in Nat \ {0} /\ size \in Nat \ {0} /\ align \in Nat \ {0}
  BY ConfigFacts DEF IInv
<1>4. /\ c \in DOMAIN mGroups /\ mGroups \in Seq(SUBSET Names) /\ DOMAIN mGroups = 1 .. Len(mGroups)
      /\ Len(mGroups) \in Nat
  BY ListFacts
<1>5. n \in mGroups[c] /\ node[n].size >= RealSize(size, align)
  BY <1>1 DEF LowerBound
<1>6. /\ n \in Names /\ n \in DOMAIN node /\ node[n].off \in Nat /\ node[n].size \in Nat
      /\ node[n].off % mAlign = 0 /\ n \notin mFreeList
  BY <1>4, <1>5, ListFacts
<1>7. /\ AlignedOff(n, align) \in Nat /\ AlignedOff(n, align) % align = 0
      /\ node[n].off <= AlignedOff(n, align)
      /\ AlignedOff(n, align) + size <= node[n].off + node[n].size
  BY <1>3, <1>5, <1>6, PlaceFacts
<1>8. /\ mGroups' \in Seq(SUBSET Names) /\ Len(mGroups') = Len(mGroups)
      /\ DOMAIN mGroups' = DOMAIN mGroups /\ mGroups'[c] = mGroups[c] \ {n}
      /\ \A g \in DOMAIN mGroups : g # c => mGroups'[g] = mGroups[g]
  <2>1. mGroups[c] \ {n} \in SUBSET Names
    BY <1>4
  <2> QED
    BY <1>1, <1>4, <2>1
<1>9. /\ Exclusive(mFreeList, mUsedList, mGroups)
      /\ Core(node, mAlign, mFreeList, Held(mFreeList, mUsedList, mGroups))
  BY DEF IInv
<1> HIDE DEF c
<1>10. /\ \A g \in DOMAIN mGroups' : n \notin mGroups'[g] /\ mGroups'[g] \subseteq mGroups[g]
       /\ \A p \in DOMAIN mUsedList : mUsedList[p].node # n
  BY <1>4, <1>5, <1>8, <1>9 DEF Exclusive
<1>11. Exclusive(mFreeList', mUsedList, mGroups')
  <2>1. \A g, h \in DOMAIN mGroups' : g # h => mGroups'[g] \intersect mGroups'[h] = {}
    BY <1>8, <1>9, <1>10 DEF Exclusive
  <2> QED
    BY <1>2, <1>8, <1>9, <1>10, <2>1 DEF Exclusive
<1>12. n \notin Held(mFreeList', mUsedList, mGroups')
  BY <1>2, <1>6, <1>10 DEF Held
<1>13. Held(mFreeList', mUsedList, mGroups') \union {n} = Held(mFreeList, mUsedList, mGroups)
  <2> SUFFICES ASSUME NEW m
               PROVE  m \in Held(mFreeList', mUsedList, mGroups') \union {n}
                          <=> m \in Held(mFreeList, mUsedList, mGroups)
    OBVIOUS
  <2>1. m # n => ((\E g \in DOMAIN mGroups' : m \in mGroups'[g]) <=> \E g \in DOMAIN mGroups : m \in mGroups[g])
    BY <1>8
  <2>2. n \in Held(mFreeList, mUsedList, mGroups)
    BY <1>4, <1>5, HeldMember
  <2> QED
    BY <1>2, <2>1, <2>2, HeldMember
<1>14. Core(node', mAlign, mFreeList', Held(mFreeList', mUsedList, mGroups') \union {n})
  BY <1>2, <1>9, <1>13
<1>15. \A p \in DOMAIN mUsedList : SamePlace(node, node', mUsedList[p].node)
  BY <1>2, ListFacts DEF SamePlace
<1>16. \A g \in DOMAIN mGroups : \A m \in mGroups[g] :
           /\ SamePlace(node, node', m)
           /\ m \in mGroups'[g] \/ (m = n /\ g = mCurrentFreeList)
  <2>1. \A g \in DOMAIN mGroups : \A m \in mGroups[g] : SamePlace(node, node', m)
    BY <1>2, ListFacts DEF SamePlace
  <2>2. \A g \in DOMAIN mGroups : \A m \in mGroups[g] : m \in mGroups'[g] \/ (m = n /\ g = c)
    BY <1>8
  <2> QED
    BY <2>1, <2>2 DEF c
<1>17. node'[n].off = node[n].off /\ node'[n].size = node[n].size
  BY <1>2
<1>18. Taken(n, AlignedOff(n, align), size, align)
  BY <1>1, <1>2, <1>3, <1>6, <1>7, <1>8, <1>11, <1>12, <1>14, <1>15, <1>16, <1>17 DEF Taken
<1> QED
  BY <1>18, TakenKeeps

\* The lists other than mFreeList after a node of mFreeList was taken or split, or a block
\* was added: they are as they were, and what they hold stayed where it was.
LEMMA OthersKept ==
    ASSUME IInv, NEW free, UNCHANGED mGroups,
           \A n \in free : n \in mFreeList \/ n \notin DOMAIN node,
           \A n \in DOMAIN node : /\ n \in DOMAIN node' /\ node'[n].off = node[n].off
                                  /\ node'[n].size = node[n].size
    PROVE  /\ Exclusive(free, mUsedList, mGroups')
           /\ \A p \in DOMAIN mUsedList : SamePlace(node, node', mUsedList[p].node)
           /\ mGroups' \in Seq(SUBSET Names) /\ Len(mGroups') = Len(mGroups)
           /\ \A g \in DOMAIN mGroups : \A n \in mGroups[g] :
                  SamePlace(node, node', n) /\ n \in mGroups'[g]
<1>1. Exclusive(mFreeList, mUsedList, mGroups)
  BY DEF IInv
<1>2. /\ \A p \in DOMAIN mUsedList : mUsedList[p].node \in DOMAIN node
      /\ \A g \in DOMAIN mGroups : \A n \in mGroups[g] : n \in DOMAIN node
      /\ mGroups \in Seq(SUBSET Names)
  BY ListFacts
<1>3. Exclusive(free, mUsedList, mGroups)
  <2>1. \A g \in DOMAIN mGroups : mGroups[g] \intersect free = {}
    BY <1>1, <1>2 DEF Exclusive
  <2>2. \A p \in DOMAIN mUsedList : mUsedList[p].node \notin free
    BY <1>1, <1>2 DEF Exclusive
  <2> QED
    BY <1>1, <2>1, <2>2 DEF Exclusive
<1> QED
  BY <1>2, <1>3 DEF SamePlace

\* A node of mFreeList, or outside every list, is not held by the others.
LEMMA NotHeldElsewhere ==
    ASSUME IInv, NEW n, n \in mFreeList \/ n \notin DOMAIN node
    PROVE  /\ \A p \in DOMAIN mUsedList : mUsedList[p].node # n
           /\ \A g \in DOMAIN mGroups : n \notin mGroups[g]
BY ListFacts

LEMMA TakeWholeKeeps ==
    ASSUME IInv, NEW size \in config.Size, NEW align \in config.AlignArg,
           NEW n \in LowerBound(mFreeList, size, align), TakeWhole(n, size, align),
           UNCHANGED <<config, mGroups, mCurrentFreeList, barrier>>
    PROVE  IInv'
<1>1. /\ mAlign \in Nat \ {0} /\ size \in Nat \ {0} /\ align \in Nat \ {0}
  BY ConfigFacts DEF IInv
<1>2. n \in mFreeList /\ node[n].size >= RealSize(size, align)
  BY DEF LowerBound
<1>3. /\ n \in Names /\ n \in DOMAIN node /\ node[n].off \in Nat /\ node[n].size \in Nat
      /\ node[n].off % mAlign = 0 /\ Forest(DOMAIN node)
      /\ \A m \in DOMAIN node : node[m] \in [off : Nat, size : Nat, useCount : Int]
  BY <1>2, ListFacts
<1>4. /\ AlignedOff(n, align) \in Nat /\ AlignedOff(n, align) % align = 0
      /\ node[n].off <= AlignedOff(n, align)
      /\ AlignedOff(n, align) + size <= node[n].off + node[n].size
  BY <1>1, <1>2, <1>3, PlaceFacts
<1>5. /\ Use(n, AlignedOff(n, align), size, align)
      /\ mFreeList' = mFreeList \ {n}
      /\ node' = IF IsRoot(n) THEN node ELSE Counted(node, Parent(n), 1)
  BY DEF TakeWhole, TakeWholeCounting
<1>6. /\ DOMAIN node' = DOMAIN node
      /\ \A m \in DOMAIN node : /\ node'[m].off = node[m].off /\ node'[m].size = node[m].size
                                /\ node'[m] \in [off : Nat, size : Nat, useCount : Int]
                                /\ node'[m].useCount = node[m].useCount + Told(n, m) * 1
  <2>1. CountsBy(node, node', n, 1)
    BY <1>3, <1>5, CountedFacts
  <2> QED
    BY <2>1 DEF CountsBy
<1>7. \A m \in DOMAIN node : node'[m].useCount = node[m].useCount + Told(n, m)
  <2>1. \A m : Told(n, m) * 1 = Told(n, m)
    BY DEF Told
  <2> QED
    BY <1>6, <2>1
<1>8. Core(node, mAlign, mFreeList, Held(mFreeList, mUsedList, mGroups))
  BY DEF IInv
<1>9. Core(node', mAlign, mFreeList', Held(mFreeList, mUsedList, mGroups))
  BY <1>2, <1>5, <1>6, <1>7, <1>8, TakeCore
<1>10. /\ \A p \in DOMAIN mUsedList : mUsedList[p].node # n
       /\ \A g \in DOMAIN mGroups : n \notin mGroups[g]
  BY <1>2, NotHeldElsewhere
<1>11. /\ Held(mFreeList', mUsedList, mGroups') \union {n} = Held(mFreeList, mUsedList, mGroups)
       /\ n \notin Held(mFreeList', mUsedList, mGroups')
  BY <1>2, <1>5, <1>10 DEF Held
<1>12. /\ Exclusive(mFreeList', mUsedList, mGroups')
       /\ \A p \in DOMAIN mUsedList : SamePlace(node, node', mUsedList[p].node)
       /\ mGroups' \in Seq(SUBSET Names) /\ Len(mGroups') = Len(mGroups)
       /\ \A g \in DOMAIN mGroups : \A m \in mGroups[g] :
              SamePlace(node, node', m) /\ m \in mGroups'[g]
  BY <1>5, <1>6, OthersKept
<1>13. Taken(n, AlignedOff(n, align), size, align)
  BY <1>1, <1>3, <1>4, <1>5, <1>6, <1>9, <1>11, <1>12 DEF Taken
<1> QED
  BY <1>13, TakenKeeps

\* g is f with two new entries.
TwoMore(f, g, x, v, y, w) ==
    /\ DOMAIN g = DOMAIN f \union {x, y}
    /\ \A m \in DOMAIN f : g[m] = f[m]
    /\ g[x] = v /\ g[y] = w

LEMMA InsertTwo ==
    ASSUME NEW f, NEW x, NEW v, NEW y, NEW w, x \notin DOMAIN f, y \notin DOMAIN f, x # y,
           NEW g, g = Insert(Insert(f, x, v), y, w)
    PROVE  TwoMore(f, g, x, v, y, w)
BY DEF Insert, TwoMore

\* The count of n itself.
LEMMA CountedOnce ==
    ASSUME NEW f, NEW n \in DOMAIN f,
           \A m \in DOMAIN f : f[m] \in [off : Nat, size : Nat, useCount : Int],
           NEW g, g = Counted(f, n, 1)
    PROVE  /\ DOMAIN g = DOMAIN f
           /\ \A m \in DOMAIN f : /\ g[m].off = f[m].off /\ g[m].size = f[m].size
                                  /\ g[m] \in [off : Nat, size : Nat, useCount : Int]
                                  /\ g[m].useCount = f[m].useCount + (IF m = n THEN 1 ELSE 0)
<1>1. g = [f EXCEPT ![n] = [f[n] EXCEPT !.useCount = f[n].useCount + 1]]
  BY DEF Counted
<1>2. f[n] \in [off : Nat, size : Nat, useCount : Int] /\ f[n].useCount + 1 \in Int
  OBVIOUS
<1>3. /\ g[n].off = f[n].off /\ g[n].size = f[n].size
      /\ g[n] \in [off : Nat, size : Nat, useCount : Int]
      /\ g[n].useCount = f[n].useCount + 1
  BY <1>1, <1>2
<1>4. DOMAIN g = DOMAIN f /\ \A m \in DOMAIN f : m # n => g[m] = f[m]
  BY <1>1
<1>5. ASSUME NEW m \in DOMAIN f, m # n
      PROVE  g[m].useCount = f[m].useCount + (IF m = n THEN 1 ELSE 0)
  <2>1. f[m] \in [off : Nat, size : Nat, useCount : Int]
    OBVIOUS
  <2> QED
    BY <1>4, <1>5, <2>1
<1> QED
  BY <1>3, <1>4, <1>5

\* The nodes after a split: n is split into what is taken and the rest.
LEMMA SplitNodes ==
    ASSUME IInv, NEW size \in config.Size, NEW align \in config.AlignArg,
           NEW n \in LowerBound(mFreeList, size, align), Split(n, size, align),
           NEW s, s = SizeAlign(n, size, align)
    PROVE  /\ n \in mFreeList /\ s \in Nat /\ s % mAlign = 0 /\ s <= node[n].size
           /\ AlignedOff(n, align) + size <= node[n].off + s
           /\ Child(n, 0) \in Names /\ Child(n, 0) \notin DOMAIN node
           /\ Child(n, 1) \notin DOMAIN node /\ Child(n, 0) # Child(n, 1)
           /\ SplitsTo(node, node', n, s)
<1> DEFINE c0 == Child(n, 0)
           c1 == Child(n, 1)
           first == [off |-> node[n].off, size |-> s, useCount |-> 0]
           second == [off |-> node[n].off + s, size |-> node[n].size - s, useCount |-> 0]
           f1 == IF IsRoot(n) THEN node ELSE Counted(node, Parent(n), 1)
           f2 == Counted(f1, n, 1)
<1>1. /\ mAlign \in Nat \ {0} /\ size \in Nat \ {0} /\ align \in Nat \ {0}
  BY ConfigFacts DEF IInv
<1>2. n \in mFreeList /\ node[n].size >= RealSize(size, align)
  BY DEF LowerBound
<1>3. /\ n \in Names /\ n \in DOMAIN node /\ node[n].off \in Nat /\ node[n].size \in Nat
      /\ node[n].off % mAlign = 0 /\ Forest(DOMAIN node) /\ IsLeaf(DOMAIN node, n)
      /\ \A m \in DOMAIN node : node[m] \in [off : Nat, size : Nat, useCount : Int]
  BY <1>2, ListFacts
<1>4. s \in Nat /\ s % mAlign = 0 /\ AlignedOff(n, align) + size <= node[n].off + s
  BY <1>1, <1>2, <1>3, PlaceFacts
<1>5. s < node[n].size /\ node' = Insert(Insert(f2, c0, first), c1, second)
  BY DEF Split, SplitAt
<1>6. /\ c0 \in Names /\ c1 \in Names /\ c0 \notin DOMAIN node /\ c1 \notin DOMAIN node
      /\ c0 # c1
  <2>1. /\ c0 \in Names /\ c1 \in Names /\ c0 \notin DOMAIN node /\ c1 \notin DOMAIN node
        /\ ~Below(c0, c1)
    BY <1>3, SplitNames
  <2> QED
    BY <2>1, BelowOrder
<1>7. CountsBy(node, f1, n, 1)
  BY <1>3, CountedFacts
<1>8. DOMAIN f1 = DOMAIN node /\ \A m \in DOMAIN f1 : f1[m] \in [off : Nat, size : Nat, useCount : Int]
  BY <1>7 DEF CountsBy
<1> HIDE DEF f1
<1>9. /\ DOMAIN f2 = DOMAIN f1
      /\ \A m \in DOMAIN f1 : /\ f2[m].off = f1[m].off /\ f2[m].size = f1[m].size
                              /\ f2[m] \in [off : Nat, size : Nat, useCount : Int]
                              /\ f2[m].useCount = f1[m].useCount + (IF m = n THEN 1 ELSE 0)
  BY <1>3, <1>8, CountedOnce
<1> HIDE DEF f2, c0, c1, first, second
<1>10. /\ DOMAIN node' = DOMAIN node \union {c0, c1}
       /\ \A m \in DOMAIN node : node'[m] = f2[m]
       /\ node'[c0] = first /\ node'[c1] = second
  <2>1. TwoMore(f2, node', c0, first, c1, second)
    BY <1>5, <1>6, <1>8, <1>9, InsertTwo
  <2> QED
    BY <1>8, <1>9, <2>1 DEF TwoMore
<1>11. ASSUME NEW m \in DOMAIN node
       PROVE  /\ node'[m].off = node[m].off /\ node'[m].size = node[m].size
              /\ node'[m] \in [off : Nat, size : Nat, useCount : Int]
              /\ node'[m].useCount = node[m].useCount + Told(n, m) + (IF m = n THEN 1 ELSE 0)
  <2>1. node'[m] = f2[m] /\ m \in DOMAIN f1
    BY <1>8, <1>10
  <2>2. f1[m].off = node[m].off /\ f1[m].size = node[m].size /\ f1[m].useCount = node[m].useCount + Told(n, m) * 1
    BY <1>7 DEF CountsBy
  <2>3. Told(n, m) * 1 = Told(n, m)
    BY DEF Told
  <2> QED
    BY <1>9, <2>1, <2>2, <2>3
<1>12. /\ DOMAIN node' = DOMAIN node \union {Child(n, 0), Child(n, 1)}
       /\ node'[Child(n, 0)] = [off |-> node[n].off, size |-> s, useCount |-> 0]
       /\ node'[Child(n, 1)] = [off |-> node[n].off + s, size |-> node[n].size - s, useCount |-> 0]
  BY <1>10 DEF c0, c1, first, second
<1>13. SplitsTo(node, node', n, s)
  BY <1>11, <1>12 DEF SplitsTo
<1>14. s <= node[n].size
  BY <1>3, <1>4, <1>5
<1> QED
  BY <1>2, <1>4, <1>6, <1>13, <1>14 DEF c0, c1

LEMMA SplitKeeps ==
    ASSUME IInv, NEW size \in config.Size, NEW align \in config.AlignArg,
           NEW n \in LowerBound(mFreeList, size, align), Split(n, size, align),
           UNCHANGED <<config, mGroups, mCurrentFreeList, barrier>>
    PROVE  IInv'
<1> DEFINE c0 == Child(n, 0)
           c1 == Child(n, 1)
           H == Held(mFreeList, mUsedList, mGroups)
<1>1. /\ mAlign \in Nat \ {0} /\ size \in Nat \ {0} /\ align \in Nat \ {0}
  BY ConfigFacts DEF IInv
<1>2. n \in mFreeList /\ node[n].size >= RealSize(size, align)
  BY DEF LowerBound
<1>3. /\ node[n].off \in Nat /\ node[n].size \in Nat /\ node[n].off % mAlign = 0
  BY <1>2, ListFacts
<1>4. /\ AlignedOff(n, align) \in Nat /\ AlignedOff(n, align) % align = 0
      /\ node[n].off <= AlignedOff(n, align)
  BY <1>1, <1>2, <1>3, PlaceFacts
<1>5. PICK s : s = SizeAlign(n, size, align)
  OBVIOUS
<1>6. /\ Use(c0, AlignedOff(n, align), size, align)
      /\ mFreeList' = (mFreeList \ {n}) \union {c1}
  BY DEF Split, SplitAt
<1>7. /\ s \in Nat /\ s % mAlign = 0 /\ s <= node[n].size
      /\ AlignedOff(n, align) + size <= node[n].off + s
      /\ c0 \in Names /\ c0 \notin DOMAIN node /\ c1 \notin DOMAIN node /\ c0 # c1
      /\ SplitsTo(node, node', n, s)
  BY <1>5, SplitNodes
<1>8. /\ \A m \in DOMAIN node : /\ m \in DOMAIN node' /\ node'[m].off = node[m].off
                               /\ node'[m].size = node[m].size
      /\ node'[c0].off = node[n].off /\ node'[c0].size = s
  BY <1>7 DEF SplitsTo
<1>9. Core(node, mAlign, mFreeList, H)
  BY DEF IInv
<1> HIDE DEF H
<1>10. Core(node', mAlign, (mFreeList \ {n}) \union {c1}, (H \ {n}) \union {c0, c1})
  BY <1>1, <1>2, <1>7, <1>9, SplitCore
<1> HIDE DEF c0, c1
<1>11. /\ \A p \in DOMAIN mUsedList : mUsedList[p].node # n /\ mUsedList[p].node # c0 /\ mUsedList[p].node # c1
       /\ \A g \in DOMAIN mGroups : n \notin mGroups[g] /\ c0 \notin mGroups[g] /\ c1 \notin mGroups[g]
       /\ c0 \notin mFreeList /\ c1 \notin mFreeList
  BY <1>2, <1>7, NotHeldElsewhere, ListFacts
<1>12. Held(mFreeList', mUsedList, mGroups') \union {c0} = (H \ {n}) \union {c0, c1}
  <2> SUFFICES ASSUME NEW m
               PROVE  m \in Held(mFreeList', mUsedList, mGroups') \union {c0}
                          <=> m \in (H \ {n}) \union {c0, c1}
    OBVIOUS
  <2> QED
    BY <1>6, <1>11, HeldMember DEF H
<1>13. c0 \notin Held(mFreeList', mUsedList, mGroups')
  BY <1>6, <1>7, <1>11, HeldMember
<1>14. /\ Exclusive(mFreeList', mUsedList, mGroups')
       /\ \A p \in DOMAIN mUsedList : SamePlace(node, node', mUsedList[p].node)
       /\ mGroups' \in Seq(SUBSET Names) /\ Len(mGroups') = Len(mGroups)
       /\ \A g \in DOMAIN mGroups : \A m \in mGroups[g] :
              SamePlace(node, node', m) /\ m \in mGroups'[g]
  <2>1. \A m \in mFreeList' : m \in mFreeList \/ m \notin DOMAIN node
    BY <1>6, <1>7
  <2> QED
    BY <1>8, <2>1, OthersKept
<1>15. Core(node', mAlign, mFreeList', Held(mFreeList', mUsedList, mGroups') \union {c0})
  BY <1>6, <1>10, <1>12
<1>16. Taken(c0, AlignedOff(n, align), size, align)
  BY <1>1, <1>4, <1>6, <1>7, <1>8, <1>13, <1>14, <1>15 DEF Taken
<1> QED
  BY <1>16, TakenKeeps

\* A new block that is used as a whole.
LEMMA FreshWholeKeeps ==
    ASSUME IInv, NEW size \in config.Size, NEW align \in config.AlignArg, NEW b \in Block,
           b \notin {Head(n) : n \in DOMAIN node}, NEW o \in config.Offset, o % align = 0,
           Use(<<b>>, o, size, align),
           node' = Insert(node, <<b>>, [off |-> o, size |-> size, useCount |-> 0]),
           UNCHANGED <<config, mFreeList, mGroups, mCurrentFreeList, barrier>>
    PROVE  IInv'
<1> DEFINE root == <<b>>
           H == Held(mFreeList, mUsedList, mGroups)
<1>1. /\ mAlign \in Nat \ {0} /\ size \in Nat \ {0} /\ align \in Nat \ {0}
      /\ o \in Nat /\ o % mAlign = 0
  BY ConfigFacts DEF IInv
<1>2. /\ Core(node, mAlign, mFreeList, H) /\ Forest(DOMAIN node)
  BY DEF IInv, Core
<1>3. root \in Names /\ root \notin DOMAIN node
  BY <1>2, FreshNames
<1>4. Core(node', mAlign, mFreeList \union {root}, H \union {root})
  BY <1>1, <1>2, AddRoot
<1>5. /\ DOMAIN node' = DOMAIN node \union {root}
      /\ \A m \in DOMAIN node : node'[m] = node[m]
      /\ node'[root] = [off |-> o, size |-> size, useCount |-> 0]
  BY <1>3 DEF Insert
<1>6. /\ \A p \in DOMAIN mUsedList : mUsedList[p].node # root
      /\ \A g \in DOMAIN mGroups : root \notin mGroups[g]
      /\ root \notin mFreeList
  BY <1>3, NotHeldElsewhere, ListFacts
<1>7. root \notin H
  BY <1>6, HeldMember
<1>8. node'[root].off = o /\ node'[root].size = size
  BY <1>5
<1>9. IsRoot(root)
  BY RootName DEF IsRoot
<1> HIDE DEF root, H
<1>10. \A m \in DOMAIN node' : /\ node'[m] \in [off : Nat, size : Nat, useCount : Int]
                               /\ node'[m].useCount = node'[m].useCount + Told(root, m)
  <2> SUFFICES ASSUME NEW m \in DOMAIN node'
               PROVE  /\ node'[m] \in [off : Nat, size : Nat, useCount : Int]
                      /\ node'[m].useCount = node'[m].useCount + Told(root, m)
    OBVIOUS
  <2>1. node'[m] \in [off : Nat, size : Nat, useCount : Int]
    BY <1>4 DEF Core, Layout
  <2>2. Told(root, m) = 0
    BY <1>9 DEF Told
  <2> QED
    BY <2>1, <2>2
<1>11. Core(node', mAlign, (mFreeList \union {root}) \ {root}, H \union {root})
  <2>1. PICK f : f = node'
    OBVIOUS
  <2>2. /\ Core(f, mAlign, mFreeList \union {root}, H \union {root})
        /\ \A m \in DOMAIN f : /\ f[m] \in [off : Nat, size : Nat, useCount : Int]
                               /\ f[m].useCount = f[m].useCount + Told(root, m)
    BY <1>4, <1>10, <2>1
  <2>3. root \in mFreeList \union {root}
    OBVIOUS
  <2>4. Core(f, mAlign, (mFreeList \union {root}) \ {root}, H \union {root})
    BY <2>2, <2>3, TakeCore
  <2> QED
    BY <2>1, <2>4
<1>12. (mFreeList \union {root}) \ {root} = mFreeList'
  BY <1>6
<1>13. Held(mFreeList', mUsedList, mGroups') = H
  BY DEF H
<1>14. /\ Exclusive(mFreeList', mUsedList, mGroups')
       /\ \A p \in DOMAIN mUsedList : SamePlace(node, node', mUsedList[p].node)
       /\ mGroups' \in Seq(SUBSET Names) /\ Len(mGroups') = Len(mGroups)
       /\ \A g \in DOMAIN mGroups : \A m \in mGroups[g] :
              SamePlace(node, node', m) /\ m \in mGroups'[g]
  BY <1>5, OthersKept
<1>15. Use(root, o, size, align)
  BY DEF root
<1>16. /\ Core(node', mAlign, mFreeList', Held(mFreeList', mUsedList, mGroups') \union {root})
       /\ root \notin Held(mFreeList', mUsedList, mGroups')
  BY <1>7, <1>11, <1>12, <1>13
<1>17. node'[root].off <= o /\ o + size <= node'[root].off + node'[root].size
  BY <1>1, <1>8
<1>18. Taken(root, o, size, align)
  BY <1>1, <1>3, <1>14, <1>15, <1>16, <1>17 DEF Taken
<1> QED
  BY <1>18, TakenKeeps

\* A block larger than the request is added: s bytes are used, the rest is free.
FreshSplit(b, o, size, s) ==
    /\ b \notin {Head(n) : n \in DOMAIN node} /\ mMinAllocSize > size /\ s = UpTo(size, mAlign)
    /\ node' = Insert(Insert(Insert(node, <<b>>, [off |-> o, size |-> mMinAllocSize, useCount |-> 1]),
                             Child(<<b>>, 0), [off |-> o, size |-> s, useCount |-> 0]),
                      Child(<<b>>, 1), [off |-> o + s, size |-> mMinAllocSize - s, useCount |-> 0])

\* f are the nodes with the block as a whole, before it is split.
WholeFirst(b, o, size, s, f) ==
    /\ s \in Nat /\ s >= size /\ s % mAlign = 0 /\ s <= mMinAllocSize
    /\ <<b>> \notin DOMAIN node /\ Child(<<b>>, 0) \in Names /\ Child(<<b>>, 0) # Child(<<b>>, 1)
    /\ Child(<<b>>, 0) \notin DOMAIN node /\ Child(<<b>>, 1) \notin DOMAIN node
    /\ Core(f, mAlign, mFreeList \union {<<b>>}, Held(mFreeList, mUsedList, mGroups) \union {<<b>>})
    /\ DOMAIN f = DOMAIN node \union {<<b>>} /\ \A m \in DOMAIN node : f[m] = node[m]
    /\ f[<<b>>] = [off |-> o, size |-> mMinAllocSize, useCount |-> 0]
    /\ SplitsTo(f, node', <<b>>, s)

\* Such a step adds the block as a whole and splits it.
LEMMA FreshSplitNodes ==
    ASSUME IInv, NEW size \in config.Size, NEW b \in Block, NEW o \in config.Offset, NEW s,
           FreshSplit(b, o, size, s)
    PROVE  \E f : WholeFirst(b, o, size, s, f)
<1> DEFINE root == <<b>>
           c0 == Child(root, 0)
           c1 == Child(root, 1)
           H == Held(mFreeList, mUsedList, mGroups)
<1>1. /\ b \notin {Head(n) : n \in DOMAIN node} /\ mMinAllocSize > size /\ s = UpTo(size, mAlign)
      /\ node' = Insert(Insert(Insert(node, <<b>>, [off |-> o, size |-> mMinAllocSize, useCount |-> 1]),
                               Child(<<b>>, 0), [off |-> o, size |-> s, useCount |-> 0]),
                        Child(<<b>>, 1), [off |-> o + s, size |-> mMinAllocSize - s, useCount |-> 0])
  BY DEF FreshSplit
<1>2. /\ mAlign \in Nat \ {0} /\ size \in Nat \ {0}
      /\ o \in Nat /\ o % mAlign = 0 /\ mMinAllocSize \in Nat /\ mMinAllocSize % mAlign = 0
  BY ConfigFacts DEF IInv
<1>3. /\ Core(node, mAlign, mFreeList, H) /\ Forest(DOMAIN node)
  BY DEF IInv, Core
<1>4. /\ root \in Names /\ root \notin DOMAIN node /\ c0 \notin DOMAIN node /\ c1 \notin DOMAIN node
  BY <1>1, <1>3, FreshNames
<1>5. /\ s \in Nat /\ s >= size /\ s % mAlign = 0 /\ s <= mMinAllocSize
  BY <1>1, <1>2, UpToFacts, UpToBound
<1>6. PICK h : h = Insert(node, root, [off |-> o, size |-> mMinAllocSize, useCount |-> 1])
  OBVIOUS
<1>7. PICK f : f = Insert(node, root, [off |-> o, size |-> mMinAllocSize, useCount |-> 0])
  OBVIOUS
<1>8. Core(f, mAlign, mFreeList \union {root}, H \union {root})
  BY <1>1, <1>2, <1>3, <1>7, AddRoot
<1>9. /\ DOMAIN f = DOMAIN node \union {root} /\ \A m \in DOMAIN node : f[m] = node[m]
      /\ f[root] = [off |-> o, size |-> mMinAllocSize, useCount |-> 0]
  BY <1>4, <1>7 DEF Insert
<1>10. /\ DOMAIN h = DOMAIN node \union {root} /\ \A m \in DOMAIN node : h[m] = node[m]
       /\ h[root] = [off |-> o, size |-> mMinAllocSize, useCount |-> 1]
  BY <1>4, <1>6 DEF Insert
<1>11. /\ c0 \in Names /\ c1 \in Names /\ c0 # c1 /\ c0 # root /\ c1 # root /\ IsRoot(root)
  <2>1. c0 \in Names /\ c1 \in Names /\ c0[Len(root) + 1] = 0 /\ c1[Len(root) + 1] = 1
    BY <1>4, ChildName
  <2> QED
    BY <1>4, <2>1, ChildOf, RootName DEF IsRoot
<1> HIDE DEF root, c0, c1, H
<1>12. /\ DOMAIN node' = DOMAIN h \union {c0, c1} /\ \A m \in DOMAIN h : node'[m] = h[m]
       /\ node'[c0] = [off |-> o, size |-> s, useCount |-> 0]
       /\ node'[c1] = [off |-> o + s, size |-> mMinAllocSize - s, useCount |-> 0]
  <2>1. c0 \notin DOMAIN h /\ c1 \notin DOMAIN h
    BY <1>4, <1>10, <1>11
  <2>2. TwoMore(h, node', c0, [off |-> o, size |-> s, useCount |-> 0],
                c1, [off |-> o + s, size |-> mMinAllocSize - s, useCount |-> 0])
    BY <1>1, <1>6, <1>11, <2>1, InsertTwo DEF root, c0, c1
  <2> QED
    BY <2>2 DEF TwoMore
<1>13. SplitsTo(f, node', root, s)
  <2>1. \A m : Told(root, m) = 0
    BY <1>11 DEF Told
  <2>2. ASSUME NEW m \in DOMAIN f
        PROVE  /\ node'[m].off = f[m].off /\ node'[m].size = f[m].size
               /\ node'[m].useCount = f[m].useCount + Told(root, m) + (IF m = root THEN 1 ELSE 0)
               /\ node'[m] \in [off : Nat, size : Nat, useCount : Int]
    <3>1. CASE m = root
      <4>1. node'[root] = [off |-> o, size |-> mMinAllocSize, useCount |-> 1]
        BY <1>10, <1>12
      <4>2. f[root] = [off |-> o, size |-> mMinAllocSize, useCount |-> 0]
        BY <1>9
      <4> QED
        BY <1>2, <2>1, <3>1, <4>1, <4>2
    <3>2. CASE m # root
      <4>1. node'[m] = node[m] /\ f[m] = node[m] /\ m \in DOMAIN node
        BY <1>9, <1>10, <1>12, <3>2
      <4>2. node[m] \in [off : Nat, size : Nat, useCount : Int]
        BY <4>1, ListFacts
      <4> QED
        BY <2>1, <3>2, <4>1, <4>2
    <3> QED
      BY <3>1, <3>2
  <2>3. f[root].off = o /\ f[root].size = mMinAllocSize
    BY <1>9
  <2>4. DOMAIN node' = DOMAIN f \union {Child(root, 0), Child(root, 1)}
    BY <1>9, <1>10, <1>12 DEF c0, c1
  <2>5. /\ node'[Child(root, 0)] = [off |-> f[root].off, size |-> s, useCount |-> 0]
        /\ node'[Child(root, 1)] = [off |-> f[root].off + s, size |-> f[root].size - s, useCount |-> 0]
    BY <1>12, <2>3 DEF c0, c1
  <2> QED
    BY <2>2, <2>4, <2>5 DEF SplitsTo
<1>14. WholeFirst(b, o, size, s, f)
  BY <1>4, <1>5, <1>8, <1>9, <1>11, <1>13 DEF WholeFirst, root, c0, c1, H
<1> QED
  BY <1>14

\* A new block larger than the request: the rest is free.
LEMMA FreshSplitKeeps ==
    ASSUME IInv, NEW size \in config.Size, NEW align \in config.AlignArg, NEW b \in Block,
           NEW o \in config.Offset, o % align = 0, NEW s, FreshSplit(b, o, size, s),
           Use(Child(<<b>>, 0), o, size, align),
           mFreeList' = mFreeList \union {Child(<<b>>, 1)},
           UNCHANGED <<config, mGroups, mCurrentFreeList, barrier>>
    PROVE  IInv'
<1> DEFINE root == <<b>>
           c0 == Child(root, 0)
           c1 == Child(root, 1)
           H == Held(mFreeList, mUsedList, mGroups)
<1>1. /\ mAlign \in Nat \ {0} /\ size \in Nat \ {0} /\ align \in Nat \ {0} /\ o \in Nat
  BY ConfigFacts DEF IInv
<1>2. PICK f : WholeFirst(b, o, size, s, f)
  BY FreshSplitNodes
<1>3. /\ s \in Nat /\ s >= size /\ s % mAlign = 0 /\ s <= mMinAllocSize
      /\ root \notin DOMAIN node /\ c0 \in Names /\ c0 # c1
      /\ c0 \notin DOMAIN node /\ c1 \notin DOMAIN node
      /\ Core(f, mAlign, mFreeList \union {root}, H \union {root})
      /\ DOMAIN f = DOMAIN node \union {root} /\ \A m \in DOMAIN node : f[m] = node[m]
      /\ f[root] = [off |-> o, size |-> mMinAllocSize, useCount |-> 0]
      /\ SplitsTo(f, node', root, s)
  BY <1>2 DEF WholeFirst
<1>4. /\ Use(c0, o, size, align) /\ mFreeList' = mFreeList \union {c1}
  OBVIOUS
<1>5. /\ f[root].off = o /\ f[root].size = mMinAllocSize
  BY <1>3
<1> HIDE DEF root, H
<1>6. /\ \A m \in DOMAIN node : /\ m \in DOMAIN node' /\ node'[m].off = node[m].off
                               /\ node'[m].size = node[m].size
      /\ node'[c0].off = o /\ node'[c0].size = s
  <2>1. \A m \in DOMAIN node : m \in DOMAIN f /\ f[m] = node[m]
    BY <1>3
  <2> QED
    BY <1>3, <1>5, <2>1 DEF SplitsTo
<1>7. Core(node', mAlign, ((mFreeList \union {root}) \ {root}) \union {c1},
            ((H \union {root}) \ {root}) \union {c0, c1})
  <2>1. root \in mFreeList \union {root} /\ s <= f[root].size
    BY <1>3, <1>5
  <2> QED
    BY <1>1, <1>3, <2>1, SplitCore
<1> HIDE DEF c0, c1
<1>8. /\ \A p \in DOMAIN mUsedList : /\ mUsedList[p].node # root /\ mUsedList[p].node # c0
                                     /\ mUsedList[p].node # c1
      /\ \A g \in DOMAIN mGroups : root \notin mGroups[g] /\ c0 \notin mGroups[g] /\ c1 \notin mGroups[g]
      /\ root \notin mFreeList /\ c0 \notin mFreeList /\ c1 \notin mFreeList
  BY <1>3, NotHeldElsewhere, ListFacts
<1>9. root \notin H /\ c0 \notin H
  BY <1>8, HeldMember DEF H
<1>10. Held(mFreeList', mUsedList, mGroups') = H \union {c1}
  BY <1>4 DEF Held, H
<1>11. /\ ((mFreeList \union {root}) \ {root}) \union {c1} = mFreeList'
       /\ ((H \union {root}) \ {root}) \union {c0, c1} = Held(mFreeList', mUsedList, mGroups') \union {c0}
       /\ c0 \notin Held(mFreeList', mUsedList, mGroups')
  <2>1. c0 # c1
    BY <1>3
  <2> QED
    BY <1>4, <1>8, <1>9, <1>10, <2>1
<1>12. /\ Exclusive(mFreeList', mUsedList, mGroups')
       /\ \A p \in DOMAIN mUsedList : SamePlace(node, node', mUsedList[p].node)
       /\ mGroups' \in Seq(SUBSET Names) /\ Len(mGroups') = Len(mGroups)
       /\ \A g \in DOMAIN mGroups : \A m \in mGroups[g] :
              SamePlace(node, node', m) /\ m \in mGroups'[g]
  <2>1. \A m \in mFreeList' : m \in mFreeList \/ m \notin DOMAIN node
    BY <1>3, <1>4
  <2> QED
    BY <1>6, <2>1, OthersKept
<1>13. o <= o /\ o + size <= o + s
  BY <1>1, <1>3
<1>14. Taken(c0, o, size, align)
  BY <1>1, <1>3, <1>4, <1>6, <1>7, <1>11, <1>12, <1>13 DEF Taken
<1> QED
  BY <1>14, TakenKeeps

LEMMA AllocKeeps ==
    ASSUME IInv, NEW size \in config.Size, NEW separate \in BOOLEAN, NEW align \in config.AlignArg,
           Alloc(size, separate, align), UNCHANGED config
    PROVE  IInv'
<1>1. CASE mCurrentFreeList # 0 /\ TakeFromGroup(size, align)
  BY <1>1, TakeFromGroupKeeps
<1>2. CASE TakeFromFreeList(size, align)
  <2>1. PICK n \in LowerBound(mFreeList, size, align) : TakeWhole(n, size, align) \/ Split(n, size, align)
    BY <1>2 DEF TakeFromFreeList
  <2>2. UNCHANGED <<mGroups, mCurrentFreeList, mTotalSize, barrier>>
    BY <1>2 DEF TakeFromFreeList
  <2> QED
    BY <2>1, <2>2, TakeWholeKeeps, SplitKeeps
<1>3. ASSUME NEW b \in Block, TakeFresh(b, size, align) PROVE IInv'
  <2> DEFINE allocSize == IF mMinAllocSize > size THEN mMinAllocSize ELSE size
             s == UpTo(size, mAlign)
             root == <<b>>
  <2>1. size \in Nat \ {0} /\ mMinAllocSize \in Nat /\ (mMinAllocSize = 0 \/ MaxGroups = 0)
    BY ConfigFacts DEF IInv
  <2>2. /\ b \notin {Head(n) : n \in DOMAIN node}
        /\ UNCHANGED <<mCurrentFreeList, barrier>>
    BY <1>3 DEF TakeFresh, TakeFreshCounting
  <2>3. PICK o \in config.Offset :
          /\ o % align = 0
          /\ \/ /\ allocSize > size
                /\ Use(Child(root, 0), o, size, align)
                /\ node' = Insert(Insert(Insert(node, root, [off |-> o, size |-> allocSize, useCount |-> 1]),
                                         Child(root, 0), [off |-> o, size |-> s, useCount |-> 0]),
                                  Child(root, 1),
                                  [off |-> o + s, size |-> allocSize - s, useCount |-> 0])
                /\ mCurrentFreeList = 0 => /\ mFreeList' = mFreeList \union {Child(root, 1)}
                                           /\ UNCHANGED mGroups
             \/ /\ allocSize = size
                /\ Use(root, o, size, align)
                /\ node' = Insert(node, root, [off |-> o, size |-> allocSize, useCount |-> 0])
                /\ UNCHANGED <<mFreeList, mGroups>>
    BY <1>3 DEF TakeFresh, TakeFreshCounting
  <2>4. CASE allocSize = size
    <3>1. ~(allocSize > size)
      BY <2>1, <2>4
    <3> HIDE DEF allocSize
    <3> QED
      BY <2>2, <2>3, <2>4, <3>1, FreshWholeKeeps
  <2>5. CASE allocSize # size
    <3>1. mMinAllocSize > size /\ allocSize = mMinAllocSize /\ MaxGroups = 0
      BY <2>1, <2>5
    <3>2. mCurrentFreeList = 0
      BY <3>1 DEF IInv, PhaseInv
    <3>3. PICK s0 : s0 = s
      OBVIOUS
    <3> HIDE DEF allocSize, s
    <3>4. /\ Use(Child(<<b>>, 0), o, size, align)
          /\ node' = Insert(Insert(Insert(node, root, [off |-> o, size |-> mMinAllocSize, useCount |-> 1]),
                                   Child(root, 0), [off |-> o, size |-> s0, useCount |-> 0]),
                            Child(root, 1),
                            [off |-> o + s0, size |-> mMinAllocSize - s0, useCount |-> 0])
          /\ mFreeList' = mFreeList \union {Child(root, 1)} /\ UNCHANGED mGroups
      BY <2>3, <2>5, <3>1, <3>2, <3>3
    <3>5. s0 = UpTo(size, mAlign)
      BY <3>3 DEF s
    <3>6. FreshSplit(b, o, size, s0)
      BY <2>2, <3>1, <3>4, <3>5 DEF FreshSplit
    <3> QED
      BY <2>2, <2>3, <3>4, <3>6, FreshSplitKeeps
  <2> QED
    BY <2>4, <2>5
<1> QED
  BY <1>1, <1>2, <1>3 DEF Alloc

-----------------------------------------------------------------------------
(* Every way to give a node back.                                          *)

\* Nodes may go but no whole block, and what stays is as large as it was.
SizesKept ==
    /\ DOMAIN node' \subseteq DOMAIN node /\ SameSizes(node, node')
    /\ Roots(DOMAIN node) \subseteq DOMAIN node'

\* returnMemory(&mFreeList, n), whatever else the step does to the other lists.
LEMMA ReturnMemoryCore ==
    ASSUME IInv, NEW n, NEW R, Returning(node, mAlign, mFreeList, R, n), ReturnMemory(n),
           R = Held({}, mUsedList', mGroups')
    PROVE  /\ Core(node', mAlign, mFreeList', Held(mFreeList', mUsedList', mGroups'))
           /\ mFreeList' \intersect R = {}
           /\ \A m \in R : SamePlace(node, node', m)
           /\ SizesKept
<1> DEFINE M == Merged(node, n)
           t == Top(node, n)
           F1 == FreeAfter(node, mFreeList, n)
           z == [m \in DOMAIN node |->
                    IF m \in M THEN [node[m] EXCEPT !.useCount = 0] ELSE node[m]]
           f == IF IsRoot(t) THEN z ELSE Counted(z, Parent(t), -1)
           H == Held(mFreeList', mUsedList', mGroups')
<1>1. mFreeList' = F1 /\ KeepHeld(f)
  BY DEF ReturnMemory, ReturnSwallowing, FreeAfter, Merged, Top
<1>2. H = F1 \union R
  BY <1>1 DEF Held
<1>3. node' = Restrict(f, DOMAIN f \intersect (H \union UNION {Ancestors(h) : h \in H}))
  BY <1>1 DEF KeepHeld
<1>4. /\ Forest(DOMAIN node) /\ n \in DOMAIN node
      /\ \A m \in DOMAIN node : node[m] \in [off : Nat, size : Nat, useCount : Int]
  BY ListFacts DEF Returning, Core, Alive
<1>5. t \in DOMAIN node
  BY <1>4, TopFacts
<1>6. /\ DOMAIN z = DOMAIN node
      /\ \A m \in DOMAIN node : /\ z[m] \in [off : Nat, size : Nat, useCount : Int]
                                /\ z[m].off = node[m].off /\ z[m].size = node[m].size
                                /\ z[m].useCount = IF m \in M THEN 0 ELSE node[m].useCount
  <2> HIDE DEF M
  <2> QED
    BY <1>4
<1> HIDE DEF z, M, H, F1
<1>7. CountsBy(z, f, t, -1)
  <2> HIDE DEF t
  <2> QED
    BY <1>4, <1>5, <1>6, CountedFacts
<1> HIDE DEF f
<1>8. DOMAIN f = DOMAIN node
  BY <1>6, <1>7 DEF CountsBy
<1>9. DOMAIN node' = Kept(node, H) /\ \A m \in DOMAIN node' : node'[m] = f[m] /\ m \in DOMAIN node
  BY <1>3, <1>8 DEF Restrict, Kept
<1>10. ASSUME NEW m \in DOMAIN node'
       PROVE  /\ node'[m].off = node[m].off /\ node'[m].size = node[m].size
              /\ node'[m].useCount = (IF m \in M THEN 0 ELSE node[m].useCount) - Told(t, m)
              /\ node'[m] \in [off : Nat, size : Nat, useCount : Int]
  <2>1. node'[m] = f[m] /\ m \in DOMAIN node /\ m \in DOMAIN z
    BY <1>6, <1>9
  <2>2. /\ f[m].off = z[m].off /\ f[m].size = z[m].size
        /\ f[m] \in [off : Nat, size : Nat, useCount : Int]
        /\ f[m].useCount = z[m].useCount + Told(t, m) * (-1)
    BY <1>7, <2>1 DEF CountsBy
  <2>3. /\ z[m].off = node[m].off /\ z[m].size = node[m].size /\ z[m].useCount \in Int
        /\ z[m].useCount = IF m \in M THEN 0 ELSE node[m].useCount
    BY <1>6, <2>1
  <2>4. Told(t, m) \in {0, 1}
    BY DEF Told
  <2>5. f[m].useCount = z[m].useCount - Told(t, m)
    BY <2>2, <2>3, <2>4
  <2> QED
    BY <2>1, <2>2, <2>3, <2>5
<1>11. Core(node', mAlign, F1, H)
  <2>1. \A m \in DOMAIN node' :
           /\ node'[m].off = node[m].off /\ node'[m].size = node[m].size
           /\ node'[m].useCount = (IF m \in Merged(node, n) THEN 0 ELSE node[m].useCount) - Told(Top(node, n), m)
           /\ node'[m] \in [off : Nat, size : Nat, useCount : Int]
    BY <1>10 DEF M
  <2>2. H = FreeAfter(node, mFreeList, n) \union R
    BY <1>2 DEF F1
  <2>3. PICK g : g = node'
    OBVIOUS
  <2>4. /\ DOMAIN g = Kept(node, H)
        /\ \A m \in DOMAIN g :
               /\ g[m].off = node[m].off /\ g[m].size = node[m].size
               /\ g[m].useCount = (IF m \in Merged(node, n) THEN 0 ELSE node[m].useCount) - Told(Top(node, n), m)
               /\ g[m] \in [off : Nat, size : Nat, useCount : Int]
    BY <1>9, <2>1, <2>3
  <2>5. Core(g, mAlign, FreeAfter(node, mFreeList, n), H)
    BY <2>2, <2>4, ReturnCore
  <2> QED
    BY <2>3, <2>5 DEF F1
<1>12. /\ H \subseteq Kept(node, H) /\ F1 \intersect R = {}
       /\ Kept(node, H) = {m \in DOMAIN node : Below(t, m) => m = t}
  <2>1. PICK K : K = Kept(node, H)
    OBVIOUS
  <2>2. H = FreeAfter(node, mFreeList, n) \union R
    BY <1>2 DEF F1
  <2>3. /\ H \subseteq K /\ FreeAfter(node, mFreeList, n) \intersect R = {}
        /\ K = {m \in DOMAIN node : Below(Top(node, n), m) => m = Top(node, n)}
    BY <2>1, <2>2, ReturnNodes
  <2> QED
    BY <2>1, <2>3 DEF F1
<1>13. \A m \in R : SamePlace(node, node', m)
  <2>1. R \subseteq DOMAIN node'
    BY <1>2, <1>9, <1>12
  <2> QED
    BY <1>9, <1>10, <2>1 DEF SamePlace
<1>14. DOMAIN node' \subseteq DOMAIN node /\ SameSizes(node, node')
  BY <1>9, <1>10 DEF SameSizes
<1>15. ASSUME NEW r \in Roots(DOMAIN node) PROVE r \in DOMAIN node'
  <2>1. r \in DOMAIN node /\ r \in Names /\ IsRoot(r) /\ t \in Names
    BY <1>4, <1>5 DEF Roots, Forest
  <2>2. Below(t, r) => r = t
    BY <2>1, RootAlone
  <2> QED
    BY <1>9, <1>12, <2>1, <2>2
<1> QED
  BY <1>1, <1>11, <1>12, <1>13, <1>14, <1>15 DEF H, SizesKept

\* A node that no group owns is returned.
LEMMA ReturnKeeps ==
    ASSUME IInv, NEW n, NEW R, Returning(node, mAlign, mFreeList, R, n), ReturnMemory(n),
           R = Held({}, mUsedList', mGroups'),
           \A q \in DOMAIN mUsedList' : q \in DOMAIN mUsedList /\ mUsedList'[q] = mUsedList[q],
           mGroups' \in Seq(SUBSET Names), Len(mGroups') = Len(mGroups),
           \A g \in DOMAIN mGroups : mGroups'[g] \subseteq mGroups[g],
           UNCHANGED <<config, mCurrentFreeList, barrier, groupBytes>>,
           \A g \in DOMAIN mGroups, m \in DOMAIN node :
               barrier = "open" /\ Owns(g, m) => m \in R /\ Owns(g, m)'
    PROVE  IInv' /\ SizesKept
<1>1. /\ Core(node', mAlign, mFreeList', Held(mFreeList', mUsedList', mGroups'))
      /\ mFreeList' \intersect R = {}
      /\ \A m \in R : SamePlace(node, node', m)
      /\ SizesKept
  BY ReturnMemoryCore
<1>2. /\ Exclusive(mFreeList, mUsedList, mGroups) /\ ChunkInv /\ PhaseInv /\ GroupInv
      /\ Core(node, mAlign, mFreeList, Held(mFreeList, mUsedList, mGroups))
  BY DEF IInv
<1>3. mAlign' = mAlign /\ MaxGroups' = MaxGroups
  BY DEF mAlign, MaxGroups
<1>4. DOMAIN mGroups' = DOMAIN mGroups /\ DOMAIN mGroups = 1 .. Len(mGroups)
  BY ListFacts
<1>5. /\ \A q \in DOMAIN mUsedList' : mUsedList'[q].node \in R
      /\ \A g \in DOMAIN mGroups' : mGroups'[g] \subseteq R
  BY HeldMember
<1>6. Exclusive(mFreeList, mUsedList, mGroups)'
  <2>1. \A q \in DOMAIN mUsedList' : /\ mUsedList'[q].node \notin mFreeList'
                                     /\ \A g \in DOMAIN mGroups' : mUsedList'[q].node \notin mGroups'[g]
    BY <1>1, <1>2, <1>4, <1>5 DEF Exclusive
  <2>2. \A p, q \in DOMAIN mUsedList' : mUsedList'[p].node = mUsedList'[q].node => p = q
    BY <1>2 DEF Exclusive
  <2>3. \A g \in DOMAIN mGroups' : mGroups'[g] \intersect mFreeList' = {}
    BY <1>1, <1>5
  <2>4. \A g, h \in DOMAIN mGroups' : g # h => mGroups'[g] \intersect mGroups'[h] = {}
    BY <1>2, <1>4 DEF Exclusive
  <2> QED
    BY <2>1, <2>2, <2>3, <2>4 DEF Exclusive
<1>7. ChunkInv'
  BY <1>1, <1>2, <1>5 DEF ChunkInv, SamePlace
<1>8. PhaseInv'
  <2>1. barrier = "none" => mGroups' = << >>
    BY <1>2 DEF PhaseInv
  <2> QED
    BY <1>2, <1>3, <2>1 DEF PhaseInv
<1>9. GroupInv'
  <2>1. GroupsDisjoint'
    BY <1>2 DEF GroupInv, GroupsDisjoint
  <2>2. ASSUME barrier = "open", NEW g \in DOMAIN groupBytes, NEW x \in groupBytes[g]
        PROVE  \E m \in DOMAIN node' : Owns(g, m)' /\ x \in NodeBytes(m)'
    <3>1. PICK m \in DOMAIN node : Owns(g, m) /\ x \in NodeBytes(m)
      BY <1>2, <2>2 DEF GroupInv
    <3>2. g \in DOMAIN mGroups
      BY <1>2, <1>4 DEF PhaseInv
    <3>3. m \in R /\ Owns(g, m)'
      BY <2>2, <3>1, <3>2
    <3>4. SamePlace(node, node', m)
      BY <1>1, <3>3
    <3>5. x \in NodeBytes(m)'
      BY <3>1, <3>4 DEF NodeBytes, SamePlace
    <3> QED
      BY <3>3, <3>4, <3>5 DEF SamePlace
  <2> QED
    BY <2>1, <2>2 DEF GroupInv
<1> QED
  BY <1>1, <1>3, <1>6, <1>7, <1>8, <1>9 DEF IInv

LEMMA FreeKeeps ==
    ASSUME IInv, NEW p \in DOMAIN mUsedList, Free(p), UNCHANGED config
    PROVE  IInv' /\ SizesKept
<1>1. PICK n : n = mUsedList[p].node
  OBVIOUS
<1>2. PICK c : c = mCurrentFreeList
  OBVIOUS
<1>3. /\ barrier # "closing" /\ mUsedList[p].group \in {0, c}
      /\ mUsedList' = Restrict(mUsedList, DOMAIN mUsedList \ {p})
      /\ UNCHANGED <<mCurrentFreeList, mTotalSize, barrier, groupBytes>>
  BY <1>2 DEF Free, FreeInto
<1>4. \/ /\ c # 0
         /\ mGroups' = [mGroups EXCEPT ![c] = mGroups[c] \union {n}]
         /\ UNCHANGED <<node, mFreeList>>
      \/ c = 0 /\ UNCHANGED mGroups /\ ReturnMemory(n)
  BY <1>1, <1>2 DEF Free, FreeInto
<1>5. /\ DOMAIN mUsedList' = DOMAIN mUsedList \ {p}
      /\ \A q \in DOMAIN mUsedList' : mUsedList'[q] = mUsedList[q]
  BY <1>3 DEF Restrict
<1>6. /\ Exclusive(mFreeList, mUsedList, mGroups) /\ ChunkInv /\ PhaseInv /\ GroupInv
      /\ Core(node, mAlign, mFreeList, Held(mFreeList, mUsedList, mGroups))
  BY DEF IInv
<1>7. /\ DOMAIN mGroups = 1 .. Len(mGroups) /\ mGroups \in Seq(SUBSET Names) /\ Len(mGroups) \in Nat
      /\ c \in 0 .. Len(mGroups) /\ n \in DOMAIN node /\ n \in Names
  BY <1>1, <1>2, ListFacts
<1>8. /\ n \notin mFreeList /\ \A g \in DOMAIN mGroups : n \notin mGroups[g]
      /\ \A q \in DOMAIN mUsedList' : mUsedList'[q].node # n
  BY <1>1, <1>5, <1>6 DEF Exclusive
<1>9. CASE c = 0
  <2>1. UNCHANGED mGroups /\ ReturnMemory(n)
    BY <1>4, <1>9
  <2>2. PICK R : R = Held({}, mUsedList', mGroups')
    OBVIOUS
  <2>3. Held(mFreeList, mUsedList, mGroups) = mFreeList \union R \union {n}
    <3> SUFFICES ASSUME NEW m
                 PROVE  m \in Held(mFreeList, mUsedList, mGroups) <=> m \in mFreeList \union R \union {n}
      OBVIOUS
    <3>1. (\E q \in DOMAIN mUsedList : mUsedList[q].node = m)
              <=> m = n \/ \E q \in DOMAIN mUsedList' : mUsedList'[q].node = m
      BY <1>1, <1>5
    <3> QED
      BY <2>1, <2>2, <3>1, HeldMember
  <2>4. n \notin R
    BY <1>8, <2>1, <2>2, HeldMember
  <2>5. R \intersect mFreeList = {}
    <3> SUFFICES ASSUME NEW m \in R PROVE m \notin mFreeList
      OBVIOUS
    <3> QED
      BY <1>5, <1>6, <2>1, <2>2, HeldMember DEF Exclusive
  <2>6. Returning(node, mAlign, mFreeList, R, n)
    BY <1>6, <1>8, <2>3, <2>4, <2>5 DEF Returning
  <2>7. ASSUME NEW g \in DOMAIN mGroups, NEW m \in DOMAIN node, Owns(g, m)
        PROVE  m \in R /\ Owns(g, m)'
    <3>1. mUsedList[p].group # g
      BY <1>3, <1>7, <1>9
    <3>2. m \in mGroups'[g] \/ \E q \in DOMAIN mUsedList' : mUsedList'[q].node = m /\ mUsedList'[q].group = g
      BY <1>5, <2>1, <2>7, <3>1 DEF Owns
    <3>3. m \in R
      BY <2>1, <2>2, <3>2, HeldMember
    <3> QED
      BY <3>2, <3>3 DEF Owns
  <2>8. \A g \in DOMAIN mGroups : mGroups'[g] \subseteq mGroups[g]
    BY <2>1
  <2> QED
    BY <1>3, <1>5, <1>7, <2>1, <2>2, <2>6, <2>7, <2>8, ReturnKeeps
<1>10. CASE c # 0
  <2>1. /\ mGroups' = [mGroups EXCEPT ![c] = mGroups[c] \union {n}]
        /\ UNCHANGED <<node, mFreeList>> /\ c \in DOMAIN mGroups
    BY <1>4, <1>7, <1>10
  <2>2. mGroups[c] \union {n} \in SUBSET Names
    BY <1>7, <2>1
  <2>3. /\ mGroups' \in Seq(SUBSET Names) /\ Len(mGroups') = Len(mGroups)
        /\ DOMAIN mGroups' = DOMAIN mGroups /\ mGroups'[c] = mGroups[c] \union {n}
        /\ \A g \in DOMAIN mGroups : g # c => mGroups'[g] = mGroups[g]
    BY <1>7, <2>1, <2>2
  <2>4. Held(mFreeList', mUsedList', mGroups') = Held(mFreeList, mUsedList, mGroups)
    <3> SUFFICES ASSUME NEW m
                 PROVE  m \in Held(mFreeList', mUsedList', mGroups') <=> m \in Held(mFreeList, mUsedList, mGroups)
      OBVIOUS
    <3>1. (\E q \in DOMAIN mUsedList : mUsedList[q].node = m)
              <=> m = n \/ \E q \in DOMAIN mUsedList' : mUsedList'[q].node = m
      BY <1>1, <1>5
    <3>2. (\E g \in DOMAIN mGroups' : m \in mGroups'[g])
              <=> m = n \/ \E g \in DOMAIN mGroups : m \in mGroups[g]
      BY <2>1, <2>3
    <3>3. m \in Held(mFreeList', mUsedList', mGroups') <=>
              \/ m \in mFreeList'
              \/ \E q \in DOMAIN mUsedList' : mUsedList'[q].node = m
              \/ \E g \in DOMAIN mGroups' : m \in mGroups'[g]
      BY HeldMember
    <3>4. m \in Held(mFreeList, mUsedList, mGroups) <=>
              \/ m \in mFreeList
              \/ \E q \in DOMAIN mUsedList : mUsedList[q].node = m
              \/ \E g \in DOMAIN mGroups : m \in mGroups[g]
      BY HeldMember
    <3> QED
      BY <2>1, <3>1, <3>2, <3>3, <3>4
  <2>5. mAlign' = mAlign /\ MaxGroups' = MaxGroups
    BY DEF mAlign, MaxGroups
  <2>6. Exclusive(mFreeList, mUsedList, mGroups)'
    <3>1. \A q \in DOMAIN mUsedList' : /\ mUsedList'[q].node \notin mFreeList
                                       /\ \A g \in DOMAIN mGroups' : mUsedList'[q].node \notin mGroups'[g]
      BY <1>5, <1>6, <1>8, <2>3 DEF Exclusive
    <3>2. \A q, r \in DOMAIN mUsedList' : mUsedList'[q].node = mUsedList'[r].node => q = r
      BY <1>5, <1>6 DEF Exclusive
    <3>3. \A g \in DOMAIN mGroups' : mGroups'[g] \intersect mFreeList = {}
      BY <1>6, <1>8, <2>3 DEF Exclusive
    <3>4. \A g, h \in DOMAIN mGroups' : g # h => mGroups'[g] \intersect mGroups'[h] = {}
      BY <1>6, <1>8, <2>3 DEF Exclusive
    <3> QED
      BY <2>1, <3>1, <3>2, <3>3, <3>4 DEF Exclusive
  <2>7. ChunkInv'
    BY <1>5, <1>6, <2>1, <2>3 DEF ChunkInv
  <2>8. PhaseInv'
    <3>1. barrier = "none" => mGroups' = << >>
      BY <1>6, <1>10, <1>2 DEF PhaseInv
    <3> QED
      BY <1>3, <1>6, <2>3, <2>5, <3>1 DEF PhaseInv
  <2>9. ASSUME NEW g \in DOMAIN mGroups, NEW m \in DOMAIN node, Owns(g, m) PROVE Owns(g, m)'
    <3>1. CASE m \in mGroups[g]
      BY <2>3, <3>1 DEF Owns
    <3>2. CASE m \notin mGroups[g]
      <4>1. PICK q \in DOMAIN mUsedList : mUsedList[q].node = m /\ mUsedList[q].group = g
        BY <2>9, <3>2 DEF Owns
      <4>2. CASE q = p
        <5>1. g = c /\ m = n
          BY <1>1, <1>3, <1>7, <4>1, <4>2
        <5> QED
          BY <2>3, <5>1 DEF Owns
      <4>3. CASE q # p
        BY <1>5, <4>1, <4>3 DEF Owns
      <4> QED
        BY <4>2, <4>3
    <3> QED
      BY <3>1, <3>2
  <2>10. GroupInv'
    <3>1. GroupsDisjoint'
      BY <1>3, <1>6 DEF GroupInv, GroupsDisjoint
    <3>2. ASSUME barrier = "open", NEW g \in DOMAIN groupBytes, NEW x \in groupBytes[g]
          PROVE  \E m \in DOMAIN node : Owns(g, m)' /\ x \in NodeBytes(m)'
      <4>1. PICK m \in DOMAIN node : Owns(g, m) /\ x \in NodeBytes(m)
        BY <1>6, <3>2 DEF GroupInv
      <4>2. g \in DOMAIN mGroups
        BY <1>6, <1>7 DEF PhaseInv
      <4>3. x \in NodeBytes(m)'
        BY <2>1, <4>1 DEF NodeBytes
      <4> QED
        BY <2>9, <4>1, <4>2, <4>3
    <3> QED
      BY <1>3, <2>1, <3>1, <3>2 DEF GroupInv
  <2>11. Core(node', mAlign', mFreeList', Held(mFreeList', mUsedList', mGroups'))
    BY <1>6, <2>1, <2>4, <2>5
  <2>12. SizesKept
    BY <2>1 DEF SizesKept, SameSizes, Roots
  <2> QED
    BY <2>6, <2>7, <2>8, <2>10, <2>11, <2>12 DEF IInv
<1> QED
  BY <1>9, <1>10

LEMMA BarrierReturnKeeps ==
    ASSUME IInv, NEW g \in DOMAIN mGroups, NEW n \in mGroups[g], BarrierReturn(g, n), UNCHANGED config
    PROVE  IInv' /\ SizesKept
<1>1. /\ barrier = "closing" /\ mGroups' = [mGroups EXCEPT ![g] = mGroups[g] \ {n}]
      /\ UNCHANGED <<mUsedList, mCurrentFreeList, mTotalSize, barrier, groupBytes>>
      /\ ReturnMemory(n)
  BY DEF BarrierReturn, BarrierTake
<1>2. /\ DOMAIN mGroups = 1 .. Len(mGroups) /\ mGroups \in Seq(SUBSET Names) /\ Len(mGroups) \in Nat
  BY ListFacts
<1>3. /\ mGroups' \in Seq(SUBSET Names) /\ Len(mGroups') = Len(mGroups)
      /\ DOMAIN mGroups' = DOMAIN mGroups /\ mGroups'[g] = mGroups[g] \ {n}
      /\ \A h \in DOMAIN mGroups : h # g => mGroups'[h] = mGroups[h]
  <2>1. mGroups[g] \ {n} \in SUBSET Names
    BY <1>2
  <2> QED
    BY <1>1, <1>2, <2>1
<1>4. /\ Exclusive(mFreeList, mUsedList, mGroups)
      /\ Core(node, mAlign, mFreeList, Held(mFreeList, mUsedList, mGroups))
  BY DEF IInv
<1>5. PICK R : R = Held({}, mUsedList', mGroups')
  OBVIOUS
<1>6. \A m : m \in R <=> \/ \E q \in DOMAIN mUsedList : mUsedList[q].node = m
                       \/ \E h \in DOMAIN mGroups' : m \in mGroups'[h]
  <2> SUFFICES ASSUME NEW m
               PROVE  m \in R <=> \/ \E q \in DOMAIN mUsedList : mUsedList[q].node = m
                                 \/ \E h \in DOMAIN mGroups' : m \in mGroups'[h]
    OBVIOUS
  <2>1. m \in Held({}, mUsedList', mGroups') <=>
            \/ m \in {}
            \/ \E q \in DOMAIN mUsedList' : mUsedList'[q].node = m
            \/ \E h \in DOMAIN mGroups' : m \in mGroups'[h]
    BY HeldMember
  <2> QED
    BY <1>1, <1>5, <2>1
<1>7. Held(mFreeList, mUsedList, mGroups) = mFreeList \union R \union {n}
  <2> SUFFICES ASSUME NEW m
               PROVE  m \in Held(mFreeList, mUsedList, mGroups) <=> m \in mFreeList \union R \union {n}
    OBVIOUS
  <2>1. (\E h \in DOMAIN mGroups : m \in mGroups[h])
            <=> m = n \/ \E h \in DOMAIN mGroups' : m \in mGroups'[h]
    BY <1>3
  <2>2. m \in Held(mFreeList, mUsedList, mGroups) <=>
            \/ m \in mFreeList
            \/ \E q \in DOMAIN mUsedList : mUsedList[q].node = m
            \/ \E h \in DOMAIN mGroups : m \in mGroups[h]
    BY HeldMember
  <2> QED
    BY <1>6, <2>1, <2>2
<1>8. n \notin mFreeList /\ n \notin R /\ R \intersect mFreeList = {}
  <2>1. \A h \in DOMAIN mGroups' : n \notin mGroups'[h] /\ mGroups'[h] \subseteq mGroups[h]
    BY <1>3, <1>4 DEF Exclusive
  <2>2. \A q \in DOMAIN mUsedList : mUsedList[q].node # n /\ mUsedList[q].node \notin mFreeList
    BY <1>4 DEF Exclusive
  <2>3. \A h \in DOMAIN mGroups' : mGroups'[h] \intersect mFreeList = {}
    BY <1>3, <1>4, <2>1 DEF Exclusive
  <2>4. n \notin R
    BY <1>6, <2>1, <2>2
  <2>5. n \notin mFreeList
    BY <1>4 DEF Exclusive
  <2>6. ASSUME NEW m \in R PROVE m \notin mFreeList
    BY <1>6, <2>2, <2>3
  <2> QED
    BY <2>4, <2>5, <2>6
<1>9. Returning(node, mAlign, mFreeList, R, n)
  BY <1>4, <1>7, <1>8 DEF Returning
<1>10. \A h \in DOMAIN mGroups : mGroups'[h] \subseteq mGroups[h]
  BY <1>3
<1> QED
  BY <1>1, <1>3, <1>5, <1>9, <1>10, ReturnKeeps

-----------------------------------------------------------------------------
(* The other steps.                                                        *)

LEMMA EmptyCore ==
    ASSUME NEW a
    PROVE  Core(<< >>, a, {}, Held({}, << >>, << >>))
<1>1. Held({}, << >>, << >>) = {} /\ DOMAIN << >> = {}
  BY DEF Held
<1>2. Forest({})
  <2>1. 0 \in Nat /\ \A n \in {} : Len(n) <= 0
    OBVIOUS
  <2> QED
    BY <2>1 DEF Forest
<1> QED
  BY <1>1, <1>2 DEF Core, Layout, Alive, Counting

LEMMA InitHolds == Init => IInv
<1> SUFFICES ASSUME Init PROVE IInv
  OBVIOUS
<1>1. /\ config \in Config /\ node = << >> /\ mFreeList = {} /\ mUsedList = << >> /\ mGroups = << >>
      /\ mCurrentFreeList = 0 /\ barrier = "none" /\ groupBytes = << >>
  BY DEF Init
<1>2. Core(node, mAlign, mFreeList, Held(mFreeList, mUsedList, mGroups))
  BY <1>1, EmptyCore
<1>3. Exclusive(mFreeList, mUsedList, mGroups) /\ ChunkInv
  BY <1>1 DEF Exclusive, ChunkInv
<1>4. PhaseInv
  <2>1. MaxGroups \in Nat
    BY <1>1, EagerAssumption DEF MaxGroups
  <2> QED
    BY <1>1, <2>1 DEF PhaseInv
<1>5. GroupInv
  BY <1>1 DEF GroupInv, GroupsDisjoint
<1> QED
  BY <1>2, <1>3, <1>4, <1>5 DEF IInv

LEMMA ReleaseAllKeeps ==
    ASSUME IInv, ReleaseAll, UNCHANGED config
    PROVE  IInv'
<1>1. /\ barrier = "none" /\ mUsedList' = << >> /\ mFreeList' = {} /\ node' = << >>
      /\ UNCHANGED <<mGroups, mCurrentFreeList, barrier, groupBytes>>
  BY DEF ReleaseAll
<1>2. mGroups = << >> /\ PhaseInv /\ GroupInv
  BY <1>1 DEF IInv, PhaseInv
<1>3. Core(node, mAlign, mFreeList, Held(mFreeList, mUsedList, mGroups))'
  BY <1>1, <1>2, EmptyCore
<1>4. Exclusive(mFreeList, mUsedList, mGroups)' /\ ChunkInv'
  BY <1>1, <1>2 DEF Exclusive, ChunkInv
<1>5. PhaseInv'
  BY <1>1, <1>2 DEF PhaseInv, MaxGroups
<1>6. GroupInv'
  BY <1>1, <1>2 DEF GroupInv, GroupsDisjoint
<1> QED
  BY <1>3, <1>4, <1>5, <1>6 DEF IInv

LEMMA ReleaseFreeKeeps ==
    ASSUME IInv, ReleaseFree, UNCHANGED config
    PROVE  IInv'
<1> DEFINE F1 == {z \in mFreeList : ~IsRoot(z)}
           R == Held({}, mUsedList, mGroups)
           H == F1 \union R
<1>1. /\ barrier = "none" /\ mFreeList' = F1 /\ KeepHeld(node)
      /\ UNCHANGED <<mUsedList, mGroups, mCurrentFreeList, barrier, groupBytes>>
  BY DEF ReleaseFree
<1>2. mGroups = << >> /\ PhaseInv /\ GroupInv /\ ChunkInv /\ Exclusive(mFreeList, mUsedList, mGroups)
  BY <1>1 DEF IInv, PhaseInv
<1>3. /\ Held(mFreeList, mUsedList, mGroups) = mFreeList \union R
      /\ Held(mFreeList', mUsedList', mGroups') = H
  BY <1>1 DEF Held
<1>4. R \intersect mFreeList = {}
  BY <1>2 DEF Held, Exclusive
<1>5. node' = Restrict(node, Kept(node, H))
  BY <1>1, <1>3 DEF KeepHeld, Kept
<1>6. Core(node, mAlign, mFreeList, mFreeList \union R)
  BY <1>3 DEF IInv
<1>7. Core(node', mAlign, F1, H)
  <2> HIDE DEF R
  <2>1. PICK g : g = node'
    OBVIOUS
  <2>2. PICK K : K = H
    OBVIOUS
  <2>3. K = {z \in mFreeList : ~IsRoot(z)} \union R /\ g = Restrict(node, Kept(node, K))
    BY <1>5, <2>1, <2>2
  <2>4. Core(g, mAlign, {z \in mFreeList : ~IsRoot(z)}, K)
    BY <1>4, <1>6, <2>3, DropRoots
  <2> QED
    BY <2>1, <2>2, <2>4
<1>8. Core(node, mAlign, mFreeList, Held(mFreeList, mUsedList, mGroups))'
  BY <1>1, <1>3, <1>7 DEF mAlign
<1>9. \A p \in DOMAIN mUsedList : node'[mUsedList[p].node] = node[mUsedList[p].node]
  <2> SUFFICES ASSUME NEW p \in DOMAIN mUsedList PROVE node'[mUsedList[p].node] = node[mUsedList[p].node]
    OBVIOUS
  <2>1. mUsedList[p].node \in H
    BY HeldMember
  <2> HIDE DEF H
  <2>2. mUsedList[p].node \in DOMAIN node'
    BY <1>7, <2>1 DEF Core, Alive
  <2> QED
    BY <1>5, <2>2 DEF Restrict
<1>10. Exclusive(mFreeList, mUsedList, mGroups)'
  BY <1>1, <1>2 DEF Exclusive
<1>11. ChunkInv'
  BY <1>1, <1>2, <1>9 DEF ChunkInv
<1>12. PhaseInv'
  BY <1>1, <1>2 DEF PhaseInv, MaxGroups
<1>13. GroupInv'
  BY <1>1, <1>2 DEF GroupInv, GroupsDisjoint
<1> QED
  BY <1>8, <1>10, <1>11, <1>12, <1>13 DEF IInv

LEMMA BarrierDoneKeeps ==
    ASSUME IInv, BarrierDone, UNCHANGED config
    PROVE  IInv'
<1>1. /\ barrier = "closing" /\ barrier' = "none" /\ mGroups' = << >> /\ groupBytes' = << >>
      /\ \A g \in DOMAIN mGroups : mGroups[g] = {}
      /\ mUsedList' = [p \in DOMAIN mUsedList |-> [mUsedList[p] EXCEPT !.group = 0]]
      /\ UNCHANGED <<node, mFreeList, mCurrentFreeList>>
  BY DEF BarrierDone
<1>2. /\ PhaseInv /\ ChunkInv /\ Exclusive(mFreeList, mUsedList, mGroups)
      /\ Core(node, mAlign, mFreeList, Held(mFreeList, mUsedList, mGroups))
      /\ mCurrentFreeList = 0
  BY <1>1 DEF IInv, PhaseInv
<1>3. /\ DOMAIN mUsedList' = DOMAIN mUsedList
      /\ \A p \in DOMAIN mUsedList : mUsedList'[p] = [mUsedList[p] EXCEPT !.group = 0]
  BY <1>1
<1>4. \A p \in DOMAIN mUsedList :
          /\ mUsedList'[p].node = mUsedList[p].node /\ mUsedList'[p].size = mUsedList[p].size
          /\ mUsedList'[p].align = mUsedList[p].align
          /\ mUsedList'[p] \in [node : Names, size : Nat \ {0}, align : Nat \ {0}, group : {0}]
  BY <1>2, <1>3 DEF ChunkInv
<1>5. Held(mFreeList', mUsedList', mGroups') = Held(mFreeList, mUsedList, mGroups)
  BY <1>1, <1>3, <1>4 DEF Held
<1>6. Core(node, mAlign, mFreeList, Held(mFreeList, mUsedList, mGroups))'
  BY <1>1, <1>2, <1>5 DEF mAlign
<1>7. Exclusive(mFreeList, mUsedList, mGroups)'
  BY <1>1, <1>2, <1>3, <1>4 DEF Exclusive
<1>8. ChunkInv'
  BY <1>1, <1>2, <1>3, <1>4 DEF ChunkInv
<1>9. PhaseInv'
  <2>1. MaxGroups' = MaxGroups /\ MaxGroups \in Nat
    BY <1>2, ConfigFacts DEF MaxGroups
  <2> QED
    BY <1>1, <1>2, <2>1 DEF PhaseInv
<1>10. GroupInv'
  BY <1>1 DEF GroupInv, GroupsDisjoint
<1> QED
  BY <1>6, <1>7, <1>8, <1>9, <1>10 DEF IInv

LEMMA BeginGroupKeeps ==
    ASSUME IInv, BeginGroup, UNCHANGED config
    PROVE  IInv'
<1>1. /\ barrier = "open" /\ Len(mGroups) < MaxGroups
      /\ mGroups' = Append(mGroups, {}) /\ mCurrentFreeList' = Len(mGroups) + 1
      /\ groupBytes' = Append(groupBytes, {})
      /\ UNCHANGED <<node, mFreeList, mUsedList, barrier>>
  BY DEF BeginGroup
<1>2. /\ PhaseInv /\ ChunkInv /\ GroupInv /\ Exclusive(mFreeList, mUsedList, mGroups)
      /\ Core(node, mAlign, mFreeList, Held(mFreeList, mUsedList, mGroups))
  BY DEF IInv
<1>3. PICK k \in Nat : k = Len(mGroups)
  BY ListFacts
<1>4. /\ DOMAIN mGroups = 1 .. k /\ DOMAIN mGroups' = 1 .. k + 1 /\ Len(mGroups') = k + 1
      /\ \A g \in 1 .. k : mGroups'[g] = mGroups[g]
      /\ mGroups'[k + 1] = {} /\ mGroups' \in Seq(SUBSET Names)
  BY <1>1, <1>2, <1>3 DEF PhaseInv
<1>5. /\ DOMAIN groupBytes = 1 .. k /\ DOMAIN groupBytes' = 1 .. k + 1 /\ Len(groupBytes') = k + 1
      /\ \A g \in 1 .. k : groupBytes'[g] = groupBytes[g]
      /\ groupBytes'[k + 1] = {} /\ groupBytes' \in Seq(SUBSET (Block \X Nat))
  BY <1>1, <1>2, <1>3 DEF PhaseInv
<1>6. \A g \in 1 .. k + 1 : g \in 1 .. k \/ g = k + 1
  OBVIOUS
<1>7. Held(mFreeList', mUsedList', mGroups') = Held(mFreeList, mUsedList, mGroups)
  <2>1. UNION {mGroups'[g] : g \in DOMAIN mGroups'} = UNION {mGroups[g] : g \in DOMAIN mGroups}
    BY <1>4, <1>6
  <2> QED
    BY <1>1, <2>1 DEF Held
<1>8. Core(node, mAlign, mFreeList, Held(mFreeList, mUsedList, mGroups))'
  BY <1>1, <1>2, <1>7 DEF mAlign
<1>9. Exclusive(mFreeList, mUsedList, mGroups)'
  BY <1>1, <1>2, <1>4, <1>6 DEF Exclusive
<1>10. ChunkInv'
  <2>1. 0 .. k \subseteq 0 .. k + 1
    BY <1>3
  <2> QED
    BY <1>1, <1>2, <1>3, <1>4, <2>1 DEF ChunkInv
<1>11. PhaseInv'
  BY <1>1, <1>2, <1>3, <1>4, <1>5, ConfigFacts DEF PhaseInv, MaxGroups
<1>12. GroupInv'
  <2>1. GroupsDisjoint'
    BY <1>2, <1>5, <1>6 DEF GroupInv, GroupsDisjoint
  <2>2. ASSUME NEW g \in DOMAIN groupBytes', NEW x \in groupBytes'[g]
        PROVE  \E m \in DOMAIN node : Owns(g, m)' /\ x \in NodeBytes(m)'
    <3>1. g \in 1 .. k /\ x \in groupBytes[g]
      BY <1>5, <1>6
    <3>2. PICK m \in DOMAIN node : Owns(g, m) /\ x \in NodeBytes(m)
      BY <1>1, <1>2, <1>5, <3>1 DEF GroupInv
    <3>3. Owns(g, m)' /\ x \in NodeBytes(m)'
      BY <1>1, <1>4, <3>1, <3>2 DEF Owns, NodeBytes
    <3> QED
      BY <3>3
  <2> QED
    BY <1>1, <2>1, <2>2 DEF GroupInv
<1> QED
  BY <1>8, <1>9, <1>10, <1>11, <1>12 DEF IInv

\* A step that touches neither nodes nor lists: the caller's barrier, the end of a
\* group, or no step at all.
LEMMA CallerKeeps ==
    ASSUME IInv, UNCHANGED <<config, node, mFreeList, mUsedList, mGroups, groupBytes>>,
           mCurrentFreeList' \in {0, mCurrentFreeList},
           barrier' \in {"none", "open", "closing"},
           barrier' = "none" => mGroups = << >>,
           barrier' # "open" => mCurrentFreeList' = 0,
           barrier' = "open" => barrier = "open" \/ mGroups = << >>
    PROVE  IInv'
<1>1. /\ PhaseInv /\ ChunkInv /\ GroupInv /\ Exclusive(mFreeList, mUsedList, mGroups)
      /\ Core(node, mAlign, mFreeList, Held(mFreeList, mUsedList, mGroups))
  BY DEF IInv
<1>2. Core(node, mAlign, mFreeList, Held(mFreeList, mUsedList, mGroups))'
  BY <1>1 DEF mAlign, Held
<1>3. Exclusive(mFreeList, mUsedList, mGroups)'
  BY <1>1 DEF Exclusive
<1>4. ChunkInv'
  BY <1>1 DEF ChunkInv
<1>5. PhaseInv'
  BY <1>1 DEF PhaseInv, MaxGroups
<1>6. GroupInv'
  <2>1. GroupsDisjoint'
    BY <1>1 DEF GroupInv, GroupsDisjoint
  <2>2. ASSUME barrier' = "open", NEW g \in DOMAIN groupBytes, NEW x \in groupBytes[g]
        PROVE  \E m \in DOMAIN node : Owns(g, m)' /\ x \in NodeBytes(m)'
    <3>1. CASE mGroups = << >>
      BY <1>1, <3>1 DEF PhaseInv
    <3>2. CASE mGroups # << >>
      <4>1. PICK m \in DOMAIN node : Owns(g, m) /\ x \in NodeBytes(m)
        BY <1>1, <2>2, <3>2 DEF GroupInv
      <4> QED
        BY <4>1 DEF Owns, NodeBytes
    <3> QED
      BY <3>1, <3>2
  <2> QED
    BY <2>1, <2>2 DEF GroupInv
<1> QED
  BY <1>2, <1>3, <1>4, <1>5, <1>6 DEF IInv

LEMMA NextKeeps ==
    ASSUME IInv, [Next]_vars
    PROVE  IInv'
<1>1. CASE UNCHANGED vars
  BY <1>1, CallerKeeps DEF vars, IInv, PhaseInv
<1>2. ASSUME Next PROVE IInv'
  <2> USE <1>2
  <2>1. UNCHANGED config
    BY DEF Next
  <2>2. ASSUME NEW size \in config.Size, NEW separate \in BOOLEAN, NEW align \in config.AlignArg,
               Alloc(size, separate, align)
        PROVE  IInv'
    BY <2>1, <2>2, AllocKeeps
  <2>3. ASSUME NEW p \in DOMAIN mUsedList, Free(p) PROVE IInv'
    BY <2>1, <2>3, FreeKeeps
  <2>4. CASE ReleaseAll
    BY <2>1, <2>4, ReleaseAllKeeps
  <2>5. CASE ReleaseFree
    BY <2>1, <2>5, ReleaseFreeKeeps
  <2>6. CASE BarrierBegin
    <3>1. mCurrentFreeList = 0 /\ mGroups = << >>
      BY <2>6 DEF BarrierBegin, IInv, PhaseInv
    <3> QED
      BY <2>1, <2>6, <3>1, CallerKeeps DEF BarrierBegin
  <2>7. CASE BeginGroup
    BY <2>1, <2>7, BeginGroupKeeps
  <2>8. CASE EndGroup
    <3>1. barrier = "open"
      BY <2>8 DEF EndGroup, IInv, PhaseInv
    <3> QED
      BY <2>1, <2>8, <3>1, CallerKeeps DEF EndGroup
  <2>9. CASE BarrierEnd
    BY <2>1, <2>9, CallerKeeps DEF BarrierEnd
  <2>10. ASSUME NEW g \in DOMAIN mGroups, NEW n \in mGroups[g], BarrierReturn(g, n) PROVE IInv'
    BY <2>1, <2>10, BarrierReturnKeeps
  <2>11. CASE BarrierDone
    BY <2>1, <2>11, BarrierDoneKeeps
  <2> QED
    BY <2>2, <2>3, <2>4, <2>5, <2>6, <2>7, <2>8, <2>9, <2>10, <2>11 DEF Next, Step
<1> QED
  BY <1>1, <1>2

\* The inductive invariant holds in every reachable state.
LEMMA Inductive == Spec => []IInv
<1>1. Init => IInv
  BY InitHolds
<1>2. IInv /\ [Next]_vars => IInv'
  BY NextKeeps
<1> QED
  BY <1>1, <1>2, PTL DEF Spec

-----------------------------------------------------------------------------
(* totalSize() through every step.                                         *)

\* SumInv adds nothing IInv does not have but the sizes and the arguments.
LEMMA KeptSums ==
    ASSUME SumInv, IInv', SizesKept, UNCHANGED <<config, mTotalSize>>,
           \A p \in DOMAIN mUsedList' :
               \/ /\ p \in DOMAIN mUsedList /\ mUsedList'[p].size = mUsedList[p].size
                  /\ mUsedList'[p].align = mUsedList[p].align
               \/ mUsedList'[p].size \in config.Size /\ mUsedList'[p].align \in config.AlignArg
    PROVE  SumInv'
<1>1. Forest(DOMAIN node')
  BY DEF IInv, Core
<1>2. PICK g : g = node'
  OBVIOUS
<1>3. SizeInv(g, mTotalSize)
  BY <1>1, <1>2, KeepSized DEF SizesKept, SumInv
<1>4. ArgInv(mUsedList', config)
  BY DEF SumInv, ArgInv
<1> QED
  BY <1>2, <1>3, <1>4 DEF SumInv

\* mUsedList.insert of a request.
LEMMA UseArgs ==
    ASSUME SumInv, NEW size \in config.Size, NEW align \in config.AlignArg, NEW n, NEW off,
           Use(n, off, size, align)
    PROVE  ArgInv(mUsedList', config)
<1>1. PICK q : q = <<Head(n), off>>
  OBVIOUS
<1>2. PICK u : u = [node |-> n, size |-> size, align |-> align, group |-> mCurrentFreeList]
  OBVIOUS
<1>3. mUsedList' = Insert(mUsedList, q, u)
  BY <1>1, <1>2 DEF Use
<1>4. u.size = size /\ u.align = align
  BY <1>2
<1> QED
  BY <1>3, <1>4 DEF SumInv, ArgInv, Insert

\* A request served from a group, or with a whole free node.
LEMMA TakeSums ==
    ASSUME SumInv, IInv', NEW size \in config.Size, NEW align \in config.AlignArg, NEW n, NEW off,
           Use(n, off, size, align), DOMAIN node' = DOMAIN node,
           \A m \in DOMAIN node : node'[m].size = node[m].size,
           UNCHANGED <<config, mTotalSize>>
    PROVE  SumInv'
<1>1. ArgInv(mUsedList', config)
  BY UseArgs
<1>2. SizesKept
  BY DEF SizesKept, SameSizes, Roots
<1>3. \A p \in DOMAIN mUsedList' : mUsedList'[p].size \in config.Size /\ mUsedList'[p].align \in config.AlignArg
  BY <1>1 DEF ArgInv
<1> QED
  BY <1>2, <1>3, KeptSums

\* alloc adds to the total what it adds as a block, and nothing when it reuses a node.
LEMMA AllocSums ==
    ASSUME IInv, SumInv, IInv', NEW size \in config.Size, NEW separate \in BOOLEAN,
           NEW align \in config.AlignArg, Alloc(size, separate, align), UNCHANGED config
    PROVE  SumInv'
<1>1. CASE TakeFromGroup(size, align)
  <2>1. PICK n \in LowerBound(mGroups[mCurrentFreeList], size, align) :
            Use(n, AlignedOff(n, align), size, align)
    BY <1>1 DEF TakeFromGroup
  <2>2. UNCHANGED <<node, mTotalSize>>
    BY <1>1 DEF TakeFromGroup
  <2> QED
    BY <2>1, <2>2, TakeSums
<1>2. CASE TakeFromFreeList(size, align)
  <2>1. PICK n \in LowerBound(mFreeList, size, align) : TakeWhole(n, size, align) \/ Split(n, size, align)
    BY <1>2 DEF TakeFromFreeList
  <2>2. UNCHANGED mTotalSize
    BY <1>2 DEF TakeFromFreeList
  <2>3. /\ n \in mFreeList /\ n \in DOMAIN node /\ Forest(DOMAIN node) /\ IsLeaf(DOMAIN node, n)
        /\ \A m \in DOMAIN node : node[m] \in [off : Nat, size : Nat, useCount : Int]
    BY <2>1, ListFacts DEF LowerBound
  <2>4. CASE TakeWhole(n, size, align)
    <3>1. /\ Use(n, AlignedOff(n, align), size, align)
          /\ node' = IF IsRoot(n) THEN node ELSE Counted(node, Parent(n), 1)
      BY <2>4 DEF TakeWhole, TakeWholeCounting
    <3>2. CountsBy(node, node', n, 1)
      BY <2>3, <3>1, CountedFacts
    <3>3. DOMAIN node' = DOMAIN node /\ \A m \in DOMAIN node : node'[m].size = node[m].size
      BY <3>2 DEF CountsBy
    <3> QED
      BY <2>2, <3>1, <3>3, TakeSums
  <2>5. CASE Split(n, size, align)
    <3>1. PICK s : s = SizeAlign(n, size, align)
      OBVIOUS
    <3>2. s \in Nat /\ s <= node[n].size /\ SplitsTo(node, node', n, s)
      BY <2>1, <2>5, <3>1, SplitNodes
    <3>3. Use(Child(n, 0), AlignedOff(n, align), size, align)
      BY <2>5 DEF Split, SplitAt
    <3>4. ArgInv(mUsedList', config)
      BY <3>3, UseArgs
    <3>5. Forest(DOMAIN node')
      BY DEF IInv, Core
    <3>6. PICK g : g = node'
      OBVIOUS
    <3>7. SizeInv(g, mTotalSize)
      BY <2>3, <3>2, <3>5, <3>6, SplitSized DEF SumInv
    <3> QED
      BY <2>2, <3>4, <3>6, <3>7 DEF SumInv
  <2> QED
    BY <2>1, <2>4, <2>5
<1>3. ASSUME NEW b \in Block, TakeFresh(b, size, align) PROVE SumInv'
  <2> DEFINE allocSize == IF mMinAllocSize > size THEN mMinAllocSize ELSE size
             root == <<b>>
             s == UpTo(size, mAlign)
  <2>1. size \in Nat \ {0} /\ mMinAllocSize \in Nat
    BY ConfigFacts DEF IInv
  <2>2. /\ b \notin {Head(n) : n \in DOMAIN node} /\ mTotalSize' = mTotalSize + allocSize
    BY <1>3 DEF TakeFresh, TakeFreshCounting
  <2>3. PICK o \in config.Offset :
            \/ /\ allocSize > size
               /\ Use(Child(root, 0), o, size, align)
               /\ node' = Insert(Insert(Insert(node, root, [off |-> o, size |-> allocSize, useCount |-> 1]),
                                        Child(root, 0), [off |-> o, size |-> s, useCount |-> 0]),
                                 Child(root, 1),
                                 [off |-> o + s, size |-> allocSize - s, useCount |-> 0])
            \/ /\ allocSize = size
               /\ Use(root, o, size, align)
               /\ node' = Insert(node, root, [off |-> o, size |-> allocSize, useCount |-> 0])
    BY <1>3 DEF TakeFresh, TakeFreshCounting
  <2>4. ArgInv(mUsedList', config)
    BY <2>3, UseArgs
  <2>5. Forest(DOMAIN node') /\ SizeInv(node, mTotalSize) /\ Forest(DOMAIN node)
    BY ListFacts DEF IInv, Core, SumInv
  <2>6. CASE allocSize = size
    <3>1. root \notin DOMAIN node
      BY <2>2, <2>5, FreshNames
    <3>2. node' = Insert(node, root, [off |-> o, size |-> size, useCount |-> 0])
      BY <2>1, <2>3, <2>6
    <3>3. PICK g : g = node'
      OBVIOUS
    <3>4. /\ DOMAIN g = DOMAIN node \union {<<b>>} /\ \A m \in DOMAIN node : g[m] = node[m]
          /\ g[<<b>>].size = size /\ Forest(DOMAIN g)
      BY <2>5, <3>1, <3>2, <3>3 DEF Insert
    <3>5. SizeInv(g, mTotalSize + size)
      BY <2>1, <2>2, <2>5, <3>4, AddSized
    <3> QED
      BY <2>2, <2>4, <2>6, <3>3, <3>5 DEF SumInv
  <2>7. CASE allocSize # size
    <3>1. mMinAllocSize > size /\ allocSize = mMinAllocSize
      BY <2>1, <2>7
    <3>2. PICK s0 : s0 = s
      OBVIOUS
    <3> HIDE DEF allocSize, s
    <3>3. node' = Insert(Insert(Insert(node, <<b>>, [off |-> o, size |-> mMinAllocSize, useCount |-> 1]),
                                Child(<<b>>, 0), [off |-> o, size |-> s0, useCount |-> 0]),
                         Child(<<b>>, 1), [off |-> o + s0, size |-> mMinAllocSize - s0, useCount |-> 0])
      BY <2>3, <2>7, <3>1, <3>2
    <3>4. FreshSplit(b, o, size, s0)
      BY <2>2, <3>1, <3>2, <3>3 DEF FreshSplit, s
    <3>5. PICK f : WholeFirst(b, o, size, s0, f)
      BY <3>4, FreshSplitNodes
    <3>6. /\ s0 \in Nat /\ s0 <= mMinAllocSize /\ SplitsTo(f, node', <<b>>, s0)
          /\ DOMAIN f = DOMAIN node \union {<<b>>} /\ \A m \in DOMAIN node : f[m] = node[m]
          /\ f[<<b>>] = [off |-> o, size |-> mMinAllocSize, useCount |-> 0]
          /\ Forest(DOMAIN f)
          /\ Alive(DOMAIN f, Held(mFreeList, mUsedList, mGroups) \union {<<b>>})
      BY <3>5 DEF WholeFirst, Core
    <3>7. f[<<b>>].size = mMinAllocSize /\ <<b>> \in DOMAIN f /\ IsLeaf(DOMAIN f, <<b>>)
      BY <3>6 DEF Alive
    <3>8. SizeInv(f, mTotalSize + mMinAllocSize)
      BY <2>1, <2>2, <2>5, <3>6, <3>7, AddSized
    <3>9. PICK g : g = node'
      OBVIOUS
    <3>10. SizeInv(g, mTotalSize + mMinAllocSize)
      BY <2>5, <3>6, <3>7, <3>8, <3>9, SplitSized
    <3> QED
      BY <2>2, <2>4, <3>1, <3>9, <3>10 DEF SumInv
  <2> QED
    BY <2>6, <2>7
<1> QED
  BY <1>1, <1>2, <1>3 DEF Alloc

\* free gives a node back and merges; no whole block goes.
LEMMA FreeSums ==
    ASSUME IInv, SumInv, IInv', NEW p \in DOMAIN mUsedList, Free(p), UNCHANGED config
    PROVE  SumInv'
<1>1. /\ mUsedList' = Restrict(mUsedList, DOMAIN mUsedList \ {p}) /\ UNCHANGED mTotalSize
  BY DEF Free, FreeInto
<1>2. \A q \in DOMAIN mUsedList' : q \in DOMAIN mUsedList /\ mUsedList'[q] = mUsedList[q]
  BY <1>1 DEF Restrict
<1>3. SizesKept
  BY FreeKeeps
<1> QED
  BY <1>1, <1>2, <1>3, KeptSums

\* barrierEnd gives back what a group holds; no whole block goes.
LEMMA BarrierReturnSums ==
    ASSUME IInv, SumInv, IInv', NEW g \in DOMAIN mGroups, NEW n \in mGroups[g], BarrierReturn(g, n),
           UNCHANGED config
    PROVE  SumInv'
<1>1. UNCHANGED <<mUsedList, mTotalSize>>
  BY DEF BarrierReturn, BarrierTake
<1>2. SizesKept
  BY BarrierReturnKeeps
<1> QED
  BY <1>1, <1>2, KeptSums

\* An allocator without blocks.
LEMMA EmptySums ==
    ASSUME NEW c
    PROVE  SizeInv(<< >>, 0) /\ ArgInv(<< >>, c)
<1>1. DOMAIN << >> = {}
  OBVIOUS
<1>2. Forest({})
  <2>1. 0 \in Nat /\ \A n \in {} : Len(n) <= 0
    OBVIOUS
  <2> QED
    BY <2>1 DEF Forest
<1>3. Summable(<< >>, {})
  BY FS_EmptySet DEF Summable
<1>4. Roots({}) = {} /\ Inner({}) = {}
  BY DEF Roots, Inner
<1>5. Total(<< >>, {}) = 0
  BY TotalEmpty
<1> QED
  BY <1>1, <1>2, <1>3, <1>4, <1>5 DEF SizeInv, Sized, Parts, ArgInv

\* release(false): the whole blocks that are free leave totalSize() by their sizes.
LEMMA ReleaseFreeSums ==
    ASSUME IInv, SumInv, IInv', ReleaseFree, UNCHANGED config
    PROVE  SumInv'
<1>1. PICK Z : Z = {z \in mFreeList : IsRoot(z)}
  OBVIOUS
<1>2. PICK g : g = node'
  OBVIOUS
<1>3. PICK D : D = DOMAIN node
  OBVIOUS
<1>4. PICK K : K = DOMAIN g
  OBVIOUS
<1>5. PICK H : H = Held(mFreeList', mUsedList', mGroups')
  OBVIOUS
<1>6. /\ mFreeList' = mFreeList \ Z /\ mTotalSize' = mTotalSize - SizeOf(Z)
      /\ UNCHANGED <<mUsedList, mGroups>> /\ KeepHeld(node)
  BY <1>1 DEF ReleaseFree
<1>7. g = Restrict(node, D \intersect (H \union UNION {Ancestors(h) : h \in H}))
  BY <1>2, <1>3, <1>5, <1>6 DEF KeepHeld
<1>8. K \subseteq D /\ SameSizes(node, g)
  BY <1>3, <1>4, <1>7 DEF Restrict, SameSizes
<1>9. Forest(K) /\ Alive(K, H)
  BY <1>2, <1>4, <1>5 DEF IInv, Core
<1>10. /\ Forest(D) /\ D \subseteq Names
       /\ Alive(D, Held(mFreeList, mUsedList, mGroups)) /\ Exclusive(mFreeList, mUsedList, mGroups)
  BY <1>3 DEF IInv, Core, Forest
<1>11. \A m : m \in Held(mFreeList, mUsedList, mGroups) => m \in H \/ m \in Z
  BY <1>5, <1>6, HeldMember
<1>12. \A z \in Z : z \notin H /\ IsLeaf(D, z) /\ z \in D /\ IsRoot(z)
  <2>1. \A z \in Z : z \notin H
    BY <1>1, <1>5, <1>6, <1>10, HeldMember DEF Exclusive
  <2> QED
    BY <1>1, <1>3, <2>1, ListFacts
<1>13. ASSUME NEW z \in Z, z \in K PROVE FALSE
  <2>1. PICK h \in H : Below(z, h)
    BY <1>9, <1>13 DEF Alive
  <2>2. h \in K /\ h \in D /\ z \in Names
    BY <1>8, <1>9, <1>10, <1>12 DEF Alive
  <2>3. z = h
    BY <1>10, <1>12, <2>1, <2>2, ForestBelow
  <2> QED
    BY <1>12, <2>1, <2>3
<1>14. ASSUME NEW r \in D, IsRoot(r), r \notin Z PROVE r \in K
  <2>1. PICK h \in Held(mFreeList, mUsedList, mGroups) : Below(r, h)
    BY <1>10 DEF Alive
  <2>2. h \in D /\ r \in Names /\ h \in Names
    BY <1>10, <2>1 DEF Alive
  <2>3. CASE h \in Z
    <3>1. r = h
      BY <1>12, <2>1, <2>2, <2>3, RootAlone
    <3> QED
      BY <1>14, <2>3, <3>1
  <2>4. CASE h \in H
    <3>1. h \in K
      BY <1>9, <2>4 DEF Alive
    <3> QED
      BY <1>9, <2>1, <2>2, <3>1, ForestBelow
  <2> QED
    BY <1>11, <2>3, <2>4
<1>15. Z = Roots(D) \ Roots(K)
  BY <1>8, <1>12, <1>13, <1>14 DEF Roots
<1>16. SizeInv(g, mTotalSize - Total(node, Z))
  BY <1>3, <1>4, <1>8, <1>9, <1>15, ShrinkSized DEF SumInv
<1>17. SizeOf(Z) = Total(node, Z)
  BY DEF SizeOf, Total
<1>18. ArgInv(mUsedList', config)
  BY <1>6 DEF SumInv
<1> QED
  BY <1>2, <1>6, <1>16, <1>17, <1>18 DEF SumInv

\* Every step keeps the total.
LEMMA NextSums ==
    ASSUME IInv, SumInv, [Next]_vars
    PROVE  SumInv'
<1>1. IInv'
  BY NextKeeps
<1>2. ASSUME UNCHANGED <<config, node, mUsedList, mTotalSize>> PROVE SumInv'
  BY <1>2 DEF SumInv
<1>3. CASE UNCHANGED vars
  BY <1>2, <1>3 DEF vars
<1>4. ASSUME Next PROVE SumInv'
  <2> USE <1>4
  <2>1. UNCHANGED config
    BY DEF Next
  <2>2. ASSUME NEW size \in config.Size, NEW separate \in BOOLEAN, NEW align \in config.AlignArg,
               Alloc(size, separate, align)
        PROVE  SumInv'
    BY <1>1, <2>1, <2>2, AllocSums
  <2>3. ASSUME NEW p \in DOMAIN mUsedList, Free(p) PROVE SumInv'
    BY <1>1, <2>1, <2>3, FreeSums
  <2>4. CASE ReleaseAll
    <3>1. node' = << >> /\ mTotalSize' = 0 /\ mUsedList' = << >>
      BY <2>4 DEF ReleaseAll
    <3> QED
      BY <3>1, EmptySums DEF SumInv
  <2>5. CASE ReleaseFree
    BY <1>1, <2>1, <2>5, ReleaseFreeSums
  <2>6. CASE BarrierBegin \/ BeginGroup \/ EndGroup \/ BarrierEnd
    BY <1>2, <2>1, <2>6 DEF BarrierBegin, BeginGroup, EndGroup, BarrierEnd
  <2>7. ASSUME NEW g \in DOMAIN mGroups, NEW n \in mGroups[g], BarrierReturn(g, n) PROVE SumInv'
    BY <1>1, <2>1, <2>7, BarrierReturnSums
  <2>8. CASE BarrierDone
    <3>1. /\ UNCHANGED <<node, mTotalSize>>
          /\ mUsedList' = [p \in DOMAIN mUsedList |-> [mUsedList[p] EXCEPT !.group = 0]]
      BY <2>8 DEF BarrierDone
    <3>2. SizesKept
      BY <3>1 DEF SizesKept, SameSizes, Roots
    <3>3. ASSUME NEW p \in DOMAIN mUsedList'
          PROVE  /\ p \in DOMAIN mUsedList /\ mUsedList'[p].size = mUsedList[p].size
                 /\ mUsedList'[p].align = mUsedList[p].align
      <4>1. p \in DOMAIN mUsedList /\ mUsedList'[p] = [mUsedList[p] EXCEPT !.group = 0]
        BY <3>1
      <4>2. mUsedList[p] \in [node : Names, size : Nat \ {0}, align : Nat \ {0}, group : 0 .. Len(mGroups)]
        BY <4>1 DEF IInv, ChunkInv
      <4> QED
        BY <4>1, <4>2
    <3> QED
      BY <1>1, <2>1, <3>1, <3>2, <3>3, KeptSums
  <2> QED
    BY <2>2, <2>3, <2>4, <2>5, <2>6, <2>7, <2>8 DEF Next, Step
<1> QED
  BY <1>3, <1>4

\* totalSize() is the sum of the whole blocks in every reachable state.
LEMMA SumsInductive == Spec => []SumInv
<1>1. Init => SumInv
  BY EmptySums DEF Init, SumInv
<1>2. IInv /\ SumInv /\ [Next]_vars => SumInv'
  BY NextSums
<1> QED
  BY <1>1, <1>2, Inductive, PTL DEF Spec

-----------------------------------------------------------------------------
(* What the invariant says.                                                *)

LEMMA DisjointHolds ==
    ASSUME IInv
    PROVE  ChunksDisjoint
<1> DEFINE H == Held(mFreeList, mUsedList, mGroups)
<1>1. /\ ChunkInv /\ Exclusive(mFreeList, mUsedList, mGroups)
      /\ Core(node, mAlign, mFreeList, H)
  BY DEF IInv
<1>2. /\ Forest(DOMAIN node)
      /\ \A n \in DOMAIN node : n \in Names /\ node[n].off \in Nat /\ node[n].size \in Nat
  BY ListFacts
<1>3. ASSUME NEW p \in DOMAIN mUsedList
      PROVE  LET n == mUsedList[p].node
             IN  /\ n \in H /\ n \in DOMAIN node /\ p[1] = n[1]
                 /\ ChunkBytes(p) \subseteq Bytes(n[1], node[n].off, node[n].size)
  <2> DEFINE n == mUsedList[p].node
  <2>1. n \in H
    BY HeldMember
  <2>2. n \in DOMAIN node
    BY ListFacts
  <2>3. /\ p = <<n[1], p[2]>> /\ p[2] \in Nat /\ mUsedList[p].size \in Nat \ {0}
        /\ node[n].off <= p[2] /\ p[2] + mUsedList[p].size <= node[n].off + node[n].size
    BY <1>1 DEF ChunkInv
  <2> HIDE DEF n, H
  <2>4. p[1] = n[1]
    BY <2>3
  <2>5. Bytes(n[1], p[2], mUsedList[p].size) \subseteq Bytes(n[1], node[n].off, node[n].size)
    BY <1>2, <2>2, <2>3, BytesWithin
  <2> QED
    BY <2>1, <2>2, <2>4, <2>5 DEF ChunkBytes, n
<1>4. \A n \in DOMAIN node : NodeBytes(n) = Bytes(n[1], node[n].off, node[n].size)
  BY <1>2, NameFacts DEF NodeBytes
<1> HIDE DEF H
<1>5. ASSUME NEW p \in DOMAIN mUsedList, NEW q \in DOMAIN mUsedList, p # q, NEW x \in ChunkBytes(p),
             x \in ChunkBytes(q)
      PROVE  FALSE
  <2>1. mUsedList[p].node # mUsedList[q].node
    BY <1>1, <1>5 DEF Exclusive
  <2> DEFINE n == mUsedList[p].node
             m == mUsedList[q].node
  <2>2. /\ n \in H /\ x \in Bytes(n[1], node[n].off, node[n].size)
        /\ m \in H /\ x \in Bytes(m[1], node[m].off, node[m].size)
    BY <1>3, <1>5
  <2> HIDE DEF n, m
  <2>3. n # m
    BY <2>1 DEF n, m
  <2> QED
    BY <1>1, <2>2, <2>3, BytesApart
<1>6. ASSUME NEW p \in DOMAIN mUsedList, NEW x \in ChunkBytes(p), NEW m, x \in NodeBytes(m),
             m \in mFreeList \/ \E g \in DOMAIN mGroups : m \in mGroups[g]
      PROVE  FALSE
  <2> DEFINE n == mUsedList[p].node
  <2>1. n # m
    BY <1>1, <1>6 DEF Exclusive
  <2>2. m \in H
    BY <1>6, HeldMember DEF H
  <2>3. m \in DOMAIN node
    BY <1>1, <2>2 DEF Core, Alive
  <2>4. n \in H /\ x \in Bytes(n[1], node[n].off, node[n].size)
    BY <1>3
  <2>5. x \in Bytes(m[1], node[m].off, node[m].size)
    BY <1>4, <1>6, <2>3
  <2> HIDE DEF n
  <2> QED
    BY <1>1, <2>1, <2>2, <2>4, <2>5, BytesApart
<1>7. ASSUME NEW p \in DOMAIN mUsedList PROVE ChunkBytes(p) \subseteq NodeBytes(<<p[1]>>)
  <2> DEFINE n == mUsedList[p].node
  <2>1. /\ n \in DOMAIN node /\ p[1] = n[1] /\ ChunkBytes(p) \subseteq Bytes(n[1], node[n].off, node[n].size)
    BY <1>3
  <2> HIDE DEF n
  <2>2. n \in Names /\ n[1] \in Block
    BY <1>2, <2>1, NameFacts
  <2> DEFINE r == <<n[1]>>
  <2>3. r \in Names /\ Len(r) = 1 /\ r[1] = n[1]
    BY <2>2, RootName
  <2>4. Below(r, n)
    <3>1. Len(n) \in Nat /\ Len(n) >= 1
      BY <2>2, NameFacts
    <3>2. \A i \in 1 .. 1 : i = 1
      OBVIOUS
    <3> HIDE DEF r
    <3> QED
      BY <2>3, <3>1, <3>2 DEF Below
  <2>5. r \in DOMAIN node
    BY <1>2, <2>1, <2>3, <2>4, ForestBelow
  <2>6. Inside(node, r, n)
    BY <1>1, <2>1, <2>4, <2>5 DEF Core, Layout
  <2>7. Bytes(n[1], node[n].off, node[n].size) \subseteq Bytes(n[1], node[r].off, node[r].size)
    BY <1>2, <2>1, <2>5, <2>6, BytesWithin DEF Inside
  <2>8. NodeBytes(r) = Bytes(n[1], node[r].off, node[r].size)
    BY <1>4, <2>3, <2>5
  <2> HIDE DEF r
  <2>9. ChunkBytes(p) \subseteq NodeBytes(r)
    BY <2>1, <2>7, <2>8
  <2> QED
    BY <2>1, <2>9 DEF r
<1>8. \A p \in DOMAIN mUsedList : p[2] % mUsedList[p].align = 0
  BY <1>1 DEF ChunkInv
<1> QED
  BY <1>5, <1>6, <1>7, <1>8 DEF ChunksDisjoint

LEMMA CountHolds ==
    ASSUME IInv
    PROVE  UseCountExact
<1> SUFFICES ASSUME NEW n \in DOMAIN node
             PROVE  node[n].useCount =
                        Cardinality({m \in DOMAIN node \intersect {Child(n, 0), Child(n, 1)} :
                                        m \notin mFreeList})
  BY DEF UseCountExact
<1> DEFINE D == DOMAIN node
           S == {m \in D \intersect {Child(n, 0), Child(n, 1)} : m \notin mFreeList}
<1>1. node[n].useCount = Counts(D, mFreeList, n, 0) + Counts(D, mFreeList, n, 1)
  BY DEF IInv, Core, Counting
<1>2. PICK c0, c1 : c0 = Child(n, 0) /\ c1 = Child(n, 1)
  OBVIOUS
<1>3. c0 # c1
  <2>1. n \in Names
    BY ListFacts
  <2>2. Child(n, 0)[Len(n) + 1] = 0 /\ Child(n, 1)[Len(n) + 1] = 1
    BY <2>1, ChildName
  <2> QED
    BY <1>2, <2>2
<1>4. CASE c0 \in S /\ c1 \in S
  <2>1. S = {c0, c1}
    BY <1>2, <1>4
  <2>2. Cardinality(S) = 2
    <3>1. IsFiniteSet({c0}) /\ Cardinality({c0}) = 1
      BY FS_Singleton
    <3>2. S = {c0} \union {c1} /\ c1 \notin {c0}
      BY <1>3, <2>1
    <3> HIDE DEF S
    <3>3. Cardinality({c0} \union {c1}) = Cardinality({c0}) + 1
      BY <3>1, <3>2, FS_AddElement
    <3> QED
      BY <3>1, <3>2, <3>3
  <2> QED
    BY <1>1, <1>2, <1>4, <2>2 DEF Counts
<1>5. CASE c0 \in S /\ c1 \notin S
  <2>1. S = {c0}
    BY <1>2, <1>5
  <2>2. Cardinality(S) = 1
    BY <2>1, FS_Singleton
  <2> QED
    BY <1>1, <1>2, <1>5, <2>2 DEF Counts
<1>6. CASE c0 \notin S /\ c1 \in S
  <2>1. S = {c1}
    BY <1>2, <1>6
  <2>2. Cardinality(S) = 1
    BY <2>1, FS_Singleton
  <2> QED
    BY <1>1, <1>2, <1>6, <2>2 DEF Counts
<1>7. CASE c0 \notin S /\ c1 \notin S
  <2>1. S = {}
    BY <1>2, <1>7
  <2>2. Cardinality(S) = 0
    BY <2>1, FS_EmptySet
  <2> QED
    BY <1>1, <1>2, <1>7, <2>2 DEF Counts
<1> QED
  BY <1>4, <1>5, <1>6, <1>7

\* With every held node free, a split node would have a lowest split below it, both of
\* whose parts are free, and its count would be zero.
LEMMA IdleHolds ==
    ASSUME IInv
    PROVE  MergedWhenIdle
<1> SUFFICES ASSUME barrier = "none", DOMAIN mUsedList = {}, NEW n \in mFreeList, ~IsRoot(n)
             PROVE  FALSE
  BY DEF MergedWhenIdle
<1> DEFINE D == DOMAIN node
<1>1. Held(mFreeList, mUsedList, mGroups) = mFreeList
  <2>1. mGroups = << >>
    BY DEF IInv, PhaseInv
  <2> QED
    BY <2>1 DEF Held
<1>2. Core(node, mAlign, mFreeList, mFreeList)
  BY <1>1 DEF IInv
<1>3. Forest(D) /\ n \in D /\ D \subseteq Names /\ n \in Names
  BY <1>2 DEF Core, Alive, Forest
<1>4. PICK k \in Nat : \A m \in D : Len(m) <= k
  BY <1>3 DEF Forest
<1> DEFINE S == {k - Len(m) : m \in {q \in D : ~IsRoot(q)}}
<1>5. S \in SUBSET Nat /\ S # {}
  <2>1. \A m \in D : Len(m) \in Nat /\ k - Len(m) \in Nat
    BY <1>3, <1>4, NameFacts
  <2> QED
    BY <1>3, <2>1
<1>6. PICK l \in S : \A u \in S : l <= u
  BY <1>5, LeastNumber
<1>7. PICK m \in D : ~IsRoot(m) /\ l = k - Len(m)
  BY <1>6
<1>8. \A q \in D : ~IsRoot(q) => Len(q) <= Len(m)
  <2> SUFFICES ASSUME NEW q \in D, ~IsRoot(q) PROVE Len(q) <= Len(m)
    OBVIOUS
  <2>1. k - Len(m) <= k - Len(q)
    BY <1>6, <1>7
  <2>2. Len(m) \in Nat /\ Len(q) \in Nat
    BY <1>3, NameFacts
  <2> QED
    BY <2>1, <2>2
<1> HIDE DEF S, D
<1>9. ASSUME NEW q \in D, Len(q) = Len(m) PROVE q \in mFreeList
  <2>1. q \in Names /\ Len(q) \in Nat /\ Len(q) >= 1
    BY <1>3, NameFacts
  <2>2. ASSUME NEW i \in {0, 1} PROVE Child(q, i) \notin D
    <3>1. Child(q, i) \in Names /\ Len(Child(q, i)) = Len(q) + 1
      BY <2>1, ChildName
    <3>2. ~IsRoot(Child(q, i))
      BY <2>1, <3>1 DEF IsRoot
    <3> QED
      BY <1>8, <1>9, <2>1, <3>1, <3>2
  <2>3. PICK h \in mFreeList : Below(q, h)
    BY <1>2 DEF Core, Alive, D
  <2>4. h \in D
    BY <1>2 DEF Core, Alive, D
  <2>5. q = h
    BY <1>3, <2>1, <2>2, <2>3, <2>4, ForestBelow
  <2> QED
    BY <2>5
<1> DEFINE p == Parent(m)
<1>10. /\ m \in Names /\ p \in Names /\ Len(p) = Len(m) - 1 /\ Below(p, m) /\ p # m
  <2>1. m \in Names /\ Len(m) \in Nat
    BY <1>3, NameFacts
  <2>2. p \in Names /\ Len(p) = Len(m) - 1 /\ Below(p, m)
    BY <1>7, <2>1, ParentFacts
  <2> HIDE DEF p
  <2>3. p # m
    BY <2>1, <2>2
  <2> QED
    BY <2>1, <2>2, <2>3
<1> HIDE DEF p
<1>11. p \in D /\ Child(p, 0) \in D /\ Child(p, 1) \in D
  BY <1>3, <1>10, ForestBelow
<1>12. Len(Child(p, 0)) = Len(m) /\ Len(Child(p, 1)) = Len(m)
  <2>1. Len(Child(p, 0)) = Len(p) + 1 /\ Len(Child(p, 1)) = Len(p) + 1 /\ Len(m) \in Nat
    BY <1>10, ChildName, NameFacts
  <2> QED
    BY <1>10, <2>1
<1>13. Child(p, 0) \in mFreeList /\ Child(p, 1) \in mFreeList
  BY <1>9, <1>11, <1>12
<1>14. node[p].useCount = 0
  BY <1>2, <1>11, <1>13 DEF Core, Counting, Counts, D
<1>15. node[p].useCount > 0
  BY <1>2, <1>11 DEF Core, Counting, IsLeaf, D
<1> QED
  BY <1>14, <1>15

\* What the lists hold are the leaves, which add up to the roots.
LEMMA SumsHold ==
    ASSUME IInv, SumInv
    PROVE  NothingLost /\ mTotalSize \in Nat
<1>1. PICK H : H = Held(mFreeList, mUsedList, mGroups)
  OBVIOUS
<1>2. PICK D : D = DOMAIN node
  OBVIOUS
<1>3. Forest(D) /\ Alive(D, H) /\ D \subseteq Names
  BY <1>1, <1>2 DEF IInv, Core, Forest
<1>4. Sized(node) /\ mTotalSize = Total(node, Roots(D))
  BY <1>2 DEF SumInv, SizeInv
<1>5. H = Leaves(D)
  <2>1. ASSUME NEW m \in D, IsLeaf(D, m) PROVE m \in H
    <3>1. PICK h \in H : Below(m, h)
      BY <1>3 DEF Alive
    <3>2. h \in D /\ m \in Names
      BY <1>3 DEF Alive
    <3>3. m = h
      BY <1>3, <2>1, <3>1, <3>2, ForestBelow
    <3> QED
      BY <3>3
  <2> QED
    BY <1>3, <2>1 DEF Leaves, Alive
<1>6. Total(node, H) = mTotalSize
  BY <1>2, <1>4, <1>5, RootsTotal
<1>7. SizeOf(H) = Total(node, H)
  BY DEF SizeOf, Total
<1>8. mTotalSize \in Nat
  <2>1. Roots(D) \in SUBSET D /\ Summable(node, D)
    BY <1>2, <1>4 DEF Roots, Sized
  <2>2. Summable(node, Roots(D))
    BY <2>1, SummableSubset
  <2> QED
    BY <1>4, <2>2, TotalNat
<1> QED
  BY <1>1, <1>6, <1>7, <1>8 DEF NothingLost

\* The types follow from both invariants; useCount and mTotalSize are not negative.
LEMMA TypesHold ==
    ASSUME IInv, SumInv
    PROVE  TypeOK
<1>1. /\ PhaseInv /\ ChunkInv
      /\ Core(node, mAlign, mFreeList, Held(mFreeList, mUsedList, mGroups))
  BY DEF IInv
<1>2. ASSUME NEW n \in DOMAIN node
      PROVE  NodeType(n) /\ node[n] \in [off : Nat, size : Nat, useCount : Nat]
  <2>1. n \in Names /\ node[n] \in [off : Nat, size : Nat, useCount : Int]
    BY ListFacts
  <2>2. node[n].useCount = Counts(DOMAIN node, mFreeList, n, 0) + Counts(DOMAIN node, mFreeList, n, 1)
    BY <1>1 DEF Core, Counting
  <2>3. Counts(DOMAIN node, mFreeList, n, 0) \in {0, 1} /\ Counts(DOMAIN node, mFreeList, n, 1) \in {0, 1}
    BY DEF Counts
  <2>4. node[n].useCount \in Nat
    BY <2>2, <2>3
  <2> QED
    BY <2>1, <2>4 DEF Names
<1>3. Held(mFreeList, mUsedList, mGroups) \subseteq DOMAIN node
  BY <1>1 DEF Core, Alive
<1>4. ASSUME NEW p \in DOMAIN mUsedList
      PROVE  mUsedList[p] \in [node : DOMAIN node, size : config.Size, align : config.AlignArg,
                               group : 0 .. Len(mGroups)]
  <2>1. mUsedList[p] \in [node : Names, size : Nat \ {0}, align : Nat \ {0}, group : 0 .. Len(mGroups)]
    BY <1>1 DEF ChunkInv
  <2>2. mUsedList[p].node \in DOMAIN node
    BY ListFacts
  <2>3. mUsedList[p].size \in config.Size /\ mUsedList[p].align \in config.AlignArg
    BY DEF SumInv, ArgInv
  <2> QED
    BY <2>1, <2>2, <2>3
<1>5. mTotalSize \in Nat
  BY SumsHold
<1>6. DOMAIN groupBytes = DOMAIN mGroups
  BY <1>1 DEF PhaseInv
<1> QED
  BY <1>1, <1>2, <1>3, <1>4, <1>5, <1>6 DEF TypeOK, PhaseInv

\* Two chunks in use never share a byte, with each other or with free memory, and lie in
\* their block at the alignment asked for, whatever was split and merged before.
THEOREM NeverShared == Spec => []ChunksDisjoint
<1>1. IInv => ChunksDisjoint
  BY DisjointHolds
<1> QED
  BY Inductive, <1>1, PTL

\* useCount is the number of children outside mFreeList after every split, take and merge.
THEOREM CountsExact == Spec => []UseCountExact
<1>1. IInv => UseCountExact
  BY CountHolds
<1> QED
  BY Inductive, <1>1, PTL

\* When nothing is in use returnMemory has undone every split, down to whole blocks.
THEOREM IdleIsMerged == Spec => []MergedWhenIdle
<1>1. IInv => MergedWhenIdle
  BY IdleHolds
<1> QED
  BY Inductive, <1>1, PTL

\* The groups of one barrier are never handed a common byte.
THEOREM GroupsApart == Spec => []GroupsDisjoint
<1>1. IInv => GroupsDisjoint
  BY DEF IInv, GroupInv
<1> QED
  BY Inductive, <1>1, PTL

\* Every byte of every block, in use, free or waiting in a group for the end of the
\* barrier, is in exactly one list: their nodes add up to totalSize() after every alloc,
\* free, release and barrier, so splitting and merging lose no memory and count none twice.
THEOREM NothingIsLost == Spec => []NothingLost
<1>1. IInv /\ SumInv => NothingLost
  BY SumsHold
<1> QED
  BY <1>1, Inductive, SumsInductive, PTL

\* The lists of the allocator name live nodes only (no chunk or free-list entry outlives
\* its node), and the sizes, offsets, useCount and mTotalSize never fall below zero.
THEOREM TypeCorrect == Spec => []TypeOK
<1>1. IInv /\ SumInv => TypeOK
  BY TypesHold
<1> QED
  BY <1>1, Inductive, SumsInductive, PTL

=============================================================================
