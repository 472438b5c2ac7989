--------------------- MODULE DeferBufferAllocatorProofs ---------------------
(***************************************************************************)
(* Proofs about DeferBufferAllocator, for any number of allocators on one  *)
(* buffer, any alignment, request sizes and lengths of plans.              *)
(*                                                                         *)
(* The offsets of a plan are only known once compute has run.  The proofs  *)
(* follow instead a layout that exists at any time: G gives every chunk,   *)
(* also those fused into others, the place it would have if the chunks of  *)
(* the list were laid out now, R the chunk of the list it was fused into,  *)
(* D how deep, and T is the end.                                           *)
(***************************************************************************)
EXTENDS DeferBufferAllocator, SequenceTheorems, FiniteSetTheorems,
        WellFoundedInduction, TLAPS

ChunkRec == [size : Nat \ {0}, offset : Nat, usage : BOOLEAN, into : Nat]
PlanRec == [list : Seq(Nat), chunk : Seq(ChunkRec), mFreeList : SUBSET Nat,
            mBarrrier : BOOLEAN, mBarrrierFreeChunks : Seq(Nat), mTotalSize : Nat,
            mPtr : Address \union {NULL}]

Roots(chunk) == {c \in DOMAIN chunk : chunk[c].into = 0}

\* The list holds every chunk that was not fused into another one, once.
Shape(list, chunk) ==
    /\ list \in Seq(Nat) /\ chunk \in Seq(ChunkRec)
    /\ IsInjective(list) /\ ToSet(list) = Roots(chunk)
    /\ \A c \in DOMAIN chunk : chunk[c].into \in DOMAIN chunk \union {0}

\* n ranges of sizes z lie at the places g one after the other, from 0 to T.
Line(n, g, z, T) ==
    /\ n = 0 => T = 0
    /\ \A i \in 1 .. n : /\ i = 1 => g[i] = 0
                         /\ i = n => g[i] + z[i] = T
                         /\ g[i] + z[i] <= T
    /\ \A i, j \in 1 .. n : i < j => g[i] + z[i] <= g[j]
    /\ \A i, j \in 1 .. n : j = i + 1 => g[j] = g[i] + z[i]

\* So do the chunks of the list.
Places(list, G) == [i \in DOMAIN list |-> G[list[i]]]
Sizes(list, chunk) == [i \in DOMAIN list |-> chunk[list[i]].size]
Chain(list, chunk, G, T) == Line(Len(list), Places(list, G), Sizes(list, chunk), T)

\* A fused chunk lies at its offset in the one it was fused into.
Tree(chunk, G, R, D) ==
    \A c \in DOMAIN chunk :
        LET p == chunk[c].into
        IN  IF p = 0 THEN R[c] = c
            ELSE R[c] = R[p] /\ G[c] = chunk[c].offset + G[p] /\ D[p] < D[c]

Apart(G, x, y) == G[x[1]] + x[2] <= G[y[1]] \/ G[y[1]] + y[2] <= G[x[1]]

\* Requests that must not overlap do not: in one tree their ranges are apart, and
\* in two trees they are in the order of the trees.
Kept(chunk, tg, G, R, T) ==
    /\ \A x \in UNION tg : /\ x[1] \in DOMAIN chunk /\ x[2] \in Nat
                           /\ G[x[1]] + x[2] <= T
    /\ \A pair \in tg : \A x, y \in pair : x # y =>
           /\ G[R[x[1]]] < G[R[y[1]]] => G[x[1]] + x[2] <= G[y[1]]
           /\ R[x[1]] = R[y[1]] => Apart(G, x, y)

Layout(list, chunk, tg, G, R, D, T) ==
    /\ G \in [DOMAIN chunk -> Nat] /\ R \in [DOMAIN chunk -> Roots(chunk)]
    /\ D \in [DOMAIN chunk -> Nat] /\ T \in Nat
    /\ Chain(list, chunk, G, T) /\ Tree(chunk, G, R, D) /\ Kept(chunk, tg, G, R, T)

\* A layout exists.
LaidOut(list, chunk, tg) == \E G, R, D, T : Layout(list, chunk, tg, G, R, D, T)

-----------------------------------------------------------------------------
(* Sequences.                                                              *)

\* The elements of a sequence with one inserted.
Inserted(S, s, i, e, m) ==
    /\ m \in Seq(S) /\ Len(m) = Len(s) + 1
    /\ \A j \in 1 .. i - 1 : m[j] = s[j]
    /\ m[i] = e
    /\ \A j \in i + 1 .. Len(s) + 1 : m[j] = s[j - 1]

LEMMA InsertFacts ==
    ASSUME NEW S, NEW s \in Seq(S), NEW e \in S, NEW i \in 1 .. Len(s) + 1
    PROVE  Inserted(S, s, i, e, InsertAt(s, i, e))
<1> DEFINE a == SubSeq(s, 1, i - 1)
           b == SubSeq(s, i, Len(s))
<1>1. /\ a \in Seq(S) /\ Len(a) = i - 1
      /\ \A j \in 1 .. i - 1 : a[j] = s[j]
  BY SubSeqProperties
<1>2. /\ b \in Seq(S) /\ Len(b) = Len(s) - i + 1
      /\ \A j \in 1 .. Len(s) - i + 1 : b[j] = s[i + j - 1]
  BY SubSeqProperties
<1>3. <<e>> \in Seq(S) /\ Len(<<e>>) = 1 /\ <<e>>[1] = e
  OBVIOUS
<1>4. PICK t : t = a \o <<e>>
  OBVIOUS
<1>5. /\ t \in Seq(S) /\ Len(t) = i /\ t[i] = e
      /\ \A j \in 1 .. i - 1 : t[j] = s[j]
  BY <1>1, <1>3, <1>4, ConcatProperties
<1>6. InsertAt(s, i, e) = t \o b
  BY <1>4 DEF InsertAt
<1>7. /\ t \o b \in Seq(S) /\ Len(t \o b) = Len(t) + Len(b)
      /\ \A j \in 1 .. Len(t) + Len(b) : (t \o b)[j] = IF j <= Len(t) THEN t[j] ELSE b[j - Len(t)]
  BY <1>2, <1>5, ConcatProperties
<1> HIDE DEF a, b
<1>8. PICK m : m = InsertAt(s, i, e)
  OBVIOUS
<1>9. m \in Seq(S) /\ Len(m) = Len(s) + 1
  BY <1>2, <1>5, <1>6, <1>7, <1>8
<1>10. \A j \in 1 .. i - 1 : m[j] = s[j]
  BY <1>2, <1>5, <1>6, <1>7, <1>8
<1>11. m[i] = e
  BY <1>2, <1>5, <1>6, <1>7, <1>8
<1>12. \A j \in i + 1 .. Len(s) + 1 : m[j] = s[j - 1]
  BY <1>2, <1>5, <1>6, <1>7, <1>8
<1> QED
  BY <1>8, <1>9, <1>10, <1>11, <1>12 DEF Inserted

\* The elements of a sequence without one.
Removed(S, s, i, m) ==
    /\ m \in Seq(S) /\ Len(m) = Len(s) - 1
    /\ \A j \in 1 .. i - 1 : m[j] = s[j]
    /\ \A j \in i .. Len(s) - 1 : m[j] = s[j + 1]

LEMMA RemoveFacts ==
    ASSUME NEW S, NEW s \in Seq(S), NEW i \in 1 .. Len(s)
    PROVE  Removed(S, s, i, RemoveAt(s, i))
<1> DEFINE a == SubSeq(s, 1, i - 1)
           b == SubSeq(s, i + 1, Len(s))
<1>1. /\ a \in Seq(S) /\ Len(a) = i - 1
      /\ \A j \in 1 .. i - 1 : a[j] = s[j]
  BY SubSeqProperties
<1>2. /\ b \in Seq(S) /\ Len(b) = Len(s) - i
      /\ \A j \in 1 .. Len(s) - i : b[j] = s[i + j]
  <2>1. /\ b \in Seq(S) /\ Len(b) = IF i + 1 <= Len(s) THEN Len(s) - (i + 1) + 1 ELSE 0
        /\ \A j \in 1 .. Len(s) - (i + 1) + 1 : b[j] = s[i + 1 + j - 1]
    BY SubSeqProperties
  <2> HIDE DEF b
  <2>2. ASSUME NEW j \in 1 .. Len(s) - i PROVE b[j] = s[i + j]
    <3>1. i + 1 + j - 1 = i + j /\ 1 .. Len(s) - (i + 1) + 1 = 1 .. Len(s) - i
      OBVIOUS
    <3>2. b[j] = s[i + 1 + j - 1]
      BY <2>1, <3>1
    <3> QED
      BY <3>1, <3>2
  <2>3. Len(b) = Len(s) - i
    <3>1. PICK m : m = Len(s)
      OBVIOUS
    <3>2. m \in Nat /\ i \in 1 .. m
      BY <3>1
    <3>3. Len(b) = IF i + 1 <= m THEN m - (i + 1) + 1 ELSE 0
      BY <2>1, <3>1, Zenon
    <3>4. Len(b) = m - i
      BY <3>2, <3>3
    <3> QED
      BY <3>1, <3>4
  <2>4. b \in Seq(S)
    BY <2>1
  <2> QED
    BY <2>2, <2>3, <2>4
<1>3. /\ a \o b \in Seq(S) /\ Len(a \o b) = Len(a) + Len(b)
      /\ \A j \in 1 .. Len(a) + Len(b) : (a \o b)[j] = IF j <= Len(a) THEN a[j] ELSE b[j - Len(a)]
  BY <1>1, <1>2, ConcatProperties
<1>4. RemoveAt(s, i) = a \o b
  BY DEF RemoveAt
<1> HIDE DEF a, b
<1>5. ASSUME NEW j \in i .. Len(s) - 1 PROVE RemoveAt(s, i)[j] = s[j + 1]
  <2>1. j - (i - 1) \in 1 .. Len(s) - i /\ i + (j - (i - 1)) = j + 1 /\ ~(j <= Len(a))
    BY <1>1
  <2>2. j \in 1 .. Len(a) + Len(b) /\ j - Len(a) = j - (i - 1)
    BY <1>1, <1>2
  <2>3. (a \o b)[j] = b[j - Len(a)]
    BY <1>3, <2>1, <2>2
  <2> QED
    BY <1>2, <1>4, <2>1, <2>2, <2>3
<1>6. ASSUME NEW j \in 1 .. i - 1 PROVE RemoveAt(s, i)[j] = s[j]
  BY <1>1, <1>2, <1>3, <1>4
<1>7. RemoveAt(s, i) \in Seq(S)
  BY <1>3, <1>4
<1>8. Len(RemoveAt(s, i)) = Len(s) - 1
  <2>1. Len(a) + Len(b) = Len(s) - 1
    BY <1>1, <1>2
  <2> QED
    BY <1>3, <1>4, <2>1
<1>9. PICK m : m = RemoveAt(s, i)
  OBVIOUS
<1>10. m \in Seq(S) /\ Len(m) = Len(s) - 1
  BY <1>7, <1>8, <1>9
<1>11. \A j \in 1 .. i - 1 : m[j] = s[j]
  BY <1>6, <1>9
<1>12. \A j \in i .. Len(s) - 1 : m[j] = s[j + 1]
  BY <1>5, <1>9
<1> QED
  BY <1>9, <1>10, <1>11, <1>12 DEF Removed

-----------------------------------------------------------------------------
(* Layouts.                                                                *)

\* The chunk after position k of the list is fused into the one at k.
Fused(list, chunk, k, list2, chunk2) ==
    LET l == list[k]
        r == list[k + 1]
    IN  /\ DOMAIN list2 = 1 .. Len(list) - 1 /\ Len(list2) = Len(list) - 1
        /\ \A i \in 1 .. k : list2[i] = list[i]
        /\ \A i \in k + 1 .. Len(list) - 1 : list2[i] = list[i + 1]
        /\ DOMAIN chunk2 = DOMAIN chunk
        /\ \A c \in DOMAIN chunk : c \notin {l, r} => chunk2[c] = chunk[c]
        /\ chunk2[l].size = chunk[l].size + chunk[r].size /\ chunk2[l].into = 0
        /\ chunk2[r].into = l /\ chunk2[r].offset = chunk[l].size

\* The members of a chunk.
LEMMA ChunkFacts ==
    ASSUME NEW list, NEW chunk, Shape(list, chunk)
    PROVE  /\ 0 \notin DOMAIN chunk /\ IsInjective(list)
           /\ \A c \in DOMAIN chunk :
                  /\ chunk[c].size \in Nat \ {0} /\ chunk[c].offset \in Nat
                  /\ chunk[c].into \in DOMAIN chunk \union {0}
                  /\ chunk[c].usage \in BOOLEAN
           /\ \A i \in DOMAIN list : list[i] \in DOMAIN chunk /\ chunk[list[i]].into = 0
           /\ \A c \in DOMAIN chunk : chunk[c].into = 0 => \E i \in DOMAIN list : list[i] = c
<1>1. DOMAIN chunk = 1 .. Len(chunk) /\ 0 \notin DOMAIN chunk
  BY DEF Shape
<1>2. ASSUME NEW c \in DOMAIN chunk
      PROVE  /\ chunk[c].size \in Nat \ {0} /\ chunk[c].offset \in Nat
             /\ chunk[c].into \in DOMAIN chunk \union {0}
             /\ chunk[c].usage \in BOOLEAN
  <2>1. chunk[c] \in ChunkRec
    BY <1>1, ElementOfSeq DEF Shape
  <2> QED
    BY <2>1 DEF Shape, ChunkRec
<1>3. \A i \in DOMAIN list : list[i] \in DOMAIN chunk /\ chunk[list[i]].into = 0
  BY DEF Shape, ToSet, Roots
<1>4. \A c \in DOMAIN chunk : chunk[c].into = 0 => \E i \in DOMAIN list : list[i] = c
  BY DEF Shape, ToSet, Roots
<1>5. IsInjective(list)
  BY DEF Shape
<1> QED
  BY <1>1, <1>2, <1>3, <1>4, <1>5

\* Two neighbours become one.
LEMMA LineFused ==
    ASSUME NEW n \in Nat, NEW k \in 1 .. n, k + 1 \in 1 .. n, NEW T \in Nat,
           NEW g \in [1 .. n -> Nat], NEW z \in [1 .. n -> Nat], Line(n, g, z, T),
           NEW g2, NEW z2,
           \A i \in 1 .. n - 1 :
               /\ g2[i] = IF i <= k THEN g[i] ELSE g[i + 1]
               /\ z2[i] = IF i < k THEN z[i] ELSE IF i = k THEN z[k] + z[k + 1] ELSE z[i + 1]
    PROVE  Line(n - 1, g2, z2, T)
<1>1. /\ \A h \in 1 .. n : /\ h = 1 => g[h] = 0
                           /\ h = n => g[h] + z[h] = T
                           /\ g[h] + z[h] <= T
      /\ \A h, m \in 1 .. n : h < m => g[h] + z[h] <= g[m]
      /\ \A h, m \in 1 .. n : m = h + 1 => g[m] = g[h] + z[h]
  BY DEF Line
\* Where a range starts is the start of an old one, where it ends the end of one.
<1>2. ASSUME NEW i \in 1 .. n - 1
      PROVE  \E a, b \in 1 .. n : /\ a = IF i <= k THEN i ELSE i + 1
                                  /\ b = IF i < k THEN i ELSE i + 1
                                  /\ g2[i] = g[a] /\ g2[i] + z2[i] = g[b] + z[b]
  <2>1. i \in 1 .. n /\ i + 1 \in 1 .. n
    OBVIOUS
  <2>2. CASE i < k
    <3>1. g2[i] = g[i] /\ z2[i] = z[i] /\ i <= k
      BY <2>2
    <3> QED
      BY <2>1, <2>2, <3>1
  <2>3. CASE i = k
    <3>1. g[k + 1] = g[k] + z[k]
      BY <1>1
    <3>2. g2[i] = g[k] /\ z2[i] = z[k] + z[k + 1]
      BY <2>3
    <3>3. g[k] \in Nat /\ z[k] \in Nat /\ z[k + 1] \in Nat
      OBVIOUS
    <3>4. g2[i] + z2[i] = g[k + 1] + z[k + 1]
      BY <3>1, <3>2, <3>3
    <3> QED
      BY <2>1, <2>3, <3>2, <3>4
  <2>4. CASE i > k
    BY <2>1, <2>4
  <2> QED
    BY <2>2, <2>3, <2>4
<1>3. ASSUME NEW i \in 1 .. n - 1
      PROVE  /\ i = 1 => g2[i] = 0
             /\ i = n - 1 => g2[i] + z2[i] = T
             /\ g2[i] + z2[i] <= T
  <2>1. PICK a, b \in 1 .. n : /\ a = IF i <= k THEN i ELSE i + 1
                               /\ b = IF i < k THEN i ELSE i + 1
                               /\ g2[i] = g[a] /\ g2[i] + z2[i] = g[b] + z[b]
    BY <1>2
  <2>2. (i = 1 => a = 1) /\ (i = n - 1 => b = n)
    BY <2>1
  <2>3. a = 1 => g[a] = 0
    <3>1. \A h \in 1 .. n : h = 1 => g[h] = 0
      BY <1>1, Zenon
    <3> QED
      BY <3>1
  <2>4. (b = n => g[b] + z[b] = T) /\ g[b] + z[b] <= T
    BY <1>1
  <2> QED
    BY <2>1, <2>2, <2>3, <2>4
<1>4. ASSUME NEW i \in 1 .. n - 1, NEW j \in 1 .. n - 1, i < j
      PROVE  /\ g2[i] + z2[i] <= g2[j]
             /\ j = i + 1 => g2[j] = g2[i] + z2[i]
  <2>1. PICK b \in 1 .. n : b = (IF i < k THEN i ELSE i + 1) /\ g2[i] + z2[i] = g[b] + z[b]
    BY <1>2
  <2>2. PICK a \in 1 .. n : a = (IF j <= k THEN j ELSE j + 1) /\ g2[j] = g[a]
    BY <1>2
  <2>3. b < a /\ (j = i + 1 => a = b + 1)
    <3>1. CASE i < k
      BY <1>4, <2>1, <2>2, <3>1
    <3>2. CASE ~(i < k)
      <4>1. b = i + 1 /\ a = j + 1
        BY <1>4, <2>1, <2>2, <3>2
      <4> QED
        BY <1>4, <4>1
    <3> QED
      BY <3>1, <3>2
  <2> QED
    BY <1>1, <2>1, <2>2, <2>3, ZenonT(60)
<1>5. n - 1 # 0
  OBVIOUS
<1>6. \A i, j \in 1 .. n - 1 : i < j => g2[i] + z2[i] <= g2[j]
  BY <1>4
<1>7. \A i, j \in 1 .. n - 1 : j = i + 1 => g2[j] = g2[i] + z2[i]
  BY <1>4
<1> QED
  BY <1>3, <1>5, <1>6, <1>7 DEF Line

\* Fusing moves nothing.
LEMMA LayoutFused ==
    ASSUME NEW list, NEW chunk, Shape(list, chunk), NEW tg, LaidOut(list, chunk, tg),
           NEW k \in Nat \ {0}, k + 1 <= Len(list),
           NEW list2, NEW chunk2, Fused(list, chunk, k, list2, chunk2)
    PROVE  LaidOut(list2, chunk2, tg)
<1>1. PICK G, R, D, T : Layout(list, chunk, tg, G, R, D, T)
  BY DEF LaidOut
<1>2. PICK n : n = Len(list) /\ n \in Nat /\ DOMAIN list = 1 .. n
  BY DEF Shape
<1>3. PICK l, r : l = list[k] /\ r = list[k + 1]
  OBVIOUS
<1>4. /\ l \in DOMAIN chunk /\ r \in DOMAIN chunk /\ l # r
      /\ chunk[l].into = 0 /\ chunk[r].into = 0
  <2>1. k \in DOMAIN list /\ k + 1 \in DOMAIN list
    BY <1>2
  <2>2. l \in Roots(chunk) /\ r \in Roots(chunk)
    BY <1>3, <2>1 DEF Shape, ToSet
  <2>3. l # r
    BY <1>3, <2>1 DEF Shape, IsInjective
  <2> QED
    BY <2>2, <2>3 DEF Roots
<1>5. /\ DOMAIN list2 = 1 .. n - 1 /\ Len(list2) = n - 1
      /\ \A i \in 1 .. k : list2[i] = list[i]
      /\ \A i \in k + 1 .. n - 1 : list2[i] = list[i + 1]
      /\ DOMAIN chunk2 = DOMAIN chunk
      /\ \A c \in DOMAIN chunk : c \notin {l, r} => chunk2[c] = chunk[c]
      /\ chunk2[l].size = chunk[l].size + chunk[r].size /\ chunk2[l].into = 0
      /\ chunk2[r].into = l /\ chunk2[r].offset = chunk[l].size
  BY <1>2, <1>3 DEF Fused
<1>6. \A c \in DOMAIN chunk : /\ chunk[c].size \in Nat \ {0} /\ chunk[c].offset \in Nat
                              /\ chunk[c].into \in DOMAIN chunk \union {0}
  BY ChunkFacts
<1>7. /\ G \in [DOMAIN chunk -> Nat] /\ R \in [DOMAIN chunk -> Roots(chunk)]
      /\ D \in [DOMAIN chunk -> Nat] /\ T \in Nat
  BY <1>1 DEF Layout
<1>8. 0 \notin DOMAIN chunk
  BY ChunkFacts
<1>9. PICK R2 : R2 = [c \in DOMAIN chunk |-> IF R[c] = r THEN l ELSE R[c]]
  OBVIOUS
<1>10. PICK D2 : D2 = [c \in DOMAIN chunk |-> IF R[c] = r THEN D[c] + D[l] + 1 ELSE D[c]]
  OBVIOUS
<1>11. Roots(chunk2) = Roots(chunk) \ {r}
  BY <1>4, <1>5, <1>8 DEF Roots
<1>12. R2 \in [DOMAIN chunk2 -> Roots(chunk2)] /\ D2 \in [DOMAIN chunk2 -> Nat]
  <2>1. l \in Roots(chunk2)
    BY <1>4, <1>11 DEF Roots
  <2> QED
    BY <1>4, <1>5, <1>7, <1>9, <1>10, <1>11, <2>1
<1>13. /\ \A i \in DOMAIN list : list[i] \in DOMAIN chunk /\ chunk[list[i]].into = 0
       /\ \A c \in DOMAIN chunk : chunk[c].into = 0 => \E i \in DOMAIN list : list[i] = c
       /\ \A i, j \in DOMAIN list : list[i] = list[j] => i = j
  BY ChunkFacts DEF IsInjective
<1>14. PICK g, z : g = Places(list, G) /\ z = Sizes(list, chunk)
  OBVIOUS
<1>15. \A i \in 1 .. n : g[i] = G[list[i]] /\ z[i] = chunk[list[i]].size
  BY <1>2, <1>14 DEF Places, Sizes
<1>16. g \in [1 .. n -> Nat] /\ z \in [1 .. n -> Nat]
  <2>1. \A i \in 1 .. n : G[list[i]] \in Nat /\ chunk[list[i]].size \in Nat
    BY <1>2, <1>6, <1>7, <1>13
  <2> QED
    BY <1>2, <1>14, <2>1 DEF Places, Sizes
<1>17. Line(n, g, z, T)
  BY <1>1, <1>2, <1>14 DEF Layout, Chain
<1>18. k \in 1 .. n /\ k + 1 \in 1 .. n
  BY <1>2
<1>19. G[r] = G[l] + chunk[l].size /\ G[l] = g[k] /\ G[r] = g[k + 1]
  BY <1>3, <1>15, <1>17, <1>18 DEF Line
<1>20. Chain(list2, chunk2, G, T)
  <2>1. ASSUME NEW h \in 1 .. n, h # k, h # k + 1 PROVE chunk2[list[h]] = chunk[list[h]]
    <3>1. list[h] # l /\ list[h] # r /\ list[h] \in DOMAIN chunk
      BY <1>2, <1>3, <1>13, <1>18, <2>1
    <3> QED
      BY <1>5, <3>1
  <2>2. PICK g2, z2 : g2 = Places(list2, G) /\ z2 = Sizes(list2, chunk2)
    OBVIOUS
  <2>3. ASSUME NEW i \in 1 .. n - 1
        PROVE  /\ g2[i] = IF i <= k THEN g[i] ELSE g[i + 1]
               /\ z2[i] = IF i < k THEN z[i] ELSE IF i = k THEN z[k] + z[k + 1] ELSE z[i + 1]
    <3>1. g2[i] = G[list2[i]] /\ z2[i] = chunk2[list2[i]].size
      BY <1>5, <2>2 DEF Places, Sizes
    <3>2. CASE i < k
      <4>1. i \in 1 .. n /\ i \in 1 .. k /\ i # k /\ i # k + 1 /\ i <= k
        BY <1>2, <3>2
      <4>2. list2[i] = list[i] /\ chunk2[list[i]] = chunk[list[i]]
        BY <1>5, <2>1, <4>1
      <4> QED
        BY <1>15, <3>1, <3>2, <4>1, <4>2
    <3>3. CASE i = k
      BY <1>3, <1>5, <1>15, <1>18, <3>1, <3>3
    <3>4. CASE i > k
      <4>1. i + 1 \in 1 .. n /\ i + 1 # k /\ i + 1 # k + 1 /\ i \in k + 1 .. n - 1
        BY <1>2, <3>4
      <4> QED
        BY <1>5, <1>15, <2>1, <3>1, <3>4, <4>1
    <3> QED
      BY <1>2, <3>2, <3>3, <3>4
  <2>4. Line(n - 1, g2, z2, T)
    <3>1. \A i \in 1 .. n - 1 :
             /\ g2[i] = IF i <= k THEN g[i] ELSE g[i + 1]
             /\ z2[i] = IF i < k THEN z[i] ELSE IF i = k THEN z[k] + z[k + 1] ELSE z[i + 1]
      BY <2>3
    <3>2. n \in Nat /\ T \in Nat
      BY <1>2, <1>7
    <3> QED
      BY <1>16, <1>17, <1>18, <3>1, <3>2, LineFused
  <2> QED
    BY <1>5, <2>2, <2>4 DEF Chain
<1>21. Tree(chunk2, G, R2, D2)
  <2>1. Tree(chunk, G, R, D)
    BY <1>1 DEF Layout
  <2> SUFFICES ASSUME NEW c \in DOMAIN chunk
               PROVE  IF chunk2[c].into = 0 THEN R2[c] = c
                      ELSE /\ R2[c] = R2[chunk2[c].into]
                           /\ G[c] = chunk2[c].offset + G[chunk2[c].into]
                           /\ D2[chunk2[c].into] < D2[c]
    BY <1>5 DEF Tree
  <2>2. R[l] = l /\ R[r] = r
    BY <1>4, <2>1 DEF Tree
  <2>3. CASE c = l
    BY <1>4, <1>5, <1>9, <2>2, <2>3
  <2>4. CASE c = r
    <3>1. R2[r] = l /\ R2[l] = l /\ D2[r] = D[r] + D[l] + 1 /\ D2[l] = D[l]
      BY <1>4, <1>9, <1>10, <2>2
    <3>2. D[r] \in Nat /\ D[l] \in Nat /\ G[l] \in Nat /\ chunk[l].size \in Nat
      BY <1>4, <1>6, <1>7
    <3>3. chunk2[r].into = l /\ l # 0 /\ chunk2[r].offset = chunk[l].size
      BY <1>4, <1>5, <1>8
    <3>4. D[l] < D[r] + D[l] + 1 /\ G[l] + chunk[l].size = chunk[l].size + G[l]
      BY <3>2
    <3> QED
      BY <1>19, <2>4, <3>1, <3>3, <3>4
  <2>5. CASE c \notin {l, r}
    <3>1. chunk2[c] = chunk[c] /\ chunk[c].into \in DOMAIN chunk \union {0}
      BY <1>5, <1>6, <2>5
    <3>2. CASE chunk[c].into = 0
      BY <1>9, <2>1, <2>5, <3>1, <3>2 DEF Tree
    <3>3. CASE chunk[c].into # 0
      <4>1. PICK p : p = chunk[c].into /\ p \in DOMAIN chunk
        BY <3>1, <3>3
      <4>2. R[c] = R[p] /\ G[c] = chunk[c].offset + G[p] /\ D[p] < D[c]
        BY <2>1, <3>3, <4>1 DEF Tree
      <4> QED
        BY <1>4, <1>7, <1>9, <1>10, <3>1, <3>3, <4>1, <4>2
    <3> QED
      BY <3>2, <3>3
  <2> QED
    BY <2>3, <2>4, <2>5
<1>22. ASSUME NEW c \in Roots(chunk), c # r, G[l] < G[c] PROVE G[r] < G[c]
  <2>1. PICK i \in 1 .. n : list[i] = c
    BY <1>2, <1>13 DEF Roots
  <2>2. i > k + 1
    <3>1. g[k] < g[i] /\ i # k + 1
      BY <1>3, <1>15, <1>19, <1>22, <2>1
    <3>2. i < k => g[i] + z[i] <= g[k]
      BY <1>17, <1>18 DEF Line
    <3>3. g[i] \in Nat /\ z[i] \in Nat /\ g[k] \in Nat
      BY <1>16, <1>18
    <3> QED
      BY <3>1, <3>2, <3>3
  <2>3. z[k + 1] > 0
    BY <1>4, <1>3, <1>6, <1>15, <1>18
  <2> QED
    BY <1>15, <1>16, <1>17, <1>18, <1>19, <2>1, <2>2, <2>3, SMTT(40) DEF Line
<1>23. Kept(chunk2, tg, G, R2, T)
  <2>1. Kept(chunk, tg, G, R, T)
    BY <1>1 DEF Layout
  <2>2. ASSUME NEW pair \in tg, NEW x \in pair, NEW y \in pair, x # y
        PROVE  /\ G[R2[x[1]]] < G[R2[y[1]]] => G[x[1]] + x[2] <= G[y[1]]
               /\ R2[x[1]] = R2[y[1]] => Apart(G, x, y)
    <3>1. x[1] \in DOMAIN chunk /\ y[1] \in DOMAIN chunk
      BY <2>1, <2>2 DEF Kept
    <3>2. /\ G[R[x[1]]] < G[R[y[1]]] => G[x[1]] + x[2] <= G[y[1]]
          /\ G[R[y[1]]] < G[R[x[1]]] => G[y[1]] + y[2] <= G[x[1]]
          /\ R[x[1]] = R[y[1]] => Apart(G, x, y)
      BY <2>1, <2>2 DEF Kept
    <3>3. PICK u, v : u = R[x[1]] /\ v = R[y[1]] /\ u \in Roots(chunk) /\ v \in Roots(chunk)
      BY <1>7, <3>1
    <3>4. R2[x[1]] = (IF u = r THEN l ELSE u) /\ R2[y[1]] = (IF v = r THEN l ELSE v)
      BY <1>9, <3>1, <3>3
    <3>5. G[l] < G[r] /\ G[l] \in Nat /\ G[r] \in Nat /\ G[u] \in Nat /\ G[v] \in Nat
      <4>1. u \in DOMAIN chunk /\ v \in DOMAIN chunk
        BY <3>3 DEF Roots
      <4>2. G[l] \in Nat /\ G[r] \in Nat /\ G[u] \in Nat /\ G[v] \in Nat
        BY <1>4, <1>7, <4>1
      <4>3. chunk[l].size \in Nat \ {0}
        BY <1>4, <1>6
      <4> QED
        BY <1>19, <4>2, <4>3
    <3>6. G[R2[x[1]]] < G[R2[y[1]]] => G[u] < G[v]
      BY <1>22, <3>3, <3>4, <3>5
    <3>7. R2[x[1]] = R2[y[1]] => u = v \/ G[u] < G[v] \/ G[v] < G[u]
      BY <3>4, <3>5
    <3> QED
      BY <3>2, <3>3, <3>6, <3>7 DEF Apart
  <2> QED
    BY <1>5, <2>1, <2>2 DEF Kept
<1> QED
  BY <1>5, <1>7, <1>12, <1>20, <1>21, <1>23 DEF LaidOut, Layout

\* Two chunks of the list are apart, and before the end.
LEMMA RootOrder ==
    ASSUME NEW list, NEW chunk, Shape(list, chunk), NEW tg, NEW G, NEW R, NEW D, NEW T,
           Layout(list, chunk, tg, G, R, D, T)
    PROVE  /\ \A c \in Roots(chunk) : /\ G[c] \in Nat /\ R[c] = c
                                      /\ G[c] + chunk[c].size <= T
           /\ \A c, d \in Roots(chunk) : c # d =>
                  G[c] + chunk[c].size <= G[d] \/ G[d] + chunk[d].size <= G[c]
<1>1. PICK n : n = Len(list) /\ n \in Nat /\ DOMAIN list = 1 .. n
  BY DEF Shape
<1>2. PICK g, z : g = Places(list, G) /\ z = Sizes(list, chunk)
  OBVIOUS
<1>3. \A i \in 1 .. n : g[i] = G[list[i]] /\ z[i] = chunk[list[i]].size
  BY <1>1, <1>2 DEF Places, Sizes
<1>4. Line(n, g, z, T)
  BY <1>1, <1>2 DEF Layout, Chain
<1>5. ASSUME NEW c \in Roots(chunk) PROVE \E i \in 1 .. n : list[i] = c
  BY <1>1, ChunkFacts DEF Roots
<1>6. ASSUME NEW c \in Roots(chunk)
      PROVE  G[c] \in Nat /\ R[c] = c /\ G[c] + chunk[c].size <= T
  <2>1. PICK i \in 1 .. n : list[i] = c
    BY <1>5
  <2>2. g[i] + z[i] <= T
    BY <1>4 DEF Line
  <2>3. G[c] \in Nat /\ R[c] = c
    BY DEF Roots, Layout, Tree
  <2> QED
    BY <1>3, <2>1, <2>2, <2>3
<1>7. ASSUME NEW c \in Roots(chunk), NEW d \in Roots(chunk), c # d
      PROVE  G[c] + chunk[c].size <= G[d] \/ G[d] + chunk[d].size <= G[c]
  <2>1. PICK i \in 1 .. n : list[i] = c
    BY <1>5
  <2>2. PICK j \in 1 .. n : list[j] = d
    BY <1>5
  <2>3. i < j \/ j < i
    BY <1>7, <2>1, <2>2
  <2>4. /\ i < j => g[i] + z[i] <= g[j]
        /\ j < i => g[j] + z[j] <= g[i]
    BY <1>4 DEF Line
  <2> QED
    BY <1>3, <2>1, <2>2, <2>3, <2>4
<1> QED
  BY <1>6, <1>7

\* The pairs that a new request x makes with those of Y.
Pairs(x, Y) == {{x, y} : y \in Y \union {x}}

\* A new request for a chunk of the list overlaps no other chunk of the list.
LEMMA LayoutAsked ==
    ASSUME NEW list, NEW chunk, Shape(list, chunk), NEW tg, LaidOut(list, chunk, tg),
           NEW x, x[1] \in Roots(chunk), x[2] = chunk[x[1]].size,
           NEW Y, \A y \in Y : /\ y[1] \in Roots(chunk) /\ y[1] # x[1]
                               /\ y[2] = chunk[y[1]].size
    PROVE  LaidOut(list, chunk, tg \union Pairs(x, Y))
<1> USE DEF Pairs
<1>1. PICK G, R, D, T : Layout(list, chunk, tg, G, R, D, T)
  BY DEF LaidOut
<1>2. PICK tg2 : tg2 = tg \union {{x, y} : y \in Y \union {x}}
  OBVIOUS
<1>3. Kept(chunk, tg, G, R, T)
  BY <1>1 DEF Layout
<1>4. \A c \in Roots(chunk) : /\ c \in DOMAIN chunk /\ chunk[c].size \in Nat \ {0}
                              /\ G[c] \in Nat /\ R[c] = c /\ G[c] + chunk[c].size <= T
  BY <1>1, RootOrder, ChunkFacts DEF Roots
<1>5. ASSUME NEW q \in UNION tg2
      PROVE  q[1] \in DOMAIN chunk /\ q[2] \in Nat /\ G[q[1]] + q[2] <= T
  <2>1. CASE q \in UNION tg
    BY <1>3, <2>1 DEF Kept
  <2>2. CASE q = x \/ q \in Y
    <3>1. q[1] \in Roots(chunk) /\ q[2] = chunk[q[1]].size
      BY <2>2
    <3> QED
      BY <1>4, <3>1
  <2> QED
    BY <1>2, <1>5, <2>1, <2>2
<1>6. ASSUME NEW p, NEW q, p[1] \in Roots(chunk), q[1] \in Roots(chunk), p[1] # q[1],
             p[2] = chunk[p[1]].size, q[2] = chunk[q[1]].size
      PROVE  /\ G[R[p[1]]] < G[R[q[1]]] => G[p[1]] + p[2] <= G[q[1]]
             /\ R[p[1]] = R[q[1]] => Apart(G, p, q)
  <2>1. G[p[1]] + p[2] <= G[q[1]] \/ G[q[1]] + q[2] <= G[p[1]]
    BY <1>1, <1>6, RootOrder
  <2>2. /\ R[p[1]] = p[1] /\ R[q[1]] = q[1] /\ G[p[1]] \in Nat /\ G[q[1]] \in Nat
        /\ p[2] \in Nat \ {0} /\ q[2] \in Nat \ {0}
    BY <1>4, <1>6
  <2> QED
    BY <1>6, <2>1, <2>2
<1>7. ASSUME NEW pair \in tg2, NEW p \in pair, NEW q \in pair, p # q
      PROVE  /\ G[R[p[1]]] < G[R[q[1]]] => G[p[1]] + p[2] <= G[q[1]]
             /\ R[p[1]] = R[q[1]] => Apart(G, p, q)
  <2>1. CASE pair \in tg
    BY <1>3, <1>7, <2>1 DEF Kept
  <2>2. CASE pair \notin tg
    <3>1. PICK y \in Y \union {x} : pair = {x, y}
      BY <1>2, <2>2
    <3>2. y \in Y /\ ((p = x /\ q = y) \/ (p = y /\ q = x))
      BY <1>7, <3>1
    <3> QED
      BY <1>6, <3>2
  <2> QED
    BY <2>1, <2>2
<1>8. Kept(chunk, tg2, G, R, T)
  BY <1>5, <1>7 DEF Kept
<1>9. Layout(list, chunk, tg2, G, R, D, T)
  BY <1>1, <1>8 DEF Layout
<1> QED
  BY <1>2, <1>9 DEF LaidOut

\* One range grows and those after it move.
LEMMA LineGrown ==
    ASSUME NEW n \in Nat, NEW k \in 1 .. n, NEW T \in Nat, NEW e \in Nat,
           NEW g \in [1 .. n -> Nat], NEW z \in [1 .. n -> Nat], Line(n, g, z, T),
           NEW g2, NEW z2,
           \A h \in 1 .. n : /\ g2[h] = IF h <= k THEN g[h] ELSE g[h] + e
                             /\ z2[h] = IF h = k THEN z[h] + e ELSE z[h]
    PROVE  Line(n, g2, z2, T + e)
<1>1. /\ \A h \in 1 .. n : /\ h = 1 => g[h] = 0
                           /\ h = n => g[h] + z[h] = T
                           /\ g[h] + z[h] <= T
      /\ \A h, m \in 1 .. n : h < m => g[h] + z[h] <= g[m]
      /\ \A h, m \in 1 .. n : m = h + 1 => g[m] = g[h] + z[h]
  BY DEF Line
<1>2. ASSUME NEW h \in 1 .. n
      PROVE  /\ g[h] \in Nat /\ z[h] \in Nat
             /\ h <= k => g2[h] = g[h]
             /\ h > k => g2[h] = g[h] + e
             /\ h < k => g2[h] + z2[h] = g[h] + z[h]
             /\ h >= k => g2[h] + z2[h] = g[h] + z[h] + e
  BY <1>2
<1>3. ASSUME NEW h \in 1 .. n
      PROVE  /\ h = 1 => g2[h] = 0
             /\ h = n => g2[h] + z2[h] = T + e
             /\ g2[h] + z2[h] <= T + e
  <2>1. /\ h = 1 => g[h] = 0
        /\ h = n => g[h] + z[h] = T
        /\ g[h] + z[h] <= T
    BY <1>1
  <2>2. /\ g[h] \in Nat /\ z[h] \in Nat
        /\ h <= k => g2[h] = g[h]
        /\ h > k => g2[h] = g[h] + e
        /\ h < k => g2[h] + z2[h] = g[h] + z[h]
        /\ h >= k => g2[h] + z2[h] = g[h] + z[h] + e
    BY <1>2
  <2>3. CASE h < k
    BY <2>1, <2>2, <2>3
  <2>4. CASE h >= k
    BY <2>1, <2>2, <2>4
  <2> QED
    BY <2>3, <2>4
<1>4. ASSUME NEW h \in 1 .. n, NEW m \in 1 .. n, h < m
      PROVE  /\ g2[h] + z2[h] <= g2[m]
             /\ m = h + 1 => g2[m] = g2[h] + z2[h]
  <2>1. /\ g[h] + z[h] <= g[m]
        /\ m = h + 1 => g[m] = g[h] + z[h]
    BY <1>1, <1>4
  <2>2. /\ g[h] \in Nat /\ z[h] \in Nat
        /\ h <= k => g2[h] = g[h]
        /\ h > k => g2[h] = g[h] + e
        /\ h < k => g2[h] + z2[h] = g[h] + z[h]
        /\ h >= k => g2[h] + z2[h] = g[h] + z[h] + e
    BY <1>2
  <2>3. /\ g[m] \in Nat /\ z[m] \in Nat
        /\ m <= k => g2[m] = g[m]
        /\ m > k => g2[m] = g[m] + e
        /\ m < k => g2[m] + z2[m] = g[m] + z[m]
        /\ m >= k => g2[m] + z2[m] = g[m] + z[m] + e
    BY <1>2
  <2>4. CASE h < k
    BY <1>4, <2>1, <2>2, <2>3, <2>4, SMTT(40)
  <2>5. CASE h >= k
    BY <1>4, <2>1, <2>2, <2>3, <2>5, SMTT(40)
  <2> QED
    BY <2>4, <2>5
<1>5. n # 0
  OBVIOUS
<1>6. \A h, m \in 1 .. n : h < m => g2[h] + z2[h] <= g2[m]
  BY <1>4
<1>7. \A h, m \in 1 .. n : m = h + 1 => g2[m] = g2[h] + z2[h]
  BY <1>4
<1> QED
  BY <1>3, <1>5, <1>6, <1>7 DEF Line

\* A chunk of the list that expands moves what lies after it, with all that was
\* fused into it.
LEMMA LayoutGrown ==
    ASSUME NEW list, NEW chunk, Shape(list, chunk), NEW tg, LaidOut(list, chunk, tg),
           NEW c \in Roots(chunk), NEW e \in Nat, NEW chunk2,
           DOMAIN chunk2 = DOMAIN chunk,
           \A d \in DOMAIN chunk :
               /\ chunk2[d].into = chunk[d].into /\ chunk2[d].offset = chunk[d].offset
               /\ chunk2[d].size = IF d = c THEN chunk[d].size + e ELSE chunk[d].size
    PROVE  LaidOut(list, chunk2, tg)
<1>1. PICK G, R, D, T : Layout(list, chunk, tg, G, R, D, T)
  BY DEF LaidOut
<1>2. PICK n : n = Len(list) /\ n \in Nat /\ DOMAIN list = 1 .. n
  BY DEF Shape
<1>3. \A d \in DOMAIN chunk : /\ chunk[d].size \in Nat \ {0} /\ chunk[d].offset \in Nat
                              /\ chunk[d].into \in DOMAIN chunk \union {0}
  BY ChunkFacts
<1>4. /\ G \in [DOMAIN chunk -> Nat] /\ R \in [DOMAIN chunk -> Roots(chunk)]
      /\ D \in [DOMAIN chunk -> Nat] /\ T \in Nat
  BY <1>1 DEF Layout
<1>5. PICK G2 : G2 = [d \in DOMAIN chunk |-> IF G[c] < G[R[d]] THEN G[d] + e ELSE G[d]]
  OBVIOUS
<1>6. Roots(chunk2) = Roots(chunk) /\ c \in DOMAIN chunk
  BY DEF Roots
<1>7. G2 \in [DOMAIN chunk2 -> Nat] /\ R \in [DOMAIN chunk2 -> Roots(chunk2)]
  BY <1>4, <1>5, <1>6
<1>8. \A d \in Roots(chunk) : d \in DOMAIN chunk /\ R[d] = d /\ G[d] \in Nat
  BY <1>1, RootOrder DEF Roots
<1>9. PICK k \in 1 .. n : list[k] = c
  BY <1>2, <1>6, ChunkFacts DEF Roots
<1>10. Chain(list, chunk2, G2, T + e)
  <2>1. PICK g, z : g = Places(list, G) /\ z = Sizes(list, chunk)
    OBVIOUS
  <2>2. PICK g2, z2 : g2 = Places(list, G2) /\ z2 = Sizes(list, chunk2)
    OBVIOUS
  <2>3. ASSUME NEW h \in 1 .. n
        PROVE  /\ list[h] \in Roots(chunk)
               /\ g[h] = G[list[h]] /\ z[h] = chunk[list[h]].size
               /\ g2[h] = G2[list[h]] /\ z2[h] = chunk2[list[h]].size
    BY <1>2, <2>1, <2>2, ChunkFacts DEF Places, Sizes, Roots
  <2>4. g \in [1 .. n -> Nat] /\ z \in [1 .. n -> Nat]
    <3>1. \A h \in 1 .. n : G[list[h]] \in Nat /\ chunk[list[h]].size \in Nat
      BY <1>3, <1>8, <2>3
    <3> QED
      BY <1>2, <2>1, <3>1 DEF Places, Sizes
  <2>5. Line(n, g, z, T)
    BY <1>1, <1>2, <2>1 DEF Layout, Chain
  <2>6. ASSUME NEW h \in 1 .. n
        PROVE  /\ g2[h] = IF h <= k THEN g[h] ELSE g[h] + e
               /\ z2[h] = IF h = k THEN z[h] + e ELSE z[h]
    <3>1. g2[h] = IF g[k] < g[h] THEN g[h] + e ELSE g[h]
      BY <1>5, <1>8, <1>9, <2>3
    <3>2. /\ h < k => g[h] + z[h] <= g[k]
          /\ k < h => g[k] + z[k] <= g[h]
      BY <2>5 DEF Line
    <3>3. g[h] \in Nat /\ z[h] \in Nat /\ g[k] \in Nat /\ z[k] \in Nat \ {0}
      BY <1>3, <1>6, <1>9, <2>3, <2>4
    <3>4. list[h] = c <=> h = k
      BY <1>2, <1>9, ChunkFacts DEF IsInjective
    <3>5. z2[h] = IF h = k THEN z[h] + e ELSE z[h]
      BY <1>8, <2>3, <3>4
    <3> QED
      BY <3>1, <3>2, <3>3, <3>5
  <2>7. Line(n, g2, z2, T + e)
    <3>1. \A h \in 1 .. n : /\ g2[h] = IF h <= k THEN g[h] ELSE g[h] + e
                            /\ z2[h] = IF h = k THEN z[h] + e ELSE z[h]
      BY <2>6
    <3>2. n \in Nat /\ T \in Nat
      BY <1>2, <1>4
    <3> QED
      BY <2>4, <2>5, <3>1, <3>2, LineGrown
  <2> QED
    BY <1>2, <2>2, <2>7 DEF Chain
<1>11. Tree(chunk2, G2, R, D)
  <2>1. Tree(chunk, G, R, D)
    BY <1>1 DEF Layout
  <2>2. ASSUME NEW d \in DOMAIN chunk
        PROVE  IF chunk2[d].into = 0 THEN R[d] = d
               ELSE /\ R[d] = R[chunk2[d].into]
                    /\ G2[d] = chunk2[d].offset + G2[chunk2[d].into]
                    /\ D[chunk2[d].into] < D[d]
    <3>1. CASE chunk[d].into = 0
      BY <2>1, <3>1 DEF Tree
    <3>2. CASE chunk[d].into # 0
      <4>1. PICK p : p = chunk[d].into /\ p \in DOMAIN chunk
        BY <1>3, <3>2
      <4>2. R[d] = R[p] /\ G[d] = chunk[d].offset + G[p] /\ D[p] < D[d]
        BY <2>1, <3>2, <4>1 DEF Tree
      <4>3. /\ G2[d] = IF G[c] < G[R[d]] THEN G[d] + e ELSE G[d]
            /\ G2[p] = IF G[c] < G[R[d]] THEN G[p] + e ELSE G[p]
        BY <1>5, <4>1, <4>2
      <4>4. G[d] \in Nat /\ G[p] \in Nat /\ chunk[d].offset \in Nat
        BY <1>3, <1>4, <4>1
      <4>5. G2[d] = chunk[d].offset + G2[p]
        BY <4>2, <4>3, <4>4
      <4> QED
        BY <3>2, <4>1, <4>2, <4>5
    <3> QED
      BY <3>1, <3>2
  <2> QED
    BY <2>2 DEF Tree
<1>12. Kept(chunk2, tg, G2, R, T + e)
  <2>1. Kept(chunk, tg, G, R, T)
    BY <1>1 DEF Layout
  <2>2. ASSUME NEW d \in DOMAIN chunk
        PROVE  /\ R[d] \in DOMAIN chunk /\ G[d] \in Nat /\ G[R[d]] \in Nat /\ G[c] \in Nat
               /\ G2[d] = IF G[c] < G[R[d]] THEN G[d] + e ELSE G[d]
               /\ G2[R[d]] = IF G[c] < G[R[d]] THEN G[R[d]] + e ELSE G[R[d]]
    <3>1. R[d] \in Roots(chunk)
      BY <1>4
    <3>2. R[d] \in DOMAIN chunk /\ R[R[d]] = R[d] /\ G[R[d]] \in Nat
      BY <1>8, <3>1
    <3> QED
      BY <1>4, <1>5, <1>6, <3>2
  <2>3. ASSUME NEW x \in UNION tg
        PROVE  x[1] \in DOMAIN chunk /\ x[2] \in Nat /\ G2[x[1]] + x[2] <= T + e
    <3>1. x[1] \in DOMAIN chunk /\ x[2] \in Nat /\ G[x[1]] + x[2] <= T
      BY <2>1 DEF Kept
    <3> QED
      BY <1>4, <2>2, <3>1
  <2>4. ASSUME NEW pair \in tg, NEW x \in pair, NEW y \in pair, x # y
        PROVE  /\ G2[R[x[1]]] < G2[R[y[1]]] => G2[x[1]] + x[2] <= G2[y[1]]
               /\ R[x[1]] = R[y[1]] => Apart(G2, x, y)
    <3>1. /\ x[1] \in DOMAIN chunk /\ y[1] \in DOMAIN chunk
          /\ x[2] \in Nat /\ y[2] \in Nat
      BY <2>3
    <3>2. /\ G[R[x[1]]] < G[R[y[1]]] => G[x[1]] + x[2] <= G[y[1]]
          /\ R[x[1]] = R[y[1]] =>
                 G[x[1]] + x[2] <= G[y[1]] \/ G[y[1]] + y[2] <= G[x[1]]
      BY <2>1, <2>4 DEF Kept, Apart
    <3>3. G2[R[x[1]]] < G2[R[y[1]]] => G2[x[1]] + x[2] <= G2[y[1]]
      <4>1. PICK u, v : u = R[x[1]] /\ v = R[y[1]]
        OBVIOUS
      <4>2. /\ G[x[1]] \in Nat /\ G[y[1]] \in Nat /\ G[u] \in Nat /\ G[v] \in Nat /\ G[c] \in Nat
            /\ G2[x[1]] = IF G[c] < G[u] THEN G[x[1]] + e ELSE G[x[1]]
            /\ G2[y[1]] = IF G[c] < G[v] THEN G[y[1]] + e ELSE G[y[1]]
            /\ G2[u] = IF G[c] < G[u] THEN G[u] + e ELSE G[u]
            /\ G2[v] = IF G[c] < G[v] THEN G[v] + e ELSE G[v]
        BY <2>2, <3>1, <4>1
      <4>3. G2[u] < G2[v] => G[u] < G[v]
        BY <4>2
      <4>4. G[u] < G[v] => G[x[1]] + x[2] <= G[y[1]]
        BY <3>2, <4>1
      <4> QED
        BY <3>1, <4>1, <4>2, <4>3, <4>4
    <3>4. R[x[1]] = R[y[1]] =>
              G2[x[1]] + x[2] <= G2[y[1]] \/ G2[y[1]] + y[2] <= G2[x[1]]
      BY <2>2, <3>1, <3>2
    <3> QED
      BY <3>3, <3>4 DEF Apart
  <2> QED
    BY <2>3, <2>4 DEF Kept
<1>13. Layout(list, chunk2, tg, G2, R, D, T + e)
  BY <1>4, <1>7, <1>10, <1>11, <1>12 DEF Layout
<1> QED
  BY <1>13 DEF LaidOut

\* One range is cut in two.
CutAt(n, k, s, g, z, g2, z2) ==
    \A h \in 1 .. n + 1 :
        /\ h < k => g2[h] = g[h] /\ z2[h] = z[h]
        /\ h = k => g2[h] = g[k] /\ z2[h] = s
        /\ h = k + 1 => g2[h] = g[k] + s /\ z2[h] = z[k] - s
        /\ h > k + 1 => g2[h] = g[h - 1] /\ z2[h] = z[h - 1]

LEMMA LineSplit ==
    ASSUME NEW n \in Nat, NEW k \in 1 .. n, NEW T \in Nat, NEW s \in Nat,
           NEW g \in [1 .. n -> Nat], NEW z \in [1 .. n -> Nat], Line(n, g, z, T),
           s <= z[k], NEW g2, NEW z2, CutAt(n, k, s, g, z, g2, z2)
    PROVE  Line(n + 1, g2, z2, T)
<1>0. \A h \in 1 .. n + 1 :
          /\ h < k => g2[h] = g[h] /\ z2[h] = z[h]
          /\ h = k => g2[h] = g[k] /\ z2[h] = s
          /\ h = k + 1 => g2[h] = g[k] + s /\ z2[h] = z[k] - s
          /\ h > k + 1 => g2[h] = g[h - 1] /\ z2[h] = z[h - 1]
  BY DEF CutAt
<1> USE <1>0
<1>1. /\ \A h \in 1 .. n : /\ h = 1 => g[h] = 0
                           /\ h = n => g[h] + z[h] = T
                           /\ g[h] + z[h] <= T
      /\ \A h, m \in 1 .. n : h < m => g[h] + z[h] <= g[m]
      /\ \A h, m \in 1 .. n : m = h + 1 => g[m] = g[h] + z[h]
  BY DEF Line
<1>2. ASSUME NEW h \in 1 .. n + 1, h < k
      PROVE  /\ g2[h] = g[h] /\ g2[h] + z2[h] = g[h] + z[h]
             /\ h \in 1 .. n /\ g[h] \in Nat /\ z[h] \in Nat
  BY <1>2
<1>3. /\ g2[k] = g[k] /\ g2[k] + z2[k] = g[k] + s
      /\ g2[k + 1] = g[k] + s /\ g2[k + 1] + z2[k + 1] = g[k] + z[k]
      /\ g[k] \in Nat /\ z[k] \in Nat
  <2>1. k \in 1 .. n + 1 /\ k + 1 \in 1 .. n + 1
    OBVIOUS
  <2>2. /\ g2[k] = g[k] /\ z2[k] = s
        /\ g2[k + 1] = g[k] + s /\ z2[k + 1] = z[k] - s
    BY <2>1
  <2> QED
    BY <2>2
<1>4. ASSUME NEW h \in 1 .. n + 1, h > k + 1
      PROVE  /\ g2[h] = g[h - 1] /\ g2[h] + z2[h] = g[h - 1] + z[h - 1]
             /\ h - 1 \in 1 .. n /\ g[h - 1] \in Nat /\ z[h - 1] \in Nat
  BY <1>4
<1>5. ASSUME NEW h \in 1 .. n + 1
      PROVE  /\ h = 1 => g2[h] = 0
             /\ h = n + 1 => g2[h] + z2[h] = T
             /\ g2[h] + z2[h] <= T
  <2>1. CASE h < k
    <3>1. h \in 1 .. n /\ h # n + 1 /\ g2[h] = g[h] /\ g2[h] + z2[h] = g[h] + z[h]
      BY <1>2, <2>1
    <3>2. (h = 1 => g[h] = 0) /\ g[h] + z[h] <= T
      BY <1>1, <3>1
    <3> QED
      BY <3>1, <3>2
  <2>2. CASE h = k
    <3>1. (k = 1 => g[k] = 0) /\ g[k] + z[k] <= T
      BY <1>1
    <3>2. h # n + 1
      BY <2>2
    <3>3. g[k] + s <= g[k] + z[k]
      BY <1>3
    <3>4. g[k] + s <= T
      BY <1>3, <3>1, <3>3
    <3>5. g2[h] = g[k] /\ g2[h] + z2[h] = g[k] + s
      BY <1>3, <2>2
    <3> QED
      BY <2>2, <3>1, <3>2, <3>4, <3>5
  <2>3. CASE h = k + 1
    <3>1. (k = n => g[k] + z[k] = T) /\ g[k] + z[k] <= T /\ h # 1
      BY <1>1, <2>3
    <3> QED
      BY <1>3, <2>3, <3>1
  <2>4. CASE h > k + 1
    <3>1. /\ h - 1 \in 1 .. n /\ h # 1 /\ (h = n + 1 => h - 1 = n)
          /\ g2[h] + z2[h] = g[h - 1] + z[h - 1]
      BY <1>4, <2>4
    <3>2. (h - 1 = n => g[h - 1] + z[h - 1] = T) /\ g[h - 1] + z[h - 1] <= T
      BY <1>1, <3>1
    <3> QED
      BY <3>1, <3>2
  <2> QED
    BY <2>1, <2>2, <2>3, <2>4
<1>6. ASSUME NEW h \in 1 .. n + 1, NEW m \in 1 .. n + 1, h < m
      PROVE  /\ g2[h] + z2[h] <= g2[m]
             /\ m = h + 1 => g2[m] = g2[h] + z2[h]
  <2>1. CASE m < k
    <3>1. /\ h \in 1 .. n /\ g2[h] + z2[h] = g[h] + z[h]
          /\ m \in 1 .. n /\ g2[m] = g[m]
      BY <1>2, <1>6, <2>1
    <3> QED
      BY <1>1, <1>6, <3>1
  <2>2. CASE m = k
    BY <1>1, <1>2, <1>3, <1>6, <2>2
  <2>3. CASE m = k + 1
    <3>1. CASE h = k
      BY <1>3, <2>3, <3>1
    <3>2. CASE h < k
      <4>1. h \in 1 .. n /\ g2[h] + z2[h] = g[h] + z[h] /\ g[h] \in Nat /\ z[h] \in Nat
        BY <1>2, <3>2
      <4>2. g[h] + z[h] <= g[k]
        BY <1>1, <3>2, <4>1
      <4>3. g2[m] = g[k] + s /\ g[k] \in Nat /\ m # h + 1
        BY <1>3, <2>3, <3>2
      <4> QED
        BY <4>1, <4>2, <4>3
    <3> QED
      BY <1>6, <2>3, <3>1, <3>2
  <2>4. CASE m > k + 1
    <3>1. CASE h < k
      <4>1. h < m - 1 /\ m # h + 1
        BY <2>4, <3>1
      <4>2. h \in 1 .. n /\ g2[h] + z2[h] = g[h] + z[h]
        BY <1>2, <3>1
      <4>3. m - 1 \in 1 .. n /\ g2[m] = g[m - 1]
        BY <1>4, <2>4
      <4>4. g[h] + z[h] <= g[m - 1]
        BY <1>1, <4>1, <4>2, <4>3
      <4> QED
        BY <4>1, <4>2, <4>3, <4>4
    <3>2. CASE h = k
      <4>1. k < m - 1 /\ m # h + 1
        BY <2>4, <3>2
      <4>2. m - 1 \in 1 .. n /\ g2[m] = g[m - 1] /\ g[m - 1] \in Nat
        BY <1>4, <2>4
      <4>3. g[k] + z[k] <= g[m - 1]
        BY <1>1, <4>1, <4>2
      <4>4. g2[h] + z2[h] = g[k] + s /\ g[k] \in Nat /\ z[k] \in Nat
        BY <1>3, <3>2
      <4>5. g[k] + s <= g[k] + z[k]
        BY <4>4
      <4> QED
        BY <4>1, <4>2, <4>3, <4>4, <4>5
    <3>3. CASE h = k + 1
      <4>1. k < m - 1 /\ (m = h + 1 => m - 1 = k + 1)
        BY <2>4, <3>3
      <4>2. m - 1 \in 1 .. n /\ g2[m] = g[m - 1]
        BY <1>4, <2>4
      <4>3. g[k] + z[k] <= g[m - 1] /\ (m - 1 = k + 1 => g[m - 1] = g[k] + z[k])
        BY <1>1, <4>1, <4>2
      <4>4. g2[h] + z2[h] = g[k] + z[k]
        BY <1>3, <3>3
      <4> QED
        BY <4>1, <4>2, <4>3, <4>4
    <3>4. CASE h > k + 1
      <4>1. h - 1 < m - 1 /\ (m = h + 1 => m - 1 = (h - 1) + 1)
        BY <1>6
      <4>2. /\ g[h - 1] + z[h - 1] <= g[m - 1]
            /\ m - 1 = (h - 1) + 1 => g[m - 1] = g[h - 1] + z[h - 1]
        BY <1>1, <1>4, <2>4, <3>4, <4>1
      <4> QED
        BY <1>4, <2>4, <3>4, <4>1, <4>2
    <3> QED
      BY <3>1, <3>2, <3>3, <3>4
  <2> QED
    BY <2>1, <2>2, <2>3, <2>4
<1>7. n + 1 # 0
  OBVIOUS
<1>8. \A h, m \in 1 .. n + 1 : h < m => g2[h] + z2[h] <= g2[m]
  BY <1>6
<1>9. \A h, m \in 1 .. n + 1 : m = h + 1 => g2[m] = g2[h] + z2[h]
  BY <1>6
<1> QED
  BY <1>5, <1>7, <1>8, <1>9 DEF Line

\* One more range at the end.
OneAfter(n, a, s, g, z, g2, z2) ==
    /\ \A h \in 1 .. n : g2[h] = g[h] /\ z2[h] = z[h]
    /\ g2[n + 1] = a /\ z2[n + 1] = s

LEMMA LineLonger ==
    ASSUME NEW n \in Nat, NEW T \in Nat, NEW s \in Nat,
           NEW g \in [1 .. n -> Nat], NEW z \in [1 .. n -> Nat], Line(n, g, z, T),
           NEW g2, NEW z2, OneAfter(n, T, s, g, z, g2, z2)
    PROVE  Line(n + 1, g2, z2, T + s)
<1>0. /\ \A h \in 1 .. n : g2[h] = g[h] /\ z2[h] = z[h]
      /\ g2[n + 1] = T /\ z2[n + 1] = s
  BY DEF OneAfter
<1> USE <1>0
<1>1. /\ n = 0 => T = 0
      /\ \A h \in 1 .. n : /\ h = 1 => g[h] = 0
                           /\ h = n => g[h] + z[h] = T
                           /\ g[h] + z[h] <= T
      /\ \A h, m \in 1 .. n : h < m => g[h] + z[h] <= g[m]
      /\ \A h, m \in 1 .. n : m = h + 1 => g[m] = g[h] + z[h]
  BY DEF Line
<1>2. ASSUME NEW h \in 1 .. n + 1
      PROVE  /\ h = 1 => g2[h] = 0
             /\ h = n + 1 => g2[h] + z2[h] = T + s
             /\ g2[h] + z2[h] <= T + s
  <2>1. CASE h \in 1 .. n
    <3>1. (h = 1 => g[h] = 0) /\ g[h] + z[h] <= T /\ h # n + 1
      BY <1>1, <2>1
    <3>2. g2[h] = g[h] /\ z2[h] = z[h] /\ g[h] \in Nat /\ z[h] \in Nat
      BY <2>1
    <3> QED
      BY <3>1, <3>2
  <2>2. CASE h = n + 1
    BY <1>1, <2>2
  <2> QED
    BY <2>1, <2>2
<1>3. ASSUME NEW h \in 1 .. n + 1, NEW m \in 1 .. n + 1, h < m
      PROVE  /\ g2[h] + z2[h] <= g2[m]
             /\ m = h + 1 => g2[m] = g2[h] + z2[h]
  <2>1. h \in 1 .. n /\ g2[h] = g[h] /\ z2[h] = z[h]
    BY <1>3
  <2>2. CASE m \in 1 .. n
    BY <1>1, <1>3, <2>1, <2>2, ZenonT(60)
  <2>3. CASE m = n + 1
    BY <1>1, <1>3, <2>1, <2>3
  <2> QED
    BY <2>2, <2>3
<1>4. n + 1 # 0
  OBVIOUS
<1>5. \A h, m \in 1 .. n + 1 : h < m => g2[h] + z2[h] <= g2[m]
  BY <1>3
<1>6. \A h, m \in 1 .. n + 1 : m = h + 1 => g2[m] = g2[h] + z2[h]
  BY <1>3
<1> QED
  BY <1>2, <1>4, <1>5, <1>6 DEF Line

\* chunk2 is chunk with one more chunk w, which is in no other.
OneMore(chunk, w, chunk2) ==
    /\ w \notin DOMAIN chunk /\ w # 0
    /\ DOMAIN chunk2 = DOMAIN chunk \union {w}
    /\ chunk2[w].into = 0
    /\ \A d \in DOMAIN chunk : /\ chunk2[d].into = chunk[d].into
                               /\ chunk2[d].offset = chunk[d].offset

\* The layout with w at place a.
PutAt(chunk2, w, a, G, R, D, G2, R2, D2) ==
    /\ G2 = [d \in DOMAIN chunk2 |-> IF d = w THEN a ELSE G[d]]
    /\ R2 = [d \in DOMAIN chunk2 |-> IF d = w THEN w ELSE R[d]]
    /\ D2 = [d \in DOMAIN chunk2 |-> IF d = w THEN 0 ELSE D[d]]

\* The trees stay as they are.
Replanted(chunk, chunk2, w, a, G, R, D, G2, R2, D2) ==
    /\ G2 \in [DOMAIN chunk2 -> Nat] /\ R2 \in [DOMAIN chunk2 -> Roots(chunk2)]
    /\ D2 \in [DOMAIN chunk2 -> Nat] /\ Tree(chunk2, G2, R2, D2)
    /\ G2[w] = a /\ R2[w] = w
    /\ \A d \in DOMAIN chunk : /\ d \in DOMAIN chunk2 /\ d # w
                               /\ G2[d] = G[d] /\ R2[d] = R[d] /\ D2[d] = D[d]
                               /\ G2[R2[d]] = G[R[d]] /\ R[d] \in DOMAIN chunk

LEMMA TreeOneMore ==
    ASSUME NEW list, NEW chunk, Shape(list, chunk), NEW tg, NEW G, NEW R, NEW D, NEW T,
           Layout(list, chunk, tg, G, R, D, T), NEW w, NEW chunk2, OneMore(chunk, w, chunk2),
           NEW a \in Nat, NEW G2, NEW R2, NEW D2, PutAt(chunk2, w, a, G, R, D, G2, R2, D2)
    PROVE  Replanted(chunk, chunk2, w, a, G, R, D, G2, R2, D2)
<1>1. /\ w \notin DOMAIN chunk /\ w # 0 /\ DOMAIN chunk2 = DOMAIN chunk \union {w}
      /\ chunk2[w].into = 0
      /\ \A d \in DOMAIN chunk : chunk2[d].into = chunk[d].into /\ chunk2[d].offset = chunk[d].offset
  BY DEF OneMore
<1>2. /\ G \in [DOMAIN chunk -> Nat] /\ R \in [DOMAIN chunk -> Roots(chunk)]
      /\ D \in [DOMAIN chunk -> Nat] /\ Tree(chunk, G, R, D)
  BY DEF Layout
<1>3. Roots(chunk2) = Roots(chunk) \union {w} /\ Roots(chunk) \subseteq DOMAIN chunk
  BY <1>1 DEF Roots
<1>4. /\ G2[w] = a /\ R2[w] = w
      /\ \A d \in DOMAIN chunk : /\ d \in DOMAIN chunk2 /\ d # w
                                 /\ G2[d] = G[d] /\ R2[d] = R[d] /\ D2[d] = D[d]
  BY <1>1 DEF PutAt
<1>5. ASSUME NEW d \in DOMAIN chunk PROVE G2[R2[d]] = G[R[d]] /\ R[d] \in DOMAIN chunk
  <2>1. R[d] \in DOMAIN chunk
    BY <1>2, <1>3
  <2> QED
    BY <1>4, <2>1
<1>6. /\ G2 \in [DOMAIN chunk2 -> Nat] /\ R2 \in [DOMAIN chunk2 -> Roots(chunk2)]
      /\ D2 \in [DOMAIN chunk2 -> Nat]
  BY <1>1, <1>2, <1>3 DEF PutAt
<1>7. ASSUME NEW d \in DOMAIN chunk2
      PROVE  IF chunk2[d].into = 0 THEN R2[d] = d
             ELSE /\ R2[d] = R2[chunk2[d].into]
                  /\ G2[d] = chunk2[d].offset + G2[chunk2[d].into]
                  /\ D2[chunk2[d].into] < D2[d]
  <2>1. CASE d = w
    BY <1>1, <1>4, <2>1
  <2>2. CASE d \in DOMAIN chunk /\ chunk[d].into = 0
    BY <1>1, <1>2, <1>4, <2>2 DEF Tree
  <2>3. CASE d \in DOMAIN chunk /\ chunk[d].into # 0
    <3>1. PICK p : p = chunk[d].into /\ p \in DOMAIN chunk
      BY <2>3, ChunkFacts
    <3>2. R[d] = R[p] /\ G[d] = chunk[d].offset + G[p] /\ D[p] < D[d]
      BY <1>2, <2>3, <3>1 DEF Tree
    <3> QED
      BY <1>1, <1>4, <2>3, <3>1, <3>2
  <2> QED
    BY <1>1, <2>1, <2>2, <2>3
<1>8. Tree(chunk2, G2, R2, D2)
  BY <1>7 DEF Tree
<1> QED
  BY <1>4, <1>5, <1>6, <1>8 DEF Replanted

\* Chunk list[k] keeps s bytes, and the new chunk w after it gets the others.
SplitAt(list, chunk, k, s, w, list2, chunk2) ==
    /\ OneMore(chunk, w, chunk2)
    /\ Len(list2) = Len(list) + 1 /\ DOMAIN list2 = 1 .. Len(list) + 1
    /\ \A h \in 1 .. k : list2[h] = list[h]
    /\ list2[k + 1] = w
    /\ \A h \in k + 2 .. Len(list) + 1 : list2[h] = list[h - 1]
    /\ chunk2[w].size = chunk[list[k]].size - s
    /\ \A d \in DOMAIN chunk : chunk2[d].size = IF d = list[k] THEN s ELSE chunk[d].size

\* The new chunk w of s bytes is the last one.
Longer(list, chunk, s, w, list2, chunk2) ==
    /\ OneMore(chunk, w, chunk2)
    /\ Len(list2) = Len(list) + 1 /\ DOMAIN list2 = 1 .. Len(list) + 1
    /\ \A h \in 1 .. Len(list) : list2[h] = list[h]
    /\ list2[Len(list) + 1] = w
    /\ chunk2[w].size = s
    /\ \A d \in DOMAIN chunk : chunk2[d].size = chunk[d].size

\* The chunk at position k is cut after s; the rest is the new chunk w.
LEMMA LayoutSplit ==
    ASSUME NEW list, NEW chunk, Shape(list, chunk), NEW tg, LaidOut(list, chunk, tg),
           NEW k \in 1 .. Len(list), NEW s \in Nat, s <= chunk[list[k]].size,
           NEW w, NEW list2, NEW chunk2, SplitAt(list, chunk, k, s, w, list2, chunk2)
    PROVE  LaidOut(list2, chunk2, tg)
<1>0. /\ OneMore(chunk, w, chunk2)
      /\ Len(list2) = Len(list) + 1 /\ DOMAIN list2 = 1 .. Len(list) + 1
      /\ \A h \in 1 .. k : list2[h] = list[h]
      /\ list2[k + 1] = w
      /\ \A h \in k + 2 .. Len(list) + 1 : list2[h] = list[h - 1]
      /\ chunk2[w].size = chunk[list[k]].size - s
      /\ \A d \in DOMAIN chunk : chunk2[d].size = IF d = list[k] THEN s ELSE chunk[d].size
  BY DEF SplitAt
<1> USE <1>0
<1>1. PICK G, R, D, T : Layout(list, chunk, tg, G, R, D, T)
  BY DEF LaidOut
<1>2. PICK n : n = Len(list) /\ n \in Nat /\ DOMAIN list = 1 .. n /\ k \in 1 .. n
  BY DEF Shape
<1>3. PICK a : a = G[list[k]] + s
  OBVIOUS
<1>4. \A h \in 1 .. n : list[h] \in Roots(chunk) /\ list[h] \in DOMAIN chunk
  BY <1>2, ChunkFacts DEF Roots
<1>5. \A h \in 1 .. n : G[list[h]] \in Nat /\ chunk[list[h]].size \in Nat
  BY <1>1, <1>4, RootOrder, ChunkFacts
<1>6. a \in Nat
  BY <1>2, <1>3, <1>5
<1>7. PICK G2, R2, D2 : PutAt(chunk2, w, a, G, R, D, G2, R2, D2)
  BY DEF PutAt
<1>8. /\ G2 \in [DOMAIN chunk2 -> Nat] /\ R2 \in [DOMAIN chunk2 -> Roots(chunk2)]
      /\ D2 \in [DOMAIN chunk2 -> Nat] /\ Tree(chunk2, G2, R2, D2)
      /\ G2[w] = a /\ R2[w] = w
      /\ \A d \in DOMAIN chunk : /\ d \in DOMAIN chunk2 /\ d # w
                                 /\ G2[d] = G[d] /\ R2[d] = R[d] /\ D2[d] = D[d]
                                 /\ G2[R2[d]] = G[R[d]] /\ R[d] \in DOMAIN chunk
  <2>1. Replanted(chunk, chunk2, w, a, G, R, D, G2, R2, D2)
    BY <1>1, <1>6, <1>7, TreeOneMore
  <2> QED
    BY <2>1 DEF Replanted
<1>9. Chain(list2, chunk2, G2, T)
  <2>1. PICK g, z : g = Places(list, G) /\ z = Sizes(list, chunk)
    OBVIOUS
  <2>2. PICK g2, z2 : g2 = Places(list2, G2) /\ z2 = Sizes(list2, chunk2)
    OBVIOUS
  <2>3. \A h \in 1 .. n : g[h] = G[list[h]] /\ z[h] = chunk[list[h]].size
    BY <1>2, <2>1 DEF Places, Sizes
  <2>4. g \in [1 .. n -> Nat] /\ z \in [1 .. n -> Nat]
    BY <1>2, <1>5, <2>1 DEF Places, Sizes
  <2>5. \A h \in 1 .. n + 1 : g2[h] = G2[list2[h]] /\ z2[h] = chunk2[list2[h]].size
    BY <1>2, <2>2 DEF Places, Sizes
  <2>6. Line(n, g, z, T)
    BY <1>1, <1>2, <2>1 DEF Layout, Chain
  <2>7. \A h \in 1 .. n : list[h] = list[k] => h = k
    BY <1>2, ChunkFacts DEF IsInjective
  <2>8. ASSUME NEW h \in 1 .. n + 1
        PROVE  /\ h < k => g2[h] = g[h] /\ z2[h] = z[h]
               /\ h = k => g2[h] = g[k] /\ z2[h] = s
               /\ h = k + 1 => g2[h] = g[k] + s /\ z2[h] = z[k] - s
               /\ h > k + 1 => g2[h] = g[h - 1] /\ z2[h] = z[h - 1]
    <3>1. g2[h] = G2[list2[h]] /\ z2[h] = chunk2[list2[h]].size
      BY <2>5
    <3>2. CASE h < k
      <4>1. h \in 1 .. n /\ h \in 1 .. k /\ h # k
        BY <1>2, <3>2
      <4>2. list2[h] = list[h] /\ list[h] # list[k] /\ list[h] \in DOMAIN chunk
        BY <1>4, <2>7, <4>1
      <4>3. G2[list[h]] = G[list[h]] /\ chunk2[list[h]].size = chunk[list[h]].size
        BY <1>8, <4>2
      <4> QED
        BY <2>3, <3>1, <3>2, <4>1, <4>2, <4>3
    <3>3. CASE h = k
      <4>1. h \in 1 .. k /\ list[k] \in DOMAIN chunk
        BY <1>2, <1>4, <3>3
      <4>2. list2[h] = list[k] /\ G2[list[k]] = G[list[k]] /\ chunk2[list[k]].size = s
        BY <1>8, <3>3, <4>1
      <4>3. g[k] = G[list[k]]
        BY <1>2, <2>3
      <4>4. g2[h] = g[k] /\ z2[h] = s /\ ~(h < k) /\ h # k + 1 /\ ~(h > k + 1)
        BY <3>1, <3>3, <4>2, <4>3
      <4> QED
        BY <4>4
    <3>4. CASE h = k + 1
      <4>1. list2[h] = w /\ g[k] = G[list[k]] /\ z[k] = chunk[list[k]].size
        BY <1>2, <2>3, <3>4
      <4>2. g2[h] = g[k] + s
        BY <1>3, <1>8, <3>1, <4>1
      <4>3. z2[h] = z[k] - s
        BY <3>1, <4>1
      <4>4. ~(h < k) /\ h # k /\ ~(h > k + 1)
        BY <1>2, <3>4
      <4> QED
        BY <4>2, <4>3, <4>4
    <3>5. CASE h > k + 1
      <4>1. h - 1 \in 1 .. n /\ h \in k + 2 .. n + 1 /\ h - 1 # k
        BY <1>2, <3>5
      <4>2. list2[h] = list[h - 1] /\ list[h - 1] # list[k] /\ list[h - 1] \in DOMAIN chunk
        BY <1>2, <1>4, <2>7, <4>1
      <4>3. G2[list[h - 1]] = G[list[h - 1]] /\ chunk2[list[h - 1]].size = chunk[list[h - 1]].size
        BY <1>8, <4>2
      <4> QED
        BY <2>3, <3>1, <3>5, <4>1, <4>2, <4>3
    <3> QED
      BY <3>2, <3>3, <3>4, <3>5
  <2>9. Line(n + 1, g2, z2, T)
    <3>1. CutAt(n, k, s, g, z, g2, z2)
      BY <2>8 DEF CutAt
    <3>2. n \in Nat /\ T \in Nat /\ k \in 1 .. n /\ s <= z[k]
      BY <1>1, <1>2, <2>3 DEF Layout
    <3> QED
      BY <2>4, <2>6, <3>1, <3>2, LineSplit
  <2> QED
    BY <1>2, <2>2, <2>9 DEF Chain
<1>10. Kept(chunk2, tg, G2, R2, T)
  <2>1. Kept(chunk, tg, G, R, T)
    BY <1>1 DEF Layout
  <2>2. ASSUME NEW x \in UNION tg
        PROVE  /\ x[1] \in DOMAIN chunk /\ x[1] \in DOMAIN chunk2 /\ x[2] \in Nat
               /\ G2[x[1]] + x[2] <= T
    BY <1>8, <2>1 DEF Kept
  <2>3. ASSUME NEW pair \in tg, NEW x \in pair, NEW y \in pair, x # y
        PROVE  /\ G2[R2[x[1]]] < G2[R2[y[1]]] => G2[x[1]] + x[2] <= G2[y[1]]
               /\ R2[x[1]] = R2[y[1]] => Apart(G2, x, y)
    <3>1. x[1] \in DOMAIN chunk /\ y[1] \in DOMAIN chunk
      BY <2>2
    <3>2. /\ G[R[x[1]]] < G[R[y[1]]] => G[x[1]] + x[2] <= G[y[1]]
          /\ R[x[1]] = R[y[1]] => Apart(G, x, y)
      BY <2>1, <2>3 DEF Kept
    <3> QED
      BY <1>8, <3>1, <3>2 DEF Apart
  <2> QED
    BY <2>2, <2>3 DEF Kept
<1>11. Layout(list2, chunk2, tg, G2, R2, D2, T)
  BY <1>1, <1>8, <1>9, <1>10 DEF Layout
<1> QED
  BY <1>11 DEF LaidOut

\* A new chunk w at the end, and with it a request that overlaps no earlier one.
LEMMA LayoutLonger ==
    ASSUME NEW list, NEW chunk, Shape(list, chunk), NEW tg, LaidOut(list, chunk, tg),
           NEW s \in Nat \ {0}, NEW w, NEW list2, NEW chunk2,
           Longer(list, chunk, s, w, list2, chunk2),
           NEW x, x[1] = w, x[2] = s, NEW Y \in SUBSET UNION tg
    PROVE  LaidOut(list2, chunk2, tg \union Pairs(x, Y))
<1> USE DEF Pairs
<1>0. /\ OneMore(chunk, w, chunk2)
      /\ Len(list2) = Len(list) + 1 /\ DOMAIN list2 = 1 .. Len(list) + 1
      /\ \A h \in 1 .. Len(list) : list2[h] = list[h]
      /\ list2[Len(list) + 1] = w
      /\ chunk2[w].size = s
      /\ \A d \in DOMAIN chunk : chunk2[d].size = chunk[d].size
  BY DEF Longer
<1> USE <1>0
<1>1. PICK G, R, D, T : Layout(list, chunk, tg, G, R, D, T)
  BY DEF LaidOut
<1>2. PICK n : n = Len(list) /\ n \in Nat /\ DOMAIN list = 1 .. n
  BY DEF Shape
<1>3. \A h \in 1 .. n : list[h] \in Roots(chunk) /\ list[h] \in DOMAIN chunk
  BY <1>2, ChunkFacts DEF Roots
<1>4. \A h \in 1 .. n : G[list[h]] \in Nat /\ chunk[list[h]].size \in Nat
  BY <1>1, <1>3, RootOrder, ChunkFacts
<1>5. T \in Nat
  BY <1>1 DEF Layout
<1>6. PICK G2, R2, D2 : PutAt(chunk2, w, T, G, R, D, G2, R2, D2)
  BY DEF PutAt
<1>7. /\ G2 \in [DOMAIN chunk2 -> Nat] /\ R2 \in [DOMAIN chunk2 -> Roots(chunk2)]
      /\ D2 \in [DOMAIN chunk2 -> Nat] /\ Tree(chunk2, G2, R2, D2)
      /\ G2[w] = T /\ R2[w] = w
      /\ \A d \in DOMAIN chunk : /\ d \in DOMAIN chunk2 /\ d # w
                                 /\ G2[d] = G[d] /\ R2[d] = R[d] /\ D2[d] = D[d]
                                 /\ G2[R2[d]] = G[R[d]] /\ R[d] \in DOMAIN chunk
  <2>1. Replanted(chunk, chunk2, w, T, G, R, D, G2, R2, D2)
    BY <1>1, <1>5, <1>6, TreeOneMore
  <2> QED
    BY <2>1 DEF Replanted
<1>8. Chain(list2, chunk2, G2, T + s)
  <2>1. PICK g, z : g = Places(list, G) /\ z = Sizes(list, chunk)
    OBVIOUS
  <2>2. PICK g2, z2 : g2 = Places(list2, G2) /\ z2 = Sizes(list2, chunk2)
    OBVIOUS
  <2>3. \A h \in 1 .. n : g[h] = G[list[h]] /\ z[h] = chunk[list[h]].size
    BY <1>2, <2>1 DEF Places, Sizes
  <2>4. g \in [1 .. n -> Nat] /\ z \in [1 .. n -> Nat]
    BY <1>2, <1>4, <2>1 DEF Places, Sizes
  <2>5. \A h \in 1 .. n + 1 : g2[h] = G2[list2[h]] /\ z2[h] = chunk2[list2[h]].size
    BY <1>2, <2>2 DEF Places, Sizes
  <2>6. Line(n, g, z, T)
    BY <1>1, <1>2, <2>1 DEF Layout, Chain
  <2>7. ASSUME NEW h \in 1 .. n PROVE g2[h] = g[h] /\ z2[h] = z[h]
    <3>1. list2[h] = list[h] /\ list[h] \in DOMAIN chunk /\ h \in 1 .. n + 1
      BY <1>2, <1>3
    <3>2. G2[list[h]] = G[list[h]] /\ chunk2[list[h]].size = chunk[list[h]].size
      BY <1>7, <3>1
    <3> QED
      BY <2>3, <2>5, <3>1, <3>2
  <2>8. g2[n + 1] = T /\ z2[n + 1] = s
    BY <1>2, <1>7, <2>5
  <2>9. Line(n + 1, g2, z2, T + s)
    <3>1. n \in Nat /\ s \in Nat
      BY <1>2
    <3>2. OneAfter(n, T, s, g, z, g2, z2)
      BY <2>7, <2>8 DEF OneAfter
    <3> QED
      BY <1>5, <2>4, <2>6, <3>1, <3>2, LineLonger
  <2> QED
    BY <1>2, <2>2, <2>9 DEF Chain
<1>9. PICK tg2 : tg2 = tg \union {{x, y} : y \in Y \union {x}}
  OBVIOUS
<1>10. Kept(chunk, tg, G, R, T)
  BY <1>1 DEF Layout
<1>11. ASSUME NEW q \in UNION tg
       PROVE  /\ q[1] \in DOMAIN chunk /\ q[1] \in DOMAIN chunk2 /\ q[2] \in Nat
              /\ G[q[1]] + q[2] <= T /\ G2[q[1]] = G[q[1]] /\ G[q[1]] \in Nat
              /\ R2[q[1]] # w /\ G2[R2[q[1]]] < T
  <2>1. q[1] \in DOMAIN chunk /\ q[2] \in Nat /\ G[q[1]] + q[2] <= T
    BY <1>10 DEF Kept
  <2>2. R[q[1]] \in Roots(chunk) /\ G[q[1]] \in Nat
    BY <1>1, <2>1 DEF Layout
  <2>3. G[R[q[1]]] \in Nat /\ G[R[q[1]]] + chunk[R[q[1]]].size <= T
    BY <1>1, <2>2, RootOrder
  <2>4. chunk[R[q[1]]].size \in Nat \ {0}
    BY <2>2, ChunkFacts DEF Roots
  <2>5. G[R[q[1]]] < T
    BY <1>5, <2>3, <2>4
  <2> QED
    BY <1>7, <2>1, <2>2, <2>5
<1>12. ASSUME NEW q \in UNION tg2
       PROVE  q[1] \in DOMAIN chunk2 /\ q[2] \in Nat /\ G2[q[1]] + q[2] <= T + s
  <2>1. CASE q \in UNION tg
    BY <1>5, <1>11, <2>1
  <2>2. CASE q = x
    BY <1>5, <1>7, <2>2 DEF OneMore
  <2> QED
    BY <1>9, <1>12, <2>1, <2>2
<1>13. ASSUME NEW pair \in tg2, NEW p \in pair, NEW q \in pair, p # q
       PROVE  /\ G2[R2[p[1]]] < G2[R2[q[1]]] => G2[p[1]] + p[2] <= G2[q[1]]
              /\ R2[p[1]] = R2[q[1]] => Apart(G2, p, q)
  <2>1. CASE pair \in tg
    <3>1. p \in UNION tg /\ q \in UNION tg
      BY <2>1
    <3>2. p[1] \in DOMAIN chunk /\ q[1] \in DOMAIN chunk
      BY <1>11, <3>1
    <3>3. /\ G[R[p[1]]] < G[R[q[1]]] => G[p[1]] + p[2] <= G[q[1]]
          /\ R[p[1]] = R[q[1]] => Apart(G, p, q)
      BY <1>10, <1>13, <2>1 DEF Kept
    <3> QED
      BY <1>7, <3>2, <3>3 DEF Apart
  <2>2. CASE pair \notin tg
    <3>1. PICK y \in Y \union {x} : pair = {x, y}
      BY <1>9, <2>2
    <3>2. y \in UNION tg /\ ((p = x /\ q = y) \/ (p = y /\ q = x))
      BY <1>13, <3>1
    <3>3. G2[y[1]] + y[2] <= G2[x[1]] /\ R2[y[1]] # R2[x[1]] /\ ~(G2[R2[x[1]]] < G2[R2[y[1]]])
      <4>1. /\ G[y[1]] + y[2] <= T /\ G2[y[1]] = G[y[1]] /\ R2[y[1]] # w
            /\ G2[R2[y[1]]] < T /\ G2[R2[y[1]]] \in Nat
        <5>1. y[1] \in DOMAIN chunk
          BY <1>11, <3>2
        <5>2. G[R[y[1]]] \in Nat /\ G2[R2[y[1]]] = G[R[y[1]]]
          BY <1>1, <1>7, <5>1 DEF Layout
        <5> QED
          BY <1>11, <3>2, <5>2
      <4> QED
        BY <1>5, <1>7, <4>1
    <3> QED
      BY <3>2, <3>3
  <2> QED
    BY <2>1, <2>2
<1>14. Kept(chunk2, tg2, G2, R2, T + s)
  BY <1>12, <1>13 DEF Kept
<1>15. Layout(list2, chunk2, tg2, G2, R2, D2, T + s)
  BY <1>5, <1>7, <1>8, <1>14 DEF Layout
<1> QED
  BY <1>9, <1>15 DEF LaidOut

-----------------------------------------------------------------------------
(* The plan of one allocator.                                              *)

\* mFreeList holds the chunks of the list that are not used, and of two neighbours
\* one is used.
FreeListed(st) ==
    /\ st.mFreeList = {c \in Roots(st.chunk) : ~st.chunk[c].usage}
    /\ \A i, j \in DOMAIN st.list : j = i + 1 =>
           st.chunk[st.list[i]].usage \/ st.chunk[st.list[j]].usage

\* The used chunks of the list are those that were requested and not freed, with
\* the size that was asked.
LiveUsed(st, lv, tg) ==
    /\ \A x \in lv : /\ x[1] \in Roots(st.chunk) /\ st.chunk[x[1]].usage
                     /\ x[2] = st.chunk[x[1]].size /\ x \in UNION tg
    /\ \A c \in Roots(st.chunk) : st.chunk[c].usage => \E x \in lv : x[1] = c

\* What barrierEnd will free is live, and noted once.
NotedLive(st, lv) ==
    /\ IsInjective(st.mBarrrierFreeChunks)
    /\ \A i \in DOMAIN st.mBarrrierFreeChunks : \E x \in lv : x[1] = st.mBarrrierFreeChunks[i]

\* The offsets of a computed plan keep the requests apart.
Computed(st, tg) ==
    \A pair \in tg : \A x, y \in pair :
        /\ st.chunk[x[1]].offset + x[2] <= st.mTotalSize
        /\ x # y => \/ st.chunk[x[1]].offset + x[2] <= st.chunk[y[1]].offset
                    \/ st.chunk[y[1]].offset + y[2] <= st.chunk[x[1]].offset

PlanInv(st, lv, tg) ==
    /\ st \in PlanRec /\ Shape(st.list, st.chunk)
    /\ FreeListed(st) /\ LiveUsed(st, lv, tg) /\ NotedLive(st, lv)
    /\ st.mTotalSize = 0 => LaidOut(st.list, st.chunk, tg)
    /\ st.mTotalSize > 0 => /\ Computed(st, tg) /\ lv = {} /\ st.mFreeList # {}
                            /\ ~st.mBarrrier /\ st.mBarrrierFreeChunks = << >>

\* A chunk of the list has one position.
LEMMA PosOfFacts ==
    ASSUME NEW st, Shape(st.list, st.chunk), NEW i \in DOMAIN st.list
    PROVE  PosOf(st, st.list[i]) = i
<1>1. \A j \in DOMAIN st.list : st.list[j] = st.list[i] => j = i
  BY ChunkFacts DEF IsInjective
<1>2. \E j \in DOMAIN st.list : st.list[j] = st.list[i]
  OBVIOUS
<1>3. PosOf(st, st.list[i]) \in DOMAIN st.list /\ st.list[PosOf(st, st.list[i])] = st.list[i]
  BY <1>2 DEF PosOf
<1> QED
  BY <1>1, <1>3

\* The members of the plan after createMemNode and insert_after.
Created(st, size, i, w, st2) ==
    /\ st2 \in PlanRec
    /\ st2.mFreeList = st.mFreeList /\ st2.mBarrrier = st.mBarrrier
    /\ st2.mBarrrierFreeChunks = st.mBarrrierFreeChunks
    /\ st2.mTotalSize = st.mTotalSize /\ st2.mPtr = st.mPtr
    /\ Len(st2.list) = Len(st.list) + 1 /\ DOMAIN st2.list = 1 .. Len(st.list) + 1
    /\ \A h \in 1 .. i - 1 : st2.list[h] = st.list[h]
    /\ st2.list[i] = w
    /\ \A h \in i + 1 .. Len(st.list) + 1 : st2.list[h] = st.list[h - 1]
    /\ w \in Nat \ {0} /\ w \notin DOMAIN st.chunk
    /\ DOMAIN st2.chunk = DOMAIN st.chunk \union {w}
    /\ \A d \in DOMAIN st.chunk : st2.chunk[d] = st.chunk[d]
    /\ st2.chunk[w].size = size /\ st2.chunk[w].into = 0

LEMMA CreateFacts ==
    ASSUME NEW st \in PlanRec, NEW size \in Nat \ {0}, NEW usage \in BOOLEAN,
           NEW i \in 1 .. Len(st.list) + 1, NEW st2, st2 = Create(st, size, usage, i),
           NEW w, w = Len(st.chunk) + 1
    PROVE  Created(st, size, i, w, st2) /\ st2.chunk[w].usage = usage
<1>1. /\ st.list \in Seq(Nat) /\ st.chunk \in Seq(ChunkRec) /\ st.mFreeList \in SUBSET Nat
      /\ st.mBarrrier \in BOOLEAN /\ st.mBarrrierFreeChunks \in Seq(Nat)
      /\ st.mTotalSize \in Nat /\ st.mPtr \in Address \union {NULL}
  BY DEF PlanRec
<1>2. PICK rec : rec = [size |-> size, offset |-> 0, usage |-> usage, into |-> 0]
  OBVIOUS
<1>3. rec \in ChunkRec
  BY <1>2 DEF ChunkRec
<1>4. PICK c2, l2 : c2 = Append(st.chunk, rec) /\ l2 = InsertAt(st.list, i, w)
  OBVIOUS
<1>5. w \in Nat \ {0} /\ DOMAIN st.chunk = 1 .. Len(st.chunk) /\ w \notin DOMAIN st.chunk
  BY <1>1
<1>6. /\ c2 \in Seq(ChunkRec) /\ DOMAIN c2 = DOMAIN st.chunk \union {w} /\ c2[w] = rec
      /\ \A d \in DOMAIN st.chunk : c2[d] = st.chunk[d]
  <2>1. /\ c2 \in Seq(ChunkRec) /\ Len(c2) = Len(st.chunk) + 1
        /\ \A h \in 1 .. Len(st.chunk) : c2[h] = st.chunk[h]
        /\ c2[Len(st.chunk) + 1] = rec
    BY <1>1, <1>3, <1>4, AppendProperties
  <2>2. DOMAIN c2 = 1 .. Len(st.chunk) + 1
    BY <2>1
  <2>3. \A n \in Nat : 1 .. n + 1 = (1 .. n) \union {n + 1}
    OBVIOUS
  <2>4. Len(st.chunk) \in Nat
    BY <1>1
  <2> QED
    BY <1>5, <2>1, <2>2, <2>3, <2>4
<1>7. /\ l2 \in Seq(Nat) /\ Len(l2) = Len(st.list) + 1
      /\ \A h \in 1 .. i - 1 : l2[h] = st.list[h]
      /\ l2[i] = w
      /\ \A h \in i + 1 .. Len(st.list) + 1 : l2[h] = st.list[h - 1]
  <2>1. PICK S : S = Nat
    OBVIOUS
  <2>2. st.list \in Seq(S) /\ w \in S /\ i \in 1 .. Len(st.list) + 1
    BY <1>1, <1>5, <2>1
  <2>3. Inserted(S, st.list, i, w, InsertAt(st.list, i, w))
    BY <2>2, InsertFacts
  <2> QED
    BY <1>4, <2>1, <2>3 DEF Inserted
<1>8. DOMAIN l2 = 1 .. Len(st.list) + 1
  BY <1>7
<1>9. st2 = [st EXCEPT !.chunk = c2, !.list = l2]
  BY <1>2, <1>4 DEF Create
<1>10. /\ st2.list = l2 /\ st2.chunk = c2
       /\ st2.mFreeList = st.mFreeList /\ st2.mBarrrier = st.mBarrrier
       /\ st2.mBarrrierFreeChunks = st.mBarrrierFreeChunks
       /\ st2.mTotalSize = st.mTotalSize /\ st2.mPtr = st.mPtr
       /\ st2 \in PlanRec
  BY <1>1, <1>6, <1>7, <1>9 DEF PlanRec
<1>11. rec.size = size /\ rec.usage = usage /\ rec.into = 0
  BY <1>2
<1> QED
  BY <1>5, <1>6, <1>7, <1>8, <1>10, <1>11 DEF Created

\* The list after fuse_to_left holds what it held, without the right one.
LEMMA ShapeFused ==
    ASSUME NEW list, NEW chunk, Shape(list, chunk), NEW k \in Nat \ {0}, k + 1 <= Len(list),
           NEW list2 \in Seq(Nat), NEW chunk2 \in Seq(ChunkRec),
           Fused(list, chunk, k, list2, chunk2)
    PROVE  Shape(list2, chunk2) /\ Roots(chunk2) = Roots(chunk) \ {list[k + 1]}
<1>1. PICK n : n = Len(list)
  OBVIOUS
<1>2. n \in Nat /\ DOMAIN list = 1 .. n /\ k \in 1 .. n /\ k + 1 \in 1 .. n /\ k + 1 <= n
  BY <1>1 DEF Shape
<1>3. PICK l, r : l = list[k] /\ r = list[k + 1]
  OBVIOUS
<1>4. /\ DOMAIN list2 = 1 .. n - 1
      /\ \A i \in 1 .. k : list2[i] = list[i]
      /\ \A i \in k + 1 .. n - 1 : list2[i] = list[i + 1]
      /\ DOMAIN chunk2 = DOMAIN chunk
      /\ \A c \in DOMAIN chunk : c \notin {l, r} => chunk2[c] = chunk[c]
      /\ chunk2[l].into = 0 /\ chunk2[r].into = l
  BY <1>1, <1>3 DEF Fused
<1>5. /\ 0 \notin DOMAIN chunk
      /\ \A i, j \in 1 .. n : list[i] = list[j] => i = j
      /\ \A i \in 1 .. n : list[i] \in DOMAIN chunk /\ chunk[list[i]].into = 0
      /\ \A c \in DOMAIN chunk : /\ chunk[c].into \in DOMAIN chunk \union {0}
                                 /\ chunk[c].into = 0 => \E i \in 1 .. n : list[i] = c
  <2>1. /\ 0 \notin DOMAIN chunk /\ IsInjective(list)
        /\ \A c \in DOMAIN chunk : chunk[c].into \in DOMAIN chunk \union {0}
        /\ \A i \in DOMAIN list : list[i] \in DOMAIN chunk /\ chunk[list[i]].into = 0
        /\ \A c \in DOMAIN chunk : chunk[c].into = 0 => \E i \in DOMAIN list : list[i] = c
    BY ChunkFacts
  <2>2. \A i, j \in DOMAIN list : list[i] = list[j] => i = j
    BY <2>1 DEF IsInjective
  <2> QED
    BY <1>2, <2>1, <2>2
<1>6. l # r /\ l \in DOMAIN chunk /\ r \in DOMAIN chunk /\ l # 0
  <2>1. l # r
    <3>1. k # k + 1
      OBVIOUS
    <3> QED
      BY <1>2, <1>3, <1>5, <3>1
  <2> QED
    BY <1>2, <1>3, <1>5, <2>1
<1>7. Roots(chunk2) = Roots(chunk) \ {r}
  <2>1. \A c \in DOMAIN chunk : c \notin {l, r} => chunk2[c].into = chunk[c].into
    BY <1>4
  <2>2. chunk[l].into = 0
    BY <1>2, <1>3, <1>5
  <2>3. \A c \in DOMAIN chunk : chunk2[c].into = 0 <=> (chunk[c].into = 0 /\ c # r)
    BY <1>4, <1>6, <2>1, <2>2
  <2>4. \A c : c \in Roots(chunk2) <=> c \in Roots(chunk) \ {r}
    BY <1>4, <2>3 DEF Roots
  <2> QED
    BY <2>4
<1>8. \A i \in 1 .. n - 1 : \E j \in 1 .. n : /\ list2[i] = list[j] /\ j # k + 1
                                              /\ j = IF i <= k THEN i ELSE i + 1
  BY <1>2, <1>4, SMTT(40)
<1>9. IsInjective(list2)
  <2>1. ASSUME NEW i \in 1 .. n - 1, NEW h \in 1 .. n - 1, list2[i] = list2[h]
        PROVE  i = h
    BY <1>2, <1>5, <1>8, <2>1
  <2> QED
    BY <1>4, <2>1 DEF IsInjective
<1>10. \A c : c \in ToSet(list2) <=> c \in Roots(chunk2)
  <2>1. ASSUME NEW i \in 1 .. n - 1 PROVE list2[i] \in Roots(chunk) \ {r}
    BY <1>2, <1>3, <1>5, <1>8 DEF Roots
  <2>2. ASSUME NEW c \in Roots(chunk) \ {r} PROVE \E i \in 1 .. n - 1 : list2[i] = c
    <3>1. PICK j \in 1 .. n : list[j] = c
      BY <1>5 DEF Roots
    <3>2. j # k + 1
      BY <1>3, <3>1
    <3>3. CASE j <= k
      <4>1. j \in 1 .. n - 1 /\ list2[j] = list[j]
        BY <1>2, <1>4, <3>3
      <4> QED
        BY <3>1, <4>1
    <3>4. CASE j > k + 1
      <4>1. j - 1 \in 1 .. n - 1 /\ j - 1 \in k + 1 .. n - 1 /\ j - 1 + 1 = j
        BY <1>2, <3>4
      <4>2. list2[j - 1] = list[j]
        BY <1>4, <4>1
      <4> QED
        BY <3>1, <4>1, <4>2
    <3> QED
      BY <1>2, <3>2, <3>3, <3>4
  <2> QED
    <3>1. ToSet(list2) = {list2[i] : i \in 1 .. n - 1}
      BY <1>4 DEF ToSet
    <3> QED
      BY <1>7, <2>1, <2>2, <3>1
<1>11. \A c \in DOMAIN chunk2 : chunk2[c].into \in DOMAIN chunk2 \union {0}
  BY <1>4, <1>5, <1>6, ZenonT(60)
<1> QED
  BY <1>3, <1>7, <1>9, <1>10, <1>11 DEF Shape

\* The members of the plan after fuse_to_left.
LEMMA FuseFacts ==
    ASSUME NEW st \in PlanRec, Shape(st.list, st.chunk), NEW k \in Nat \ {0},
           k + 1 <= Len(st.list), NEW l, l = st.list[k], NEW r, r = st.list[k + 1],
           NEW st2, st2 = FuseToLeft(st, l, r)
    PROVE  /\ st2 \in PlanRec /\ Fused(st.list, st.chunk, k, st2.list, st2.chunk)
           /\ Shape(st2.list, st2.chunk)
           /\ \A d \in DOMAIN st.chunk : st2.chunk[d].usage = st.chunk[d].usage
           /\ st2.mFreeList = st.mFreeList \ {l, r} /\ st2.mBarrrier = st.mBarrrier
           /\ st2.mBarrrierFreeChunks = st.mBarrrierFreeChunks
           /\ st2.mTotalSize = st.mTotalSize /\ st2.mPtr = st.mPtr
<1>1. /\ st.list \in Seq(Nat) /\ st.chunk \in Seq(ChunkRec) /\ st.mFreeList \in SUBSET Nat
      /\ st.mBarrrier \in BOOLEAN /\ st.mBarrrierFreeChunks \in Seq(Nat)
      /\ st.mTotalSize \in Nat /\ st.mPtr \in Address \union {NULL}
  BY DEF PlanRec
<1>2. /\ Len(st.list) \in Nat /\ DOMAIN st.list = 1 .. Len(st.list)
      /\ k \in DOMAIN st.list /\ k + 1 \in DOMAIN st.list
  BY <1>1
<1>3. /\ l \in DOMAIN st.chunk /\ r \in DOMAIN st.chunk /\ l # r
      /\ st.chunk[l].into = 0 /\ st.chunk[r].into = 0 /\ l \in Nat \ {0}
  <2>1. PICK ch, li : ch = st.chunk /\ li = st.list
    OBVIOUS
  <2>2. Shape(li, ch)
    BY <2>1
  <2>3. /\ 0 \notin DOMAIN ch /\ IsInjective(li)
        /\ \A i \in DOMAIN li : li[i] \in DOMAIN ch /\ ch[li[i]].into = 0
    BY <2>2, ChunkFacts
  <2>4. DOMAIN ch \subseteq Nat
    BY <1>1, <2>1
  <2>5. k # k + 1
    OBVIOUS
  <2>6. l # r
    BY <1>2, <2>1, <2>3, <2>5 DEF IsInjective
  <2> QED
    BY <1>2, <2>1, <2>3, <2>4, <2>6
<1>4. PosOf(st, r) = k + 1
  BY <1>2, PosOfFacts
<1>5. PICK l2, c2 : /\ l2 = RemoveAt(st.list, k + 1)
                    /\ c2 = [st.chunk EXCEPT
                                ![l] = [st.chunk[l] EXCEPT !.size = st.chunk[l].size + st.chunk[r].size],
                                ![r] = [st.chunk[r] EXCEPT !.offset = st.chunk[l].size, !.into = l]]
  OBVIOUS
<1>6. st2 = [st EXCEPT !.chunk = c2, !.list = l2, !.mFreeList = st.mFreeList \ {l, r}]
  BY <1>4, <1>5 DEF FuseToLeft, FuseAt
<1>7. /\ l2 \in Seq(Nat) /\ Len(l2) = Len(st.list) - 1
      /\ \A h \in 1 .. k : l2[h] = st.list[h]
      /\ \A h \in k + 1 .. Len(st.list) - 1 : l2[h] = st.list[h + 1]
  <2>1. PICK S : S = Nat
    OBVIOUS
  <2>2. st.list \in Seq(S) /\ k + 1 \in 1 .. Len(st.list) /\ k + 1 - 1 = k
    BY <1>1, <1>2, <2>1
  <2>3. Removed(S, st.list, k + 1, RemoveAt(st.list, k + 1))
    BY <2>2, RemoveFacts
  <2> QED
    BY <1>5, <2>1, <2>2, <2>3, SMTT(40) DEF Removed
<1>8. DOMAIN l2 = 1 .. Len(st.list) - 1
  BY <1>7, SMTT(40)
<1>9. /\ DOMAIN c2 = DOMAIN st.chunk
      /\ \A d \in DOMAIN st.chunk : d \notin {l, r} => c2[d] = st.chunk[d]
      /\ c2[l] = [st.chunk[l] EXCEPT !.size = st.chunk[l].size + st.chunk[r].size]
      /\ c2[r] = [st.chunk[r] EXCEPT !.offset = st.chunk[l].size, !.into = l]
  BY <1>3, <1>5
<1>10. st.chunk[l] \in ChunkRec /\ st.chunk[r] \in ChunkRec
  BY <1>1, <1>3
<1>11. /\ c2[l].size = st.chunk[l].size + st.chunk[r].size /\ c2[l].into = 0
       /\ c2[l].usage = st.chunk[l].usage /\ c2[l] \in ChunkRec
       /\ c2[r].into = l /\ c2[r].offset = st.chunk[l].size
       /\ c2[r].usage = st.chunk[r].usage /\ c2[r] \in ChunkRec
  <2>1. PICK u, v : u = st.chunk[l] /\ v = st.chunk[r]
    OBVIOUS
  <2>2. /\ u.size \in Nat \ {0} /\ v.size \in Nat \ {0} /\ u.into = 0
        /\ u \in ChunkRec /\ v \in ChunkRec
    BY <1>3, <1>10, <2>1 DEF ChunkRec
  <2>3. u.size + v.size \in Nat \ {0}
    BY <2>2
  <2>4. c2[l] = [u EXCEPT !.size = u.size + v.size]
    BY <1>9, <2>1
  <2>5. c2[r] = [v EXCEPT !.offset = u.size, !.into = l]
    BY <1>9, <2>1
  <2>6. /\ c2[l].size = u.size + v.size /\ c2[l].into = 0
        /\ c2[l].usage = u.usage /\ c2[l] \in ChunkRec
    BY <2>2, <2>3, <2>4 DEF ChunkRec
  <2>7. /\ c2[r].into = l /\ c2[r].offset = u.size
        /\ c2[r].usage = v.usage /\ c2[r] \in ChunkRec
    BY <1>3, <2>2, <2>5 DEF ChunkRec
  <2> QED
    BY <2>1, <2>6, <2>7
<1>12. c2 \in Seq(ChunkRec)
  <2>1. \A d \in DOMAIN st.chunk : c2[d] \in ChunkRec
    <3>1. \A d \in DOMAIN st.chunk : st.chunk[d] \in ChunkRec
      BY <1>1, SMTT(40)
    <3> QED
      BY <1>9, <1>11, <3>1, SMTT(40)
  <2>2. DOMAIN st.chunk = 1 .. Len(st.chunk) /\ Len(st.chunk) \in Nat
    BY <1>1, SMTT(40)
  <2>3. c2 = [d \in DOMAIN st.chunk |-> c2[d]]
    BY <1>5, <1>9
  <2>4. c2 \in [1 .. Len(st.chunk) -> ChunkRec]
    BY <1>9, <2>1, <2>2, <2>3
  <2> QED
    BY <2>2, <2>4
<1>13. /\ st2.list = l2 /\ st2.chunk = c2
       /\ st2.mFreeList = st.mFreeList \ {l, r} /\ st2.mBarrrier = st.mBarrrier
       /\ st2.mBarrrierFreeChunks = st.mBarrrierFreeChunks
       /\ st2.mTotalSize = st.mTotalSize /\ st2.mPtr = st.mPtr
       /\ st2 \in PlanRec
  BY <1>1, <1>6, <1>7, <1>12, ZenonT(60) DEF PlanRec
<1>14. Fused(st.list, st.chunk, k, l2, c2)
  BY <1>7, <1>8, <1>9, <1>11 DEF Fused
<1>15. \A d \in DOMAIN st.chunk : c2[d].usage = st.chunk[d].usage
  BY <1>9, <1>11
<1>16. Shape(l2, c2)
  <2>1. PICK li, ch : li = st.list /\ ch = st.chunk
    OBVIOUS
  <2>2. Shape(li, ch) /\ k + 1 <= Len(li) /\ Fused(li, ch, k, l2, c2)
    BY <1>14, <2>1
  <2>3. l2 \in Seq(Nat) /\ c2 \in Seq(ChunkRec)
    BY <1>7, <1>12
  <2> QED
    BY <2>2, <2>3, ShapeFused
<1> QED
  BY <1>13, <1>14, <1>15, <1>16

\* What holds while free works: all of the invariant but what it says of chunk n,
\* which is being freed or has just taken in a neighbour.
Mid(st, lv, tg, n) ==
    /\ st \in PlanRec /\ Shape(st.list, st.chunk) /\ LaidOut(st.list, st.chunk, tg)
    /\ st.mTotalSize = 0 /\ n \in Roots(st.chunk)
    /\ \A d \in Roots(st.chunk) : d # n => (d \in st.mFreeList <=> ~st.chunk[d].usage)
    /\ st.mFreeList \subseteq Roots(st.chunk)
    /\ \A i, j \in DOMAIN st.list : j = i + 1 =>
           \/ st.list[i] = n \/ st.list[j] = n
           \/ st.chunk[st.list[i]].usage \/ st.chunk[st.list[j]].usage
    /\ \A x \in lv : /\ x[1] \in Roots(st.chunk) /\ x[1] # n /\ st.chunk[x[1]].usage
                     /\ x[2] = st.chunk[x[1]].size /\ x \in UNION tg
    /\ \A d \in Roots(st.chunk) : st.chunk[d].usage /\ d # n => \E x \in lv : x[1] = d
    /\ NotedLive(st, lv)

\* The requests that are left when chunk c is freed.
Without(lv, c) == {x \in lv : x[1] # c}

\* free starts with the chunk itself.
LEMMA MidStart ==
    ASSUME NEW st, NEW lv, NEW tg, PlanInv(st, lv, tg), st.mTotalSize = 0,
           NEW y \in lv, NEW c, c = y[1],
           \A i \in DOMAIN st.mBarrrierFreeChunks : st.mBarrrierFreeChunks[i] # c
    PROVE  Mid(st, Without(lv, c), tg, c)
<1> USE DEF Without
<1> DEFINE lv2 == {x \in lv : x[1] # c}
<1>1. /\ st \in PlanRec /\ Shape(st.list, st.chunk) /\ LaidOut(st.list, st.chunk, tg)
      /\ FreeListed(st) /\ LiveUsed(st, lv, tg) /\ NotedLive(st, lv)
  BY DEF PlanInv
<1>2. c \in Roots(st.chunk)
  BY <1>1 DEF LiveUsed
<1>3. /\ \A d \in Roots(st.chunk) : d \in st.mFreeList <=> ~st.chunk[d].usage
      /\ st.mFreeList \subseteq Roots(st.chunk)
      /\ \A i, j \in DOMAIN st.list : j = i + 1 =>
             st.chunk[st.list[i]].usage \/ st.chunk[st.list[j]].usage
  BY <1>1 DEF FreeListed
<1>4. \A x \in lv2 : /\ x[1] \in Roots(st.chunk) /\ x[1] # c /\ st.chunk[x[1]].usage
                     /\ x[2] = st.chunk[x[1]].size /\ x \in UNION tg
  BY <1>1 DEF LiveUsed
<1>5. \A d \in Roots(st.chunk) : st.chunk[d].usage /\ d # c => \E x \in lv2 : x[1] = d
  BY <1>1 DEF LiveUsed
<1>6. NotedLive(st, lv2)
  BY <1>1 DEF NotedLive
<1> HIDE DEF lv2
<1>7. Mid(st, lv2, tg, c)
  BY <1>1, <1>2, <1>3, <1>4, <1>5, <1>6, SMTT(40) DEF Mid
<1> QED
  BY <1>7 DEF lv2

\* Of the neighbours l and r one is n and the other one is free.
FreeBeside(st, n, l, r) == (l = n /\ ~st.chunk[r].usage) \/ (r = n /\ ~st.chunk[l].usage)

\* The list lost its member k + 1, and no chunk changed its usage.
Shrunk(st, k, st2) ==
    /\ Len(st2.list) = Len(st.list) - 1 /\ DOMAIN st2.list = 1 .. Len(st.list) - 1
    /\ \A h \in 1 .. k : st2.list[h] = st.list[h]
    /\ \A h \in k + 1 .. Len(st.list) - 1 : st2.list[h] = st.list[h + 1]
    /\ \A d \in DOMAIN st.chunk : st2.chunk[d].usage = st.chunk[d].usage

\* It may fuse the chunk with a free neighbour.
LEMMA MidFused ==
    ASSUME NEW st, NEW lv, NEW tg, NEW n, Mid(st, lv, tg, n), NEW k \in Nat \ {0},
           k + 1 <= Len(st.list), NEW l, l = st.list[k], NEW r, r = st.list[k + 1],
           FreeBeside(st, n, l, r), NEW st2, st2 = FuseToLeft(st, l, r)
    PROVE  Mid(st2, lv, tg, l) /\ Shrunk(st, k, st2)
<1>1. /\ st \in PlanRec /\ Shape(st.list, st.chunk) /\ LaidOut(st.list, st.chunk, tg)
      /\ st.mTotalSize = 0 /\ n \in Roots(st.chunk)
  BY DEF Mid
<1>2. /\ st2 \in PlanRec /\ Fused(st.list, st.chunk, k, st2.list, st2.chunk)
      /\ Shape(st2.list, st2.chunk)
      /\ \A d \in DOMAIN st.chunk : st2.chunk[d].usage = st.chunk[d].usage
      /\ st2.mFreeList = st.mFreeList \ {l, r} /\ st2.mBarrrier = st.mBarrrier
      /\ st2.mBarrrierFreeChunks = st.mBarrrierFreeChunks
      /\ st2.mTotalSize = st.mTotalSize
  BY <1>1, FuseFacts
<1>3. LaidOut(st2.list, st2.chunk, tg)
  <2>1. PICK li, ch, l2, c2 : li = st.list /\ ch = st.chunk /\ l2 = st2.list /\ c2 = st2.chunk
    OBVIOUS
  <2>2. /\ Shape(li, ch) /\ LaidOut(li, ch, tg) /\ k + 1 <= Len(li)
        /\ Fused(li, ch, k, l2, c2)
    BY <1>1, <1>2, <2>1
  <2>3. LaidOut(l2, c2, tg)
    BY <2>2, LayoutFused
  <2> QED
    BY <2>1, <2>3
<1>4. Roots(st2.chunk) = Roots(st.chunk) \ {r}
  <2>1. PICK li, ch, l2, c2 : li = st.list /\ ch = st.chunk /\ l2 = st2.list /\ c2 = st2.chunk
    OBVIOUS
  <2>2. /\ Shape(li, ch) /\ k + 1 <= Len(li) /\ Fused(li, ch, k, l2, c2)
        /\ l2 \in Seq(Nat) /\ c2 \in Seq(ChunkRec)
    BY <1>1, <1>2, <2>1, SMTT(40) DEF PlanRec
  <2>3. Roots(c2) = Roots(ch) \ {li[k + 1]}
    BY <2>2, ShapeFused, SMTT(40)
  <2> QED
    BY <2>1, <2>3
<1>5. /\ Len(st2.list) = Len(st.list) - 1 /\ DOMAIN st2.list = 1 .. Len(st.list) - 1
      /\ \A h \in 1 .. k : st2.list[h] = st.list[h]
      /\ \A h \in k + 1 .. Len(st.list) - 1 : st2.list[h] = st.list[h + 1]
      /\ DOMAIN st2.chunk = DOMAIN st.chunk
      /\ \A c \in DOMAIN st.chunk : c \notin {l, r} => st2.chunk[c] = st.chunk[c]
  BY <1>2 DEF Fused
<1>6. PICK m : m = Len(st.list)
  OBVIOUS
<1>7. m \in Nat /\ DOMAIN st.list = 1 .. m /\ k + 1 <= m /\ k \in 1 .. m /\ k + 1 \in 1 .. m
  BY <1>1, <1>6 DEF Shape
<1>8. /\ l \in Roots(st.chunk) /\ r \in Roots(st.chunk) /\ l # r
      /\ \A i \in 1 .. m : st.list[i] \in DOMAIN st.chunk
      /\ \A i, j \in 1 .. m : st.list[i] = st.list[j] => i = j
  <2>1. /\ IsInjective(st.list)
        /\ \A i \in DOMAIN st.list : st.list[i] \in DOMAIN st.chunk /\ st.chunk[st.list[i]].into = 0
    BY <1>1, ChunkFacts
  <2>2. \A i, j \in 1 .. m : st.list[i] = st.list[j] => i = j
    BY <1>7, <2>1 DEF IsInjective
  <2>3. k # k + 1
    OBVIOUS
  <2> QED
    BY <1>7, <2>1, <2>2, <2>3 DEF Roots
<1>9. \A d \in Roots(st2.chunk) : d # l => (d \in st2.mFreeList <=> ~st2.chunk[d].usage)
  <2>1. \A d \in Roots(st.chunk) : d # n => (d \in st.mFreeList <=> ~st.chunk[d].usage)
    BY DEF Mid
  <2>2. n = l \/ n = r
    BY Zenon DEF FreeBeside
  <2> QED
    BY <1>2, <1>4, <2>1, <2>2 DEF Roots
<1>10. st2.mFreeList \subseteq Roots(st2.chunk)
  BY <1>2, <1>4 DEF Mid
<1>11. \A i, j \in DOMAIN st2.list : j = i + 1 =>
           \/ st2.list[i] = l \/ st2.list[j] = l
           \/ st2.chunk[st2.list[i]].usage \/ st2.chunk[st2.list[j]].usage
  <2> TAKE i, j \in DOMAIN st2.list
  <2> HAVE j = i + 1
  <2> SUFFICES ASSUME st2.list[i] # l, st2.list[j] # l
               PROVE  st2.chunk[st2.list[i]].usage \/ st2.chunk[st2.list[j]].usage
    BY Zenon
  <2>0. i \in 1 .. m - 1 /\ j \in 1 .. m - 1
    BY <1>5, <1>6
  <2>1. \A h \in 1 .. m - 1 : \E g \in 1 .. m : /\ st2.list[h] = st.list[g]
                                                /\ g = IF h <= k THEN h ELSE h + 1
    BY <1>5, <1>6, <1>7, SMTT(40)
  <2>2. i # k /\ j # k
    BY <1>5, <1>7, <2>0
  <2>3. PICK g \in 1 .. m : st2.list[i] = st.list[g] /\ g = IF i <= k THEN i ELSE i + 1
    BY <2>0, <2>1
  <2>4. PICK h \in 1 .. m : st2.list[j] = st.list[h] /\ h = IF j <= k THEN j ELSE j + 1
    BY <2>0, <2>1
  <2>5. h = g + 1 /\ g \notin {k, k + 1} /\ h \notin {k, k + 1}
    BY <2>0, <2>2, <2>3, <2>4
  <2>6. st.list[g] # n /\ st.list[h] # n
    <3>1. n = l \/ n = r
      BY Zenon DEF FreeBeside
    <3> QED
      BY <1>7, <1>8, <2>5, <3>1
  <2>7. st.chunk[st.list[g]].usage \/ st.chunk[st.list[h]].usage
    BY <1>7, <2>5, <2>6, ZenonT(60) DEF Mid
  <2>8. /\ st2.chunk[st.list[g]].usage = st.chunk[st.list[g]].usage
        /\ st2.chunk[st.list[h]].usage = st.chunk[st.list[h]].usage
    BY <1>2, <1>8
  <2> QED
    BY <2>3, <2>4, <2>7, <2>8, Zenon
<1>12. \A x \in lv : /\ x[1] \in Roots(st2.chunk) /\ x[1] # l /\ st2.chunk[x[1]].usage
                     /\ x[2] = st2.chunk[x[1]].size /\ x \in UNION tg
  <2>1. \A x \in lv : /\ x[1] \in Roots(st.chunk) /\ x[1] # n /\ st.chunk[x[1]].usage
                      /\ x[2] = st.chunk[x[1]].size /\ x \in UNION tg
    BY DEF Mid
  <2>2. \A x \in lv : x[1] # l /\ x[1] # r
    BY <2>1, Zenon DEF FreeBeside
  <2>3. \A x \in lv : x[1] \in Roots(st2.chunk)
    BY <1>4, <2>1, <2>2
  <2>4. \A x \in lv : st2.chunk[x[1]] = st.chunk[x[1]]
    BY <1>5, <2>1, <2>2 DEF Roots
  <2> QED
    BY <2>1, <2>2, <2>3, <2>4, Zenon
<1>13. \A d \in Roots(st2.chunk) : st2.chunk[d].usage /\ d # l => \E x \in lv : x[1] = d
  <2>1. \A d \in Roots(st.chunk) : st.chunk[d].usage /\ d # n => \E x \in lv : x[1] = d
    BY DEF Mid
  <2>2. n = l \/ n = r
    BY Zenon DEF FreeBeside
  <2> QED
    BY <1>2, <1>4, <2>1, <2>2 DEF Roots
<1>14. NotedLive(st2, lv)
  BY <1>2, SMTT(40) DEF Mid, NotedLive
<1>15. l \in Roots(st2.chunk)
  BY <1>4, <1>8, SMTT(40)
<1>16. Shrunk(st, k, st2)
  BY <1>2, <1>5 DEF Shrunk
<1> QED
  BY <1>1, <1>2, <1>3, <1>9, <1>10, <1>11, <1>12, <1>13, <1>14, <1>15, <1>16 DEF Mid

\* It ends with the chunk in the free list.
LEMMA MidEnd ==
    ASSUME NEW st, NEW lv, NEW tg, NEW n, Mid(st, lv, tg, n),
           NEW k \in DOMAIN st.list, st.list[k] = n,
           k - 1 \in DOMAIN st.list => st.chunk[st.list[k - 1]].usage,
           k + 1 \in DOMAIN st.list => st.chunk[st.list[k + 1]].usage,
           NEW st2, st2 = [st EXCEPT !.chunk[n].usage = FALSE, !.mFreeList = @ \union {n}]
    PROVE  PlanInv(st2, lv, tg)
<1>1. /\ st \in PlanRec /\ Shape(st.list, st.chunk) /\ LaidOut(st.list, st.chunk, tg)
      /\ st.mTotalSize = 0 /\ n \in Roots(st.chunk) /\ NotedLive(st, lv)
  BY DEF Mid
<1>2. /\ st.list \in Seq(Nat) /\ st.chunk \in Seq(ChunkRec) /\ st.mFreeList \in SUBSET Nat
      /\ st.mBarrrier \in BOOLEAN /\ st.mBarrrierFreeChunks \in Seq(Nat)
      /\ st.mTotalSize \in Nat /\ st.mPtr \in Address \union {NULL}
  BY <1>1 DEF PlanRec
<1>3. /\ n \in DOMAIN st.chunk /\ st.chunk[n].into = 0 /\ n \in Nat
      /\ \A d \in DOMAIN st.chunk : st.chunk[d] \in ChunkRec
  BY <1>1, <1>2 DEF Roots
<1>4. PICK c2 : c2 = [st.chunk EXCEPT ![n] = [st.chunk[n] EXCEPT !.usage = FALSE]]
  OBVIOUS
<1>5. st2 = [st EXCEPT !.chunk = c2, !.mFreeList = st.mFreeList \union {n}]
  BY <1>4
<1>6. /\ DOMAIN c2 = DOMAIN st.chunk
      /\ \A d \in DOMAIN st.chunk : d # n => c2[d] = st.chunk[d]
      /\ c2[n] = [st.chunk[n] EXCEPT !.usage = FALSE]
  BY <1>3, <1>4
<1>7. /\ c2[n] \in ChunkRec /\ c2[n].into = 0 /\ ~c2[n].usage
      /\ c2[n].size = st.chunk[n].size /\ c2[n].offset = st.chunk[n].offset
  <2>1. PICK u : u = st.chunk[n]
    OBVIOUS
  <2>2. u \in ChunkRec /\ c2[n] = [u EXCEPT !.usage = FALSE] /\ u.into = 0
    BY <1>3, <1>6, <2>1
  <2>3. /\ c2[n] \in ChunkRec /\ c2[n].into = 0 /\ c2[n].usage = FALSE
        /\ c2[n].size = u.size /\ c2[n].offset = u.offset
    BY <2>2 DEF ChunkRec
  <2> QED
    BY <2>1, <2>3
<1>8. c2 \in Seq(ChunkRec)
  <2>1. \A d \in DOMAIN st.chunk : c2[d] \in ChunkRec
    BY <1>3, <1>6, <1>7
  <2>2. DOMAIN st.chunk = 1 .. Len(st.chunk) /\ Len(st.chunk) \in Nat
    BY <1>2
  <2>3. c2 = [d \in DOMAIN st.chunk |-> c2[d]]
    BY <1>4, <1>6
  <2>4. c2 \in [1 .. Len(st.chunk) -> ChunkRec]
    BY <1>6, <2>1, <2>2, <2>3
  <2> QED
    BY <2>2, <2>4
<1>9. /\ st2 \in PlanRec /\ st2.list = st.list /\ st2.chunk = c2
      /\ st2.mFreeList = st.mFreeList \union {n}
      /\ st2.mBarrrierFreeChunks = st.mBarrrierFreeChunks /\ st2.mTotalSize = 0
  <2>1. st.mFreeList \union {n} \in SUBSET Nat
    BY <1>2, <1>3
  <2>2. PICK fl : fl = st.mFreeList \union {n}
    OBVIOUS
  <2>3. /\ st2 = [st EXCEPT !.chunk = c2, !.mFreeList = fl]
        /\ st2.list = st.list /\ st2.chunk = c2 /\ st2.mFreeList = fl
        /\ st2.mBarrrierFreeChunks = st.mBarrrierFreeChunks /\ st2.mTotalSize = st.mTotalSize
    BY <1>1, <1>5, <2>2 DEF PlanRec
  <2>4. st2 \in PlanRec
    BY <1>1, <1>8, <2>1, <2>2, <2>3 DEF PlanRec
  <2> QED
    BY <1>1, <2>2, <2>3, <2>4
<1>10. /\ Roots(c2) = Roots(st.chunk)
       /\ \A d \in DOMAIN st.chunk : /\ c2[d].into = st.chunk[d].into
                                     /\ c2[d].offset = st.chunk[d].offset
                                     /\ c2[d].size = st.chunk[d].size
  <2>1. \A d \in DOMAIN st.chunk : /\ c2[d].into = st.chunk[d].into
                                   /\ c2[d].offset = st.chunk[d].offset
                                   /\ c2[d].size = st.chunk[d].size
    BY <1>3, <1>6, <1>7
  <2>2. \A d : d \in Roots(c2) <=> d \in Roots(st.chunk)
    BY <1>6, <2>1 DEF Roots
  <2> QED
    BY <2>1, <2>2
<1>11. Shape(st2.list, st2.chunk)
  BY <1>1, <1>6, <1>8, <1>9, <1>10 DEF Shape
<1>12. LaidOut(st2.list, st2.chunk, tg)
  <2>1. PICK li, ch, e : li = st.list /\ ch = st.chunk /\ e = 0
    OBVIOUS
  <2>2. /\ Shape(li, ch) /\ LaidOut(li, ch, tg) /\ n \in Roots(ch) /\ e \in Nat
        /\ DOMAIN c2 = DOMAIN ch
    BY <1>1, <1>6, <2>1
  <2>3. \A d \in DOMAIN ch : ch[d].size \in Nat
    BY <1>3, <2>1 DEF ChunkRec
  <2>4. \A d \in DOMAIN ch :
            /\ c2[d].into = ch[d].into /\ c2[d].offset = ch[d].offset
            /\ c2[d].size = IF d = n THEN ch[d].size + e ELSE ch[d].size
    BY <1>10, <2>1, <2>3
  <2>5. LaidOut(li, c2, tg)
    BY <2>2, <2>4, LayoutGrown
  <2> QED
    BY <1>9, <2>1, <2>5
<1>13. FreeListed(st2)
  <2>1. \A d : d \in st2.mFreeList <=> d \in {c \in Roots(st2.chunk) : ~st2.chunk[c].usage}
    <3> TAKE d
    <3>1. CASE d = n
      BY <1>1, <1>7, <1>9, <1>10, <3>1, Zenon
    <3>2. CASE d # n /\ d \in Roots(st.chunk)
      <4>1. c2[d] = st.chunk[d]
        BY <1>6, <3>2 DEF Roots
      <4>2. d \in st.mFreeList <=> ~st.chunk[d].usage
        BY <3>2, Zenon DEF Mid
      <4> QED
        BY <1>9, <1>10, <3>2, <4>1, <4>2, Zenon
    <3>3. CASE d # n /\ d \notin Roots(st.chunk)
      <4>1. d \notin st.mFreeList
        BY <3>3, Zenon DEF Mid
      <4> QED
        BY <1>9, <1>10, <3>3, <4>1, Zenon
    <3> QED
      BY <3>1, <3>2, <3>3
  <2>2. \A i, j \in DOMAIN st2.list : j = i + 1 =>
            st2.chunk[st2.list[i]].usage \/ st2.chunk[st2.list[j]].usage
    <3> TAKE i, j \in DOMAIN st2.list
    <3> HAVE j = i + 1
    <3>1. /\ i \in DOMAIN st.list /\ j \in DOMAIN st.list /\ i \in Int /\ k \in Int
          /\ st.list[i] \in DOMAIN st.chunk /\ st.list[j] \in DOMAIN st.chunk
          /\ \A g, h \in DOMAIN st.list : st.list[g] = st.list[h] => g = h
      <4>1. DOMAIN st.list \subseteq Int
        BY <1>2
      <4>2. /\ IsInjective(st.list)
            /\ \A g \in DOMAIN st.list : st.list[g] \in DOMAIN st.chunk
        BY <1>1, ChunkFacts
      <4> QED
        BY <1>9, <4>1, <4>2 DEF IsInjective
    <3>2. CASE st.list[i] = n
      <4>1. i = k /\ k + 1 = j
        BY <3>1, <3>2
      <4>2. st.list[j] # n /\ k + 1 \in DOMAIN st.list /\ st.list[k + 1] = st.list[j]
        BY <3>1, <4>1
      <4>3. st.chunk[st.list[k + 1]].usage
        BY <4>2
      <4>4. c2[st.list[j]] = st.chunk[st.list[j]]
        BY <1>6, <3>1, <4>2
      <4> QED
        BY <1>9, <4>2, <4>3, <4>4, Zenon
    <3>3. CASE st.list[j] = n
      <4>1. j = k /\ k - 1 = i
        BY <3>1, <3>3
      <4>2. st.list[i] # n /\ k - 1 \in DOMAIN st.list /\ st.list[k - 1] = st.list[i]
        BY <3>1, <4>1
      <4>3. st.chunk[st.list[k - 1]].usage
        BY <4>2
      <4>4. c2[st.list[i]] = st.chunk[st.list[i]]
        BY <1>6, <3>1, <4>2
      <4> QED
        BY <1>9, <4>2, <4>3, <4>4, Zenon
    <3>4. CASE st.list[i] # n /\ st.list[j] # n
      <4>1. st.chunk[st.list[i]].usage \/ st.chunk[st.list[j]].usage
        BY <3>1, <3>4, Zenon DEF Mid
      <4>2. c2[st.list[i]] = st.chunk[st.list[i]] /\ c2[st.list[j]] = st.chunk[st.list[j]]
        BY <1>6, <3>1, <3>4
      <4> QED
        BY <1>9, <4>1, <4>2, Zenon
    <3> QED
      BY <3>2, <3>3, <3>4, Zenon
  <2>3. st2.mFreeList = {c \in Roots(st2.chunk) : ~st2.chunk[c].usage}
    BY <2>1
  <2> QED
    BY <2>2, <2>3, Zenon DEF FreeListed
<1>14. LiveUsed(st2, lv, tg)
  <2>1. ASSUME NEW x \in lv
        PROVE  /\ x[1] \in Roots(st2.chunk) /\ st2.chunk[x[1]].usage
               /\ x[2] = st2.chunk[x[1]].size /\ x \in UNION tg
    <3>1. /\ x[1] \in Roots(st.chunk) /\ x[1] # n /\ st.chunk[x[1]].usage
          /\ x[2] = st.chunk[x[1]].size /\ x \in UNION tg
      BY Zenon DEF Mid
    <3>2. c2[x[1]] = st.chunk[x[1]]
      BY <1>6, <3>1 DEF Roots
    <3> QED
      BY <1>9, <1>10, <3>1, <3>2, Zenon
  <2>2. ASSUME NEW d \in Roots(st2.chunk), st2.chunk[d].usage PROVE \E x \in lv : x[1] = d
    <3>1. d \in Roots(st.chunk) /\ d # n
      BY <1>7, <1>9, <1>10, <2>2, Zenon
    <3>2. c2[d] = st.chunk[d]
      BY <1>6, <3>1 DEF Roots
    <3>3. st.chunk[d].usage
      BY <1>9, <2>2, <3>2, Zenon
    <3> QED
      BY <3>1, <3>3, Zenon DEF Mid
  <2> QED
    BY <2>1, <2>2, Zenon DEF LiveUsed
<1>15. NotedLive(st2, lv)
  BY <1>1, <1>9 DEF NotedLive
<1> QED
  BY <1>9, <1>11, <1>12, <1>13, <1>14, <1>15 DEF PlanInv

\* free keeps the invariant.
LEMMA PlanFree ==
    ASSUME NEW st, NEW lv, NEW tg, PlanInv(st, lv, tg), st.mTotalSize = 0,
           NEW y \in lv, NEW c, c = y[1],
           \A i \in DOMAIN st.mBarrrierFreeChunks : st.mBarrrierFreeChunks[i] # c,
           NEW st2, st2 = FreeNow(st, c)
    PROVE  PlanInv(st2, Without(lv, c), tg)
<1>1. PICK lv2 : lv2 = Without(lv, c)
  OBVIOUS
<1>2. Mid(st, lv2, tg, c)
  BY <1>1, MidStart
<1>3. /\ Shape(st.list, st.chunk) /\ st.list \in Seq(Nat)
      /\ \A i, j \in DOMAIN st.list : j = i + 1 =>
             st.chunk[st.list[i]].usage \/ st.chunk[st.list[j]].usage
  BY Zenon DEF PlanInv, FreeListed, Shape
<1>4. PICK i \in DOMAIN st.list : st.list[i] = c
  BY <1>2, <1>3, ChunkFacts DEF Mid, Roots
<1>5. PosOf(st, c) = i
  BY <1>3, <1>4, PosOfFacts
<1>6. PICK m : m = Len(st.list)
  OBVIOUS
<1>7. m \in Nat /\ DOMAIN st.list = 1 .. m /\ i \in 1 .. m /\ i \in Nat \ {0}
  BY <1>3, <1>4, <1>6
<1> DEFINE Lf == i - 1 \in DOMAIN st.list /\ ~st.chunk[st.list[i - 1]].usage
           Rf == i + 1 \in DOMAIN st.list /\ ~st.chunk[st.list[i + 1]].usage
<1>8. PICK n, s1, s2 : /\ n = IF Lf THEN st.list[i - 1] ELSE c
                       /\ s1 = IF Lf THEN FuseToLeft(st, n, c) ELSE st
                       /\ s2 = IF Rf THEN FuseToLeft(s1, n, st.list[i + 1]) ELSE s1
  OBVIOUS
<1>9. st2 = [s2 EXCEPT !.chunk[n].usage = FALSE, !.mFreeList = @ \union {n}]
  <2>1. i + -1 = i - 1
    BY <1>7
  <2> QED
    BY <1>5, <1>8, <2>1, ZenonT(60) DEF FreeNow, FreeFusing
<1> HIDE DEF Lf, Rf
<1>10. PICK k : k = IF Lf THEN i - 1 ELSE i
  OBVIOUS
<1>11. /\ Mid(s1, lv2, tg, n) /\ k \in Nat \ {0} /\ k \in DOMAIN s1.list /\ s1.list[k] = n
       /\ Len(s1.list) \in Nat /\ DOMAIN s1.list = 1 .. Len(s1.list)
       /\ m - i = Len(s1.list) - k
       /\ \A d \in DOMAIN st.chunk : s1.chunk[d].usage = st.chunk[d].usage
       /\ \A h \in 1 .. k : s1.list[h] = st.list[h]
       /\ \A h \in k + 1 .. Len(s1.list) : s1.list[h] = st.list[i + (h - k)]
  <2>1. CASE Lf
    <3>1. k = i - 1 /\ n = st.list[k] /\ s1 = FuseToLeft(st, n, c) /\ ~st.chunk[n].usage
      BY <1>8, <1>10, <2>1, Zenon DEF Lf
    <3>2. k \in Nat \ {0} /\ k + 1 = i /\ k + 1 <= m /\ c = st.list[k + 1]
      BY <1>4, <1>7, <2>1, <3>1 DEF Lf
    <3>3. FreeBeside(st, c, n, c)
      BY <3>1, Zenon DEF FreeBeside
    <3>4. /\ Mid(s1, lv2, tg, n)
          /\ Len(s1.list) = Len(st.list) - 1 /\ DOMAIN s1.list = 1 .. Len(st.list) - 1
          /\ \A h \in 1 .. k : s1.list[h] = st.list[h]
          /\ \A h \in k + 1 .. Len(st.list) - 1 : s1.list[h] = st.list[h + 1]
          /\ \A d \in DOMAIN st.chunk : s1.chunk[d].usage = st.chunk[d].usage
      <4>1. Mid(s1, lv2, tg, n) /\ Shrunk(st, k, s1)
        BY <1>2, <1>6, <3>1, <3>2, <3>3, MidFused
      <4> QED
        BY <4>1 DEF Shrunk
    <3>5. /\ Len(s1.list) = m - 1 /\ m - 1 \in Nat /\ DOMAIN s1.list = 1 .. m - 1
          /\ k \in 1 .. m - 1 /\ m - i = m - 1 - k
      BY <1>6, <1>7, <3>2, <3>4
    <3>6. \A h \in k + 1 .. m - 1 : i + (h - k) = h + 1
      BY <1>7, <3>2
    <3>7. \A h \in k + 1 .. m - 1 : s1.list[h] = st.list[i + (h - k)]
      BY <1>6, <3>4, <3>6
    <3>8. s1.list[k] = n /\ k \in DOMAIN s1.list /\ k \in Nat \ {0}
      <4>1. k \in 1 .. k
        BY <3>2
      <4>2. s1.list[k] = st.list[k]
        BY <3>4, <4>1
      <4> QED
        BY <3>1, <3>2, <3>5, <4>2
    <3>9. \A h \in k + 1 .. Len(s1.list) : s1.list[h] = st.list[i + (h - k)]
      BY <3>5, <3>7
    <3>10. /\ Len(s1.list) \in Nat /\ DOMAIN s1.list = 1 .. Len(s1.list)
           /\ m - i = Len(s1.list) - k
      BY <3>5
    <3> QED
      BY <3>4, <3>8, <3>9, <3>10, Zenon
  <2>2. CASE ~Lf
    <3>1. k = i /\ n = c /\ s1 = st
      BY <1>8, <1>10, <2>2, Zenon
    <3>2. \A h \in k + 1 .. m : i + (h - k) = h
      BY <1>7, <3>1
    <3> QED
      BY <1>2, <1>4, <1>6, <1>7, <3>1, <3>2
  <2> QED
    BY <2>1, <2>2
<1>12. \A h \in DOMAIN st.list : st.list[h] \in DOMAIN st.chunk
  BY <1>3, ChunkFacts
<1>13. k - 1 \in DOMAIN s1.list => s1.list[k - 1] = st.list[k - 1] /\ s1.chunk[s1.list[k - 1]].usage
  <2> HAVE k - 1 \in DOMAIN s1.list
  <2>1. k - 1 \in 1 .. k /\ k - 1 \in DOMAIN st.list /\ k \in DOMAIN st.list /\ k = (k - 1) + 1
    BY <1>7, <1>10, <1>11
  <2>2. s1.list[k - 1] = st.list[k - 1] /\ st.list[k - 1] \in DOMAIN st.chunk
    BY <1>11, <1>12, <2>1
  <2>3. st.chunk[st.list[k - 1]].usage
    <3>1. CASE Lf
      <4>1. ~st.chunk[st.list[k]].usage
        BY <1>10, <3>1, Zenon DEF Lf
      <4> QED
        BY <1>3, <2>1, <4>1, Zenon
    <3>2. CASE ~Lf
      BY <1>10, <2>1, <3>2, Zenon DEF Lf
    <3> QED
      BY <3>1, <3>2, Zenon
  <2>4. s1.chunk[st.list[k - 1]].usage = st.chunk[st.list[k - 1]].usage
    BY <1>11, <2>2
  <2> QED
    BY <2>2, <2>3, <2>4, Zenon
<1>14. /\ Mid(s2, lv2, tg, n) /\ k \in DOMAIN s2.list /\ s2.list[k] = n
       /\ k - 1 \in DOMAIN s2.list => s2.chunk[s2.list[k - 1]].usage
       /\ k + 1 \in DOMAIN s2.list => s2.chunk[s2.list[k + 1]].usage
  <2>1. CASE Rf
    <3>1. /\ s2 = FuseToLeft(s1, n, st.list[i + 1]) /\ i + 1 \in DOMAIN st.list
          /\ ~st.chunk[st.list[i + 1]].usage
      BY <1>8, <2>1, Zenon DEF Rf
    <3>2. PICK r : r = st.list[i + 1]
      OBVIOUS
    <3>3. k + 1 <= Len(s1.list) /\ k + 1 \in k + 1 .. Len(s1.list) /\ i + (k + 1 - k) = i + 1
      BY <1>7, <1>11, <3>1
    <3>4. r = s1.list[k + 1] /\ r \in DOMAIN st.chunk
      BY <1>11, <1>12, <3>1, <3>2, <3>3
    <3>5. ~s1.chunk[r].usage
      <4>1. s1.chunk[r].usage = st.chunk[r].usage
        BY <1>11, <3>4
      <4> QED
        BY <3>1, <3>2, <4>1, Zenon
    <3>6. FreeBeside(s1, n, n, r)
      BY <3>5, Zenon DEF FreeBeside
    <3>7. /\ Mid(s2, lv2, tg, n)
          /\ Len(s2.list) = Len(s1.list) - 1 /\ DOMAIN s2.list = 1 .. Len(s1.list) - 1
          /\ \A h \in 1 .. k : s2.list[h] = s1.list[h]
          /\ \A h \in k + 1 .. Len(s1.list) - 1 : s2.list[h] = s1.list[h + 1]
          /\ \A d \in DOMAIN s1.chunk : s2.chunk[d].usage = s1.chunk[d].usage
      <4>1. Mid(s2, lv2, tg, n) /\ Shrunk(s1, k, s2)
        <5>1. /\ Mid(s1, lv2, tg, n) /\ k \in Nat \ {0} /\ n = s1.list[k]
              /\ s2 = FuseToLeft(s1, n, r)
          BY <1>11, <3>1, <3>2
        <5> QED
          BY <3>3, <3>4, <3>6, <5>1, MidFused
      <4> QED
        BY <4>1 DEF Shrunk
    <3>8. k \in DOMAIN s2.list /\ s2.list[k] = n
      BY <1>11, <3>3, <3>7
    <3>9. \A h \in DOMAIN s1.list : s1.list[h] \in DOMAIN s1.chunk
      BY <1>11, ChunkFacts DEF Mid
    <3>10. ASSUME k - 1 \in DOMAIN s2.list PROVE s2.chunk[s2.list[k - 1]].usage
      <4>1. k - 1 \in 1 .. k /\ k - 1 \in DOMAIN s1.list
        BY <1>11, <3>7, <3>10
      <4>2. s2.list[k - 1] = s1.list[k - 1] /\ s1.list[k - 1] \in DOMAIN s1.chunk
        BY <3>7, <3>9, <4>1
      <4>3. s2.chunk[s1.list[k - 1]].usage = s1.chunk[s1.list[k - 1]].usage
        BY <3>7, <4>2
      <4> QED
        BY <1>13, <4>1, <4>2, <4>3, Zenon
    <3>11. ASSUME k + 1 \in DOMAIN s2.list PROVE s2.chunk[s2.list[k + 1]].usage
      <4>1. /\ k + 1 \in k + 1 .. Len(s1.list) - 1 /\ k + 2 \in k + 1 .. Len(s1.list)
            /\ k + 1 + 1 = k + 2 /\ i + (k + 2 - k) = i + 2 /\ i + 1 + 1 = i + 2
            /\ i + 2 \in DOMAIN st.list /\ k + 2 \in DOMAIN s1.list
        BY <1>7, <1>11, <3>7, <3>11, SMTT(40)
      <4>2. PICK e : e = st.list[i + 2]
        OBVIOUS
      <4>3. s2.list[k + 1] = e /\ e \in DOMAIN st.chunk /\ e \in DOMAIN s1.chunk
        <5>1. s2.list[k + 1] = s1.list[k + 2]
          BY <3>7, <4>1
        <5>2. s1.list[k + 2] = st.list[i + 2]
          BY <1>11, <4>1
        <5> QED
          BY <1>12, <3>9, <4>1, <4>2, <5>1, <5>2
      <4>4. st.chunk[e].usage
        BY <1>3, <3>1, <4>1, <4>2, Zenon
      <4>5. s2.chunk[e].usage = st.chunk[e].usage
        BY <1>11, <3>7, <4>3
      <4> QED
        BY <4>3, <4>4, <4>5, Zenon
    <3> QED
      BY <3>7, <3>8, <3>10, <3>11, Zenon
  <2>2. CASE ~Rf
    <3>1. s2 = s1
      BY <1>8, <2>2, Zenon
    <3>2. ASSUME k + 1 \in DOMAIN s1.list PROVE s1.chunk[s1.list[k + 1]].usage
      <4>1. /\ k + 1 \in k + 1 .. Len(s1.list) /\ i + (k + 1 - k) = i + 1
            /\ i + 1 \in DOMAIN st.list
        BY <1>7, <1>11, <3>2, SMTT(40)
      <4>2. PICK e : e = st.list[i + 1]
        OBVIOUS
      <4>3. s1.list[k + 1] = e /\ e \in DOMAIN st.chunk
        BY <1>11, <1>12, <4>1, <4>2
      <4>4. st.chunk[e].usage
        BY <2>2, <4>1, <4>2, Zenon DEF Rf
      <4>5. s1.chunk[e].usage = st.chunk[e].usage
        BY <1>11, <4>3, SMTT(40)
      <4> QED
        BY <4>3, <4>4, <4>5, Zenon
    <3> QED
      BY <1>11, <1>13, <3>1, <3>2, Zenon
  <2> QED
    BY <2>1, <2>2
<1>15. PlanInv(st2, lv2, tg)
  BY <1>9, <1>14, MidEnd
<1> QED
  BY <1>1, <1>15

\* The list after insert_after holds what it held and the new chunk.
LEMMA ShapeCreated ==
    ASSUME NEW st \in PlanRec, Shape(st.list, st.chunk), NEW size \in Nat \ {0},
           NEW i \in 1 .. Len(st.list) + 1, NEW w, NEW st2, Created(st, size, i, w, st2)
    PROVE  /\ Shape(st2.list, st2.chunk) /\ Roots(st2.chunk) = Roots(st.chunk) \union {w}
           /\ OneMore(st.chunk, w, st2.chunk)
<1>1. PICK n : n = Len(st.list)
  OBVIOUS
<1>2. /\ st2 \in PlanRec /\ DOMAIN st2.list = 1 .. n + 1
      /\ \A h \in 1 .. i - 1 : st2.list[h] = st.list[h]
      /\ st2.list[i] = w
      /\ \A h \in i + 1 .. n + 1 : st2.list[h] = st.list[h - 1]
      /\ w \in Nat \ {0} /\ w \notin DOMAIN st.chunk
      /\ DOMAIN st2.chunk = DOMAIN st.chunk \union {w}
      /\ \A d \in DOMAIN st.chunk : st2.chunk[d] = st.chunk[d]
      /\ st2.chunk[w].into = 0
  BY <1>1 DEF Created
<1>3. st2.list \in Seq(Nat) /\ st2.chunk \in Seq(ChunkRec)
  BY <1>2 DEF PlanRec
<1>4. st2.chunk[w].into = 0
  BY <1>2
<1>5. n \in Nat /\ DOMAIN st.list = 1 .. n /\ i \in 1 .. n + 1
  BY <1>1 DEF Shape
<1>6. /\ \A h, j \in 1 .. n : st.list[h] = st.list[j] => h = j
      /\ \A h \in 1 .. n : st.list[h] \in DOMAIN st.chunk /\ st.chunk[st.list[h]].into = 0
      /\ \A c \in DOMAIN st.chunk : st.chunk[c].into \in DOMAIN st.chunk \union {0}
      /\ \A c \in DOMAIN st.chunk : st.chunk[c].into = 0 => \E h \in 1 .. n : st.list[h] = c
  <2>1. /\ IsInjective(st.list)
        /\ \A c \in DOMAIN st.chunk : st.chunk[c].into \in DOMAIN st.chunk \union {0}
        /\ \A h \in DOMAIN st.list : st.list[h] \in DOMAIN st.chunk /\ st.chunk[st.list[h]].into = 0
        /\ \A c \in DOMAIN st.chunk : st.chunk[c].into = 0 => \E h \in DOMAIN st.list : st.list[h] = c
    BY ChunkFacts
  <2>2. \A h, j \in DOMAIN st.list : st.list[h] = st.list[j] => h = j
    BY <2>1 DEF IsInjective
  <2> QED
    BY <1>5, <2>1, <2>2
<1>7. Roots(st2.chunk) = Roots(st.chunk) \union {w}
  <2>1. \A d : d \in Roots(st2.chunk) <=> d \in Roots(st.chunk) \union {w}
    BY <1>2, <1>4 DEF Roots
  <2> QED
    BY <2>1
<1>8. OneMore(st.chunk, w, st2.chunk)
  BY <1>2, <1>4 DEF OneMore
<1>9. \A h \in 1 .. n + 1 : h # i => \E j \in 1 .. n : /\ st2.list[h] = st.list[j]
                                                       /\ j = IF h < i THEN h ELSE h - 1
  BY <1>2, <1>5
<1>10. IsInjective(st2.list)
  <2>1. ASSUME NEW h \in 1 .. n + 1, NEW j \in 1 .. n + 1, st2.list[h] = st2.list[j]
        PROVE  h = j
    <3>1. \A g \in 1 .. n + 1 : g # i => st2.list[g] # w
      BY <1>2, <1>6, <1>9
    <3>2. CASE h = i \/ j = i
      BY <1>2, <2>1, <3>1, <3>2
    <3>3. CASE h # i /\ j # i
      BY <1>5, <1>6, <1>9, <2>1, <3>3
    <3> QED
      BY <3>2, <3>3
  <2> QED
    BY <1>2, <2>1 DEF IsInjective
<1>11. \A c : c \in ToSet(st2.list) <=> c \in Roots(st2.chunk)
  <2>1. ASSUME NEW h \in 1 .. n + 1 PROVE st2.list[h] \in Roots(st.chunk) \union {w}
    BY <1>2, <1>6, <1>9 DEF Roots
  <2>2. ASSUME NEW c \in Roots(st.chunk) PROVE \E h \in 1 .. n + 1 : st2.list[h] = c
    <3>1. PICK j \in 1 .. n : st.list[j] = c
      BY <1>6 DEF Roots
    <3>2. CASE j < i
      <4>1. j \in 1 .. n + 1 /\ j \in 1 .. i - 1
        BY <1>5, <3>2
      <4> QED
        BY <1>2, <3>1, <4>1
    <3>3. CASE j >= i
      <4>1. j + 1 \in 1 .. n + 1 /\ j + 1 \in i + 1 .. n + 1 /\ j + 1 - 1 = j
        BY <1>5, <3>3
      <4>2. st2.list[j + 1] = st.list[j]
        BY <1>2, <4>1
      <4> QED
        BY <3>1, <4>1, <4>2
    <3> QED
      BY <1>5, <3>2, <3>3
  <2>3. ToSet(st2.list) = {st2.list[h] : h \in 1 .. n + 1}
    BY <1>2 DEF ToSet
  <2>4. \E h \in 1 .. n + 1 : st2.list[h] = w
    BY <1>2, <1>5
  <2> QED
    BY <1>7, <2>1, <2>2, <2>3, <2>4
<1>12. \A c \in DOMAIN st2.chunk : st2.chunk[c].into \in DOMAIN st2.chunk \union {0}
  BY <1>2, <1>4, <1>6
<1> QED
  BY <1>3, <1>7, <1>8, <1>10, <1>11, <1>12 DEF Shape

\* alloc of a chunk of its own keeps the invariant.
LEMMA PlanLonger ==
    ASSUME NEW st, NEW lv, NEW tg, PlanInv(st, lv, tg), st.mTotalSize = 0,
           NEW size \in Nat \ {0}, NEW w, NEW st2,
           Created(st, size, Len(st.list) + 1, w, st2), st2.chunk[w].usage,
           NEW x, x[1] = w, x[2] = size, NEW Y \in SUBSET UNION tg
    PROVE  PlanInv(st2, lv \union {x}, tg \union Pairs(x, Y))
<1>1. PICK tg2, lv2 : tg2 = tg \union Pairs(x, Y) /\ lv2 = lv \union {x}
  OBVIOUS
<1>2. /\ st \in PlanRec /\ Shape(st.list, st.chunk) /\ LaidOut(st.list, st.chunk, tg)
      /\ FreeListed(st) /\ LiveUsed(st, lv, tg) /\ NotedLive(st, lv)
  BY DEF PlanInv
<1>3. PICK n : n = Len(st.list)
  OBVIOUS
<1>4. n \in Nat /\ n + 1 \in 1 .. n + 1 /\ DOMAIN st.list = 1 .. n
  BY <1>2, <1>3 DEF PlanRec
<1>0. Created(st, size, n + 1, w, st2)
  BY <1>3
<1>5. /\ st2 \in PlanRec /\ st2.mFreeList = st.mFreeList
      /\ st2.mBarrrierFreeChunks = st.mBarrrierFreeChunks
      /\ st2.mTotalSize = 0
      /\ Len(st2.list) = n + 1 /\ DOMAIN st2.list = 1 .. n + 1
      /\ \A h \in 1 .. n + 1 - 1 : st2.list[h] = st.list[h]
      /\ st2.list[n + 1] = w
      /\ w \notin DOMAIN st.chunk
      /\ \A d \in DOMAIN st.chunk : st2.chunk[d] = st.chunk[d]
  <2>1. PICK i : i = n + 1
    OBVIOUS
  <2>2. Created(st, size, i, w, st2)
    BY <1>0, <2>1
  <2>3. /\ st2 \in PlanRec /\ st2.mFreeList = st.mFreeList
        /\ st2.mBarrrierFreeChunks = st.mBarrrierFreeChunks
        /\ st2.mTotalSize = st.mTotalSize
        /\ Len(st2.list) = Len(st.list) + 1 /\ DOMAIN st2.list = 1 .. Len(st.list) + 1
        /\ st2.list[i] = w
        /\ w \notin DOMAIN st.chunk
    BY <2>2, Zenon DEF Created
  <2>4. /\ \A h \in 1 .. i - 1 : st2.list[h] = st.list[h]
        /\ \A d \in DOMAIN st.chunk : st2.chunk[d] = st.chunk[d]
    BY <2>2, Zenon DEF Created
  <2> QED
    BY <1>3, <2>1, <2>3, <2>4
<1>6. /\ Shape(st2.list, st2.chunk) /\ Roots(st2.chunk) = Roots(st.chunk) \union {w}
      /\ OneMore(st.chunk, w, st2.chunk)
  <2>1. PICK i : i = Len(st.list) + 1
    OBVIOUS
  <2>2. i \in 1 .. Len(st.list) + 1 /\ Created(st, size, i, w, st2)
    BY <1>3, <1>4, <2>1
  <2>3. st \in PlanRec /\ Shape(st.list, st.chunk) /\ size \in Nat \ {0}
    BY <1>2
  <2>4. Shape(st2.list, st2.chunk) /\ OneMore(st.chunk, w, st2.chunk)
    BY <2>2, <2>3, ShapeCreated
  <2>5. \A d : d \in Roots(st2.chunk) <=> d \in Roots(st.chunk) \union {w}
    BY <2>4 DEF OneMore, Roots
  <2> QED
    BY <2>4, <2>5
<1>7. st2.chunk[w].size = size /\ st2.chunk[w].usage
  BY <1>0, Zenon DEF Created
<1>8. \A d \in Roots(st.chunk) : d # w /\ st2.chunk[d] = st.chunk[d]
  BY <1>5 DEF Roots
<1>9. LaidOut(st2.list, st2.chunk, tg2)
  <2>1. PICK li, ch, l2, c2 : li = st.list /\ ch = st.chunk /\ l2 = st2.list /\ c2 = st2.chunk
    OBVIOUS
  <2>2. /\ Shape(li, ch) /\ LaidOut(li, ch, tg) /\ OneMore(ch, w, c2)
        /\ Len(l2) = Len(li) + 1 /\ DOMAIN l2 = 1 .. Len(li) + 1
        /\ l2[Len(li) + 1] = w
        /\ c2[w].size = size /\ x[1] = w /\ x[2] = size
    BY <1>2, <1>3, <1>5, <1>6, <1>7, <2>1
  <2>3. \A h \in 1 .. Len(li) : l2[h] = li[h]
    BY <1>3, <1>4, <1>5, <2>1
  <2>4. \A d \in DOMAIN ch : c2[d].size = ch[d].size
    BY <1>5, <2>1
  <2>5. Longer(li, ch, size, w, l2, c2)
    BY <2>2, <2>3, <2>4 DEF Longer
  <2>6. LaidOut(l2, c2, tg \union Pairs(x, Y))
    BY <2>2, <2>5, LayoutLonger
  <2> QED
    BY <1>1, <2>1, <2>6
<1>10. FreeListed(st2)
  <2>1. \A d : d \in st2.mFreeList <=> d \in {c \in Roots(st2.chunk) : ~st2.chunk[c].usage}
    <3> TAKE d
    <3>1. CASE d = w
      <4>1. d \notin st.mFreeList
        BY <1>2, <1>8, <3>1, Zenon DEF FreeListed
      <4> QED
        BY <1>5, <1>7, <3>1, <4>1, Zenon
    <3>2. CASE d # w
      <4>1. d \in Roots(st2.chunk) <=> d \in Roots(st.chunk)
        BY <1>6, <3>2
      <4>2. d \in st2.mFreeList <=> d \in {c \in Roots(st.chunk) : ~st.chunk[c].usage}
        BY <1>2, <1>5, Zenon DEF FreeListed
      <4> QED
        BY <1>8, <4>1, <4>2, Zenon
    <3> QED
      BY <3>1, <3>2
  <2>2. \A i, j \in DOMAIN st2.list : j = i + 1 =>
            st2.chunk[st2.list[i]].usage \/ st2.chunk[st2.list[j]].usage
    <3> TAKE i, j \in DOMAIN st2.list
    <3> HAVE j = i + 1
    <3>1. i \in 1 .. n + 1 /\ j \in 1 .. n + 1
      BY <1>5
    <3>2. CASE j = n + 1
      <4>1. st2.list[j] = w
        BY <1>5, <3>2
      <4> QED
        BY <1>7, <4>1, Zenon
    <3>3. CASE j # n + 1
      <4>1. /\ i \in DOMAIN st.list /\ j \in DOMAIN st.list
            /\ i \in 1 .. n + 1 - 1 /\ j \in 1 .. n + 1 - 1
        BY <1>4, <3>1, <3>3
      <4>2. st2.list[i] = st.list[i] /\ st2.list[j] = st.list[j]
        BY <1>5, <4>1
      <4>3. st.list[i] \in Roots(st.chunk) /\ st.list[j] \in Roots(st.chunk)
        BY <1>2, <4>1, ChunkFacts DEF Roots
      <4>4. st.chunk[st.list[i]].usage \/ st.chunk[st.list[j]].usage
        BY <1>2, <4>1, Zenon DEF FreeListed
      <4> QED
        BY <1>8, <4>2, <4>3, <4>4, ZenonT(60)
    <3> QED
      BY <3>2, <3>3, Zenon
  <2>3. st2.mFreeList = {c \in Roots(st2.chunk) : ~st2.chunk[c].usage}
    BY <2>1
  <2> QED
    BY <2>2, <2>3, Zenon DEF FreeListed
<1>11. LiveUsed(st2, lv2, tg2)
  <2>1. ASSUME NEW y \in lv2
        PROVE  /\ y[1] \in Roots(st2.chunk) /\ st2.chunk[y[1]].usage
               /\ y[2] = st2.chunk[y[1]].size /\ y \in UNION tg2
    <3>1. CASE y \in lv
      <4>1. /\ y[1] \in Roots(st.chunk) /\ st.chunk[y[1]].usage
            /\ y[2] = st.chunk[y[1]].size /\ y \in UNION tg
        BY <1>2, <3>1, Zenon DEF LiveUsed
      <4>2. y[1] \in Roots(st2.chunk) /\ y \in UNION tg2
        BY <1>1, <1>6, <4>1
      <4> QED
        BY <1>8, <4>1, <4>2, Zenon
    <3>2. CASE y = x
      <4>0. {x, x} \in tg2 /\ x \in {x, x}
        BY <1>1 DEF Pairs
      <4>1. y[1] = w /\ y[2] = size /\ y \in UNION tg2 /\ w \in Roots(st2.chunk)
        BY <1>6, <3>2, <4>0
      <4> QED
        BY <1>7, <4>1, Zenon
    <3> QED
      BY <1>1, <3>1, <3>2
  <2>2. ASSUME NEW d \in Roots(st2.chunk), st2.chunk[d].usage PROVE \E y \in lv2 : y[1] = d
    <3>1. CASE d = w
      <4>1. x \in lv2 /\ x[1] = w
        BY <1>1
      <4> QED
        BY <3>1, <4>1
    <3>2. CASE d # w
      <4>1. d \in Roots(st.chunk)
        BY <1>6, <3>2
      <4>2. st.chunk[d].usage
        BY <1>8, <2>2, <4>1, Zenon
      <4>3. \E y \in lv : y[1] = d
        BY <1>2, <4>1, <4>2, Zenon DEF LiveUsed
      <4> QED
        BY <1>1, <4>3
    <3> QED
      BY <3>1, <3>2
  <2> QED
    BY <2>1, <2>2, Zenon DEF LiveUsed
<1>12. NotedLive(st2, lv2)
  BY <1>1, <1>2, <1>5 DEF NotedLive
<1>13. PlanInv(st2, lv2, tg2)
  BY <1>5, <1>6, <1>9, <1>10, <1>11, <1>12 DEF PlanInv
<1> QED
  BY <1>1, <1>13

\* Chunk c of the free list is in use, with a new size.
Taken(st, c, size, st2) ==
    /\ st2 \in PlanRec /\ st2.list = st.list /\ st2.mFreeList = st.mFreeList \ {c}
    /\ st2.mBarrrierFreeChunks = st.mBarrrierFreeChunks
    /\ st2.mTotalSize = st.mTotalSize
    /\ DOMAIN st2.chunk = DOMAIN st.chunk
    /\ \A d \in DOMAIN st.chunk : d # c => st2.chunk[d] = st.chunk[d]
    /\ st2.chunk[c].size = size /\ st2.chunk[c].usage = TRUE
    /\ st2.chunk[c].into = 0 /\ st2.chunk[c].offset = st.chunk[c].offset

LEMMA TakenFacts ==
    ASSUME NEW st \in PlanRec, Shape(st.list, st.chunk), NEW c \in Roots(st.chunk),
           NEW size \in Nat \ {0}, NEW st2,
           st2 = [st EXCEPT !.mFreeList = @ \ {c},
                            !.chunk[c].usage = TRUE, !.chunk[c].size = size]
    PROVE  Taken(st, c, size, st2) /\ Shape(st2.list, st2.chunk)
<1>1. /\ st.list \in Seq(Nat) /\ st.chunk \in Seq(ChunkRec) /\ st.mFreeList \in SUBSET Nat
      /\ st.mBarrrier \in BOOLEAN /\ st.mBarrrierFreeChunks \in Seq(Nat)
      /\ st.mTotalSize \in Nat /\ st.mPtr \in Address \union {NULL}
  BY DEF PlanRec
<1>2. /\ c \in DOMAIN st.chunk /\ st.chunk[c].into = 0
      /\ \A d \in DOMAIN st.chunk : st.chunk[d] \in ChunkRec
  BY <1>1 DEF Roots
<1>3. PICK c2, fl : /\ c2 = [st.chunk EXCEPT ![c] = [st.chunk[c] EXCEPT !.usage = TRUE, !.size = size]]
                    /\ fl = st.mFreeList \ {c}
  OBVIOUS
<1>4. st2 = [st EXCEPT !.mFreeList = fl, !.chunk = c2]
  BY <1>2, <1>3
<1>5. /\ DOMAIN c2 = DOMAIN st.chunk
      /\ \A d \in DOMAIN st.chunk : d # c => c2[d] = st.chunk[d]
      /\ c2[c] = [st.chunk[c] EXCEPT !.usage = TRUE, !.size = size]
  BY <1>2, <1>3
<1>6. /\ c2[c] \in ChunkRec /\ c2[c].into = 0 /\ c2[c].usage = TRUE
      /\ c2[c].size = size /\ c2[c].offset = st.chunk[c].offset
  <2>1. PICK v : v = st.chunk[c]
    OBVIOUS
  <2>2. v \in ChunkRec /\ c2[c] = [v EXCEPT !.usage = TRUE, !.size = size] /\ v.into = 0
    BY <1>2, <1>5, <2>1
  <2>3. /\ c2[c] \in ChunkRec /\ c2[c].into = 0 /\ c2[c].usage = TRUE
        /\ c2[c].size = size /\ c2[c].offset = v.offset
    BY <2>2 DEF ChunkRec
  <2> QED
    BY <2>1, <2>3
<1>7. c2 \in Seq(ChunkRec)
  <2>1. \A d \in DOMAIN st.chunk : c2[d] \in ChunkRec
    BY <1>2, <1>5, <1>6
  <2>2. DOMAIN st.chunk = 1 .. Len(st.chunk) /\ Len(st.chunk) \in Nat
    BY <1>1
  <2>3. c2 = [d \in DOMAIN st.chunk |-> c2[d]]
    BY <1>3, <1>5
  <2>4. c2 \in [1 .. Len(st.chunk) -> ChunkRec]
    BY <1>5, <2>1, <2>2, <2>3
  <2> QED
    BY <2>2, <2>4
<1>8. /\ st2.list = st.list /\ st2.chunk = c2 /\ st2.mFreeList = fl
      /\ st2.mBarrrierFreeChunks = st.mBarrrierFreeChunks /\ st2.mTotalSize = st.mTotalSize
  BY <1>4 DEF PlanRec
<1>9. st2 \in PlanRec
  <2>1. fl \in SUBSET Nat
    BY <1>1, <1>3
  <2> QED
    BY <1>4, <1>7, <2>1 DEF PlanRec
<1>10. Taken(st, c, size, st2)
  BY <1>3, <1>5, <1>6, <1>8, <1>9 DEF Taken
<1>11. /\ \A d \in DOMAIN st.chunk : c2[d].into = st.chunk[d].into
  BY <1>2, <1>5, <1>6
<1>12. \A d : d \in Roots(c2) <=> d \in Roots(st.chunk)
  BY <1>5, <1>11 DEF Roots
<1>13. Roots(c2) = Roots(st.chunk)
  BY <1>12
<1>14. Shape(st2.list, st2.chunk)
  BY <1>5, <1>7, <1>8, <1>11, <1>13 DEF Shape
<1> QED
  BY <1>10, <1>14

\* What alloc of a free chunk does to the chunks of the list.
Asked(st, c, size, st2) ==
    /\ Roots(st.chunk) \subseteq Roots(st2.chunk)
    /\ \A d \in Roots(st.chunk) : d # c => st2.chunk[d] = st.chunk[d]
    /\ st2.chunk[c].size = size /\ st2.chunk[c].usage = TRUE
    /\ \A d \in Roots(st2.chunk) : d \notin Roots(st.chunk) => ~st2.chunk[d].usage

LEMMA PlanAsked ==
    ASSUME NEW st, NEW lv, NEW tg, PlanInv(st, lv, tg), NEW c \in st.mFreeList,
           NEW size \in Nat \ {0}, NEW x, x[1] = c, x[2] = size,
           NEW st2 \in PlanRec, Shape(st2.list, st2.chunk), FreeListed(st2),
           LaidOut(st2.list, st2.chunk, tg), st2.mTotalSize = 0,
           st2.mBarrrierFreeChunks = st.mBarrrierFreeChunks, Asked(st, c, size, st2)
    PROVE  PlanInv(st2, lv \union {x}, tg \union Pairs(x, lv))
<1>1. PICK tg2, lv2 : tg2 = tg \union Pairs(x, lv) /\ lv2 = lv \union {x}
  OBVIOUS
<1>2. FreeListed(st) /\ LiveUsed(st, lv, tg) /\ NotedLive(st, lv)
  BY DEF PlanInv
<1>3. /\ Roots(st.chunk) \subseteq Roots(st2.chunk)
      /\ \A d \in Roots(st.chunk) : d # c => st2.chunk[d] = st.chunk[d]
      /\ st2.chunk[c].size = size /\ st2.chunk[c].usage
      /\ \A d \in Roots(st2.chunk) : d \notin Roots(st.chunk) => ~st2.chunk[d].usage
  BY Zenon DEF Asked
<1>4. c \in Roots(st.chunk) /\ ~st.chunk[c].usage
  BY <1>2, Zenon DEF FreeListed
<1>5. \A y \in lv : y[1] # c
  BY <1>2, <1>4, Zenon DEF LiveUsed
<1>6. \A y \in lv : /\ y[1] \in Roots(st2.chunk) /\ st2.chunk[y[1]].usage
                    /\ y[2] = st2.chunk[y[1]].size /\ y \in UNION tg
  <2> TAKE y \in lv
  <2>1. /\ y[1] \in Roots(st.chunk) /\ st.chunk[y[1]].usage
        /\ y[2] = st.chunk[y[1]].size /\ y \in UNION tg
    BY <1>2, Zenon DEF LiveUsed
  <2>2. st2.chunk[y[1]] = st.chunk[y[1]] /\ y[1] \in Roots(st2.chunk)
    BY <1>3, <1>5, <2>1
  <2> QED
    BY <2>1, <2>2, Zenon
<1>7. LaidOut(st2.list, st2.chunk, tg2)
  <2>1. PICK l2, c2 : l2 = st2.list /\ c2 = st2.chunk
    OBVIOUS
  <2>2. /\ Shape(l2, c2) /\ LaidOut(l2, c2, tg) /\ x[1] \in Roots(c2) /\ x[2] = c2[x[1]].size
    BY <1>3, <1>4, <2>1
  <2>3. \A y \in lv : y[1] \in Roots(c2) /\ y[1] # x[1] /\ y[2] = c2[y[1]].size
    BY <1>5, <1>6, <2>1
  <2>4. LaidOut(l2, c2, tg \union Pairs(x, lv))
    BY <2>2, <2>3, LayoutAsked
  <2> QED
    BY <1>1, <2>1, <2>4
<1>8. LiveUsed(st2, lv2, tg2)
  <2>1. ASSUME NEW y \in lv2
        PROVE  /\ y[1] \in Roots(st2.chunk) /\ st2.chunk[y[1]].usage
               /\ y[2] = st2.chunk[y[1]].size /\ y \in UNION tg2
    <3>1. CASE y \in lv
      <4>1. y \in UNION tg2
        BY <1>1, <1>6, <3>1
      <4> QED
        BY <1>6, <3>1, <4>1, Zenon
    <3>2. CASE y = x
      <4>1. {x, x} \in tg2 /\ x \in {x, x}
        BY <1>1 DEF Pairs
      <4>2. y[1] = c /\ y[2] = size /\ y \in UNION tg2 /\ c \in Roots(st2.chunk)
        BY <1>3, <1>4, <3>2, <4>1
      <4> QED
        BY <1>3, <4>2, Zenon
    <3> QED
      BY <1>1, <3>1, <3>2
  <2>2. ASSUME NEW d \in Roots(st2.chunk), st2.chunk[d].usage PROVE \E y \in lv2 : y[1] = d
    <3>1. d \in Roots(st.chunk)
      BY <1>3, <2>2, Zenon
    <3>2. CASE d = c
      <4>1. x \in lv2 /\ x[1] = c
        BY <1>1
      <4> QED
        BY <3>2, <4>1
    <3>3. CASE d # c
      <4>1. st.chunk[d].usage
        BY <1>3, <2>2, <3>1, <3>3, Zenon
      <4>2. \E y \in lv : y[1] = d
        BY <1>2, <3>1, <4>1, Zenon DEF LiveUsed
      <4> QED
        BY <1>1, <4>2
    <3> QED
      BY <3>2, <3>3
  <2> QED
    BY <2>1, <2>2, Zenon DEF LiveUsed
<1>9. NotedLive(st2, lv2)
  BY <1>1, <1>2 DEF NotedLive
<1>10. PlanInv(st2, lv2, tg2)
  BY <1>7, <1>8, <1>9 DEF PlanInv
<1> QED
  BY <1>1, <1>10

\* A free chunk that is not larger than what is asked expands.
LEMMA PlanGrown ==
    ASSUME NEW st, NEW lv, NEW tg, PlanInv(st, lv, tg), st.mTotalSize = 0,
           NEW c \in st.mFreeList, NEW size \in Nat \ {0}, st.chunk[c].size <= size,
           NEW x, x[1] = c, x[2] = size,
           NEW st2, Taken(st, c, size, st2), Shape(st2.list, st2.chunk)
    PROVE  PlanInv(st2, lv \union {x}, tg \union Pairs(x, lv))
<1>1. /\ st \in PlanRec /\ Shape(st.list, st.chunk) /\ LaidOut(st.list, st.chunk, tg)
      /\ FreeListed(st)
  BY DEF PlanInv
<1>2. c \in Roots(st.chunk)
  BY <1>1, Zenon DEF FreeListed
<1>3. /\ c \in DOMAIN st.chunk /\ st.chunk[c].into = 0
      /\ \A d \in DOMAIN st.chunk : st.chunk[d].size \in Nat \ {0}
      /\ \A i \in DOMAIN st.list : st.list[i] \in Roots(st.chunk)
  BY <1>1, <1>2, ChunkFacts DEF Roots
<1>4. /\ st2 \in PlanRec /\ st2.list = st.list /\ st2.mFreeList = st.mFreeList \ {c}
      /\ st2.mBarrrierFreeChunks = st.mBarrrierFreeChunks
      /\ st2.mTotalSize = st.mTotalSize
      /\ DOMAIN st2.chunk = DOMAIN st.chunk
      /\ \A d \in DOMAIN st.chunk : d # c => st2.chunk[d] = st.chunk[d]
      /\ st2.chunk[c].size = size /\ st2.chunk[c].usage = TRUE
      /\ st2.chunk[c].into = 0 /\ st2.chunk[c].offset = st.chunk[c].offset
  BY Zenon DEF Taken
<1>5. \A d \in DOMAIN st.chunk :
          st2.chunk[d].into = st.chunk[d].into /\ st2.chunk[d].offset = st.chunk[d].offset
  BY <1>3, <1>4
<1>6. Roots(st2.chunk) = Roots(st.chunk)
  <2>1. \A d : d \in Roots(st2.chunk) <=> d \in Roots(st.chunk)
    BY <1>4, <1>5 DEF Roots
  <2> QED
    BY <2>1
<1>7. LaidOut(st2.list, st2.chunk, tg)
  <2>1. PICK li, ch, c2, e : li = st.list /\ ch = st.chunk /\ c2 = st2.chunk
                             /\ e = size - st.chunk[c].size
    OBVIOUS
  <2>2. e \in Nat /\ size = ch[c].size + e
    BY <1>3, <2>1
  <2>3. \A d \in DOMAIN ch :
            /\ c2[d].into = ch[d].into /\ c2[d].offset = ch[d].offset
            /\ c2[d].size = IF d = c THEN ch[d].size + e ELSE ch[d].size
    BY <1>4, <1>5, <2>1, <2>2
  <2>4. /\ Shape(li, ch) /\ LaidOut(li, ch, tg) /\ c \in Roots(ch) /\ DOMAIN c2 = DOMAIN ch
    BY <1>1, <1>2, <1>4, <2>1
  <2>5. LaidOut(li, c2, tg)
    BY <2>2, <2>3, <2>4, LayoutGrown
  <2> QED
    BY <1>4, <2>1, <2>5
<1>8. FreeListed(st2)
  <2>1. \A d : d \in st2.mFreeList <=> d \in {b \in Roots(st2.chunk) : ~st2.chunk[b].usage}
    <3> TAKE d
    <3>1. d \in st.mFreeList <=> d \in {b \in Roots(st.chunk) : ~st.chunk[b].usage}
      BY <1>1, Zenon DEF FreeListed
    <3>2. CASE d = c
      BY <1>4, <3>2, Zenon
    <3>3. CASE d # c /\ d \in Roots(st.chunk)
      <4>1. st2.chunk[d] = st.chunk[d]
        BY <1>4, <3>3 DEF Roots
      <4>2. d \in st2.mFreeList <=> d \in st.mFreeList
        BY <1>4, <3>3
      <4> QED
        BY <1>6, <3>1, <3>3, <4>1, <4>2, Zenon
    <3>4. CASE d # c /\ d \notin Roots(st.chunk)
      <4>1. d \notin st2.mFreeList
        BY <1>4, <3>1, <3>4, Zenon
      <4> QED
        BY <1>6, <3>4, <4>1, Zenon
    <3> QED
      BY <3>2, <3>3, <3>4
  <2>2. \A i, j \in DOMAIN st2.list : j = i + 1 =>
            st2.chunk[st2.list[i]].usage \/ st2.chunk[st2.list[j]].usage
    <3> TAKE i, j \in DOMAIN st2.list
    <3> HAVE j = i + 1
    <3>1. i \in DOMAIN st.list /\ j \in DOMAIN st.list /\ st2.list = st.list
      BY <1>4
    <3>2. st.chunk[st.list[i]].usage \/ st.chunk[st.list[j]].usage
      BY <1>1, <3>1, Zenon DEF FreeListed
    <3>3. ASSUME NEW h \in DOMAIN st.list, st.chunk[st.list[h]].usage
          PROVE  st2.chunk[st.list[h]].usage
      <4>1. CASE st.list[h] = c
        BY <1>4, <4>1, Zenon
      <4>2. CASE st.list[h] # c
        <5>1. st2.chunk[st.list[h]] = st.chunk[st.list[h]]
          BY <1>3, <1>4, <4>2 DEF Roots
        <5> QED
          BY <3>3, <5>1, Zenon
      <4> QED
        BY <4>1, <4>2
    <3> QED
      BY <3>1, <3>2, <3>3, Zenon
  <2>3. st2.mFreeList = {b \in Roots(st2.chunk) : ~st2.chunk[b].usage}
    BY <2>1
  <2> QED
    BY <2>2, <2>3, Zenon DEF FreeListed
<1>9. Asked(st, c, size, st2)
  BY <1>4, <1>6 DEF Asked, Roots
<1> QED
  BY <1>4, <1>7, <1>8, <1>9, PlanAsked

\* Chunk w, not used, is put into the free list.
Listed(t, w, st2) ==
    ~t.chunk[w].usage /\ st2 = [t EXCEPT !.mFreeList = t.mFreeList \union {w}]

\* What is left of a larger one becomes a chunk of its own after it.
LEMMA PlanSplit ==
    ASSUME NEW st, NEW lv, NEW tg, PlanInv(st, lv, tg), st.mTotalSize = 0,
           NEW c \in st.mFreeList, NEW size \in Nat \ {0}, size < st.chunk[c].size,
           NEW x, x[1] = c, x[2] = size,
           NEW st1, Taken(st, c, size, st1), Shape(st1.list, st1.chunk),
           NEW k \in DOMAIN st.list, st.list[k] = c,
           NEW w, NEW t, Created(st1, st.chunk[c].size - size, k + 1, w, t),
           NEW st2, Listed(t, w, st2)
    PROVE  PlanInv(st2, lv \union {x}, tg \union Pairs(x, lv))
<1>1. /\ st \in PlanRec /\ Shape(st.list, st.chunk) /\ LaidOut(st.list, st.chunk, tg)
      /\ FreeListed(st)
  BY DEF PlanInv
<1>0. ~t.chunk[w].usage
  BY Zenon DEF Listed
<1>2. c \in Roots(st.chunk)
  BY <1>1, Zenon DEF FreeListed
<1>3. /\ c \in DOMAIN st.chunk /\ st.chunk[c].into = 0
      /\ \A d \in DOMAIN st.chunk : st.chunk[d].size \in Nat \ {0}
      /\ \A i \in DOMAIN st.list : st.list[i] \in Roots(st.chunk)
  BY <1>1, <1>2, ChunkFacts DEF Roots
<1>4. /\ st1 \in PlanRec /\ st1.list = st.list /\ st1.mFreeList = st.mFreeList \ {c}
      /\ st1.mBarrrierFreeChunks = st.mBarrrierFreeChunks
      /\ st1.mTotalSize = st.mTotalSize
      /\ DOMAIN st1.chunk = DOMAIN st.chunk
      /\ \A d \in DOMAIN st.chunk : d # c => st1.chunk[d] = st.chunk[d]
      /\ st1.chunk[c].size = size /\ st1.chunk[c].usage = TRUE
      /\ st1.chunk[c].into = 0 /\ st1.chunk[c].offset = st.chunk[c].offset
  BY Zenon DEF Taken
<1>5. PICK n, rest : n = Len(st.list) /\ rest = st.chunk[c].size - size
  OBVIOUS
<1>6. /\ n \in Nat /\ DOMAIN st.list = 1 .. n /\ k \in 1 .. n /\ rest \in Nat \ {0}
      /\ k + 1 \in 1 .. n + 1 /\ k + 1 - 1 = k /\ k + 1 + 1 = k + 2
  <2>1. n \in Nat /\ DOMAIN st.list = 1 .. n /\ k \in 1 .. n
    BY <1>1, <1>5 DEF PlanRec
  <2>2. PICK z : z = st.chunk[c].size
    OBVIOUS
  <2>3. z \in Nat \ {0} /\ rest = z - size /\ size < z
    BY <1>3, <1>5, <2>2
  <2> QED
    BY <2>1, <2>3
<1>7. PICK i : i = k + 1
  OBVIOUS
<1>8. /\ t \in PlanRec
      /\ t.mFreeList = st1.mFreeList
      /\ t.mBarrrierFreeChunks = st1.mBarrrierFreeChunks
      /\ t.mTotalSize = st1.mTotalSize
      /\ Len(t.list) = Len(st1.list) + 1 /\ DOMAIN t.list = 1 .. Len(st1.list) + 1
      /\ \A h \in 1 .. i - 1 : t.list[h] = st1.list[h]
      /\ t.list[i] = w
      /\ \A h \in i + 1 .. Len(st1.list) + 1 : t.list[h] = st1.list[h - 1]
      /\ w \in Nat \ {0} /\ w \notin DOMAIN st1.chunk
      /\ DOMAIN t.chunk = DOMAIN st1.chunk \union {w}
      /\ \A d \in DOMAIN st1.chunk : t.chunk[d] = st1.chunk[d]
      /\ t.chunk[w].size = rest /\ t.chunk[w].into = 0
  BY <1>5, <1>7, Zenon DEF Created
<1>9. /\ Len(t.list) = n + 1 /\ DOMAIN t.list = 1 .. n + 1
      /\ \A h \in 1 .. k : t.list[h] = st.list[h]
      /\ t.list[k + 1] = w
      /\ \A h \in k + 2 .. n + 1 : t.list[h] = st.list[h - 1]
  <2>1. Len(st1.list) = n
    BY <1>4, <1>5
  <2>2. i - 1 = k /\ i + 1 = k + 2
    BY <1>6, <1>7
  <2> QED
    BY <1>4, <1>7, <1>8, <2>1, <2>2
<1>10. /\ w \notin DOMAIN st.chunk /\ w # c /\ w \in Nat
       /\ DOMAIN t.chunk = DOMAIN st.chunk \union {w}
       /\ \A d \in DOMAIN st.chunk : d # c => t.chunk[d] = st.chunk[d]
       /\ t.chunk[c].size = size /\ t.chunk[c].usage = TRUE
       /\ t.chunk[c].into = 0 /\ t.chunk[c].offset = st.chunk[c].offset
  BY <1>3, <1>4, <1>8
<1>11. /\ Shape(t.list, t.chunk) /\ OneMore(st1.chunk, w, t.chunk)
  <2>1. rest \in Nat \ {0} /\ i \in 1 .. Len(st1.list) + 1 /\ Created(st1, rest, i, w, t)
    BY <1>4, <1>5, <1>6, <1>7
  <2>2. st1 \in PlanRec
    BY <1>4
  <2> QED
    BY <2>1, <2>2, ShapeCreated
<1>12. /\ st2.list = t.list /\ st2.chunk = t.chunk
       /\ st2.mFreeList = (st.mFreeList \ {c}) \union {w}
       /\ st2.mBarrrierFreeChunks = st.mBarrrierFreeChunks /\ st2.mTotalSize = 0
       /\ st2 \in PlanRec
  <2>1. PICK fl : fl = t.mFreeList \union {w}
    OBVIOUS
  <2>2. st2 = [t EXCEPT !.mFreeList = fl]
    BY <2>1, Zenon DEF Listed
  <2>3. fl \in SUBSET Nat
    BY <1>8, <1>10, <2>1 DEF PlanRec
  <2>4. /\ st2.list = t.list /\ st2.chunk = t.chunk /\ st2.mFreeList = fl
        /\ st2.mBarrrierFreeChunks = t.mBarrrierFreeChunks /\ st2.mTotalSize = t.mTotalSize
    BY <1>8, <2>2 DEF PlanRec
  <2>5. st2 \in PlanRec
    BY <1>8, <2>2, <2>3 DEF PlanRec
  <2> QED
    BY <1>4, <1>8, <2>1, <2>4, <2>5
<1>13. \A d \in DOMAIN st.chunk :
           t.chunk[d].into = st.chunk[d].into /\ t.chunk[d].offset = st.chunk[d].offset
  BY <1>3, <1>10
<1>14. \A d : d \in Roots(t.chunk) <=> d \in Roots(st.chunk) \union {w}
  BY <1>8, <1>10, <1>13 DEF Roots
<1>15. LaidOut(st2.list, st2.chunk, tg)
  <2>1. PICK li, ch, l2, c2 : li = st.list /\ ch = st.chunk /\ l2 = t.list /\ c2 = t.chunk
    OBVIOUS
  <2>2. OneMore(ch, w, c2)
    BY <1>8, <1>10, <1>13, <2>1 DEF OneMore
  <2>3. \A d \in DOMAIN ch : c2[d].size = IF d = li[k] THEN size ELSE ch[d].size
    BY <1>10, <2>1
  <2>4. c2[w].size = ch[li[k]].size - size
    BY <1>5, <1>8, <2>1
  <2>5. SplitAt(li, ch, k, size, w, l2, c2)
    BY <1>5, <1>9, <2>1, <2>2, <2>3, <2>4 DEF SplitAt
  <2>6. /\ Shape(li, ch) /\ LaidOut(li, ch, tg) /\ k \in 1 .. Len(li) /\ size \in Nat
        /\ size <= ch[li[k]].size
    BY <1>1, <1>3, <1>5, <1>6, <2>1
  <2>7. LaidOut(l2, c2, tg)
    BY <2>5, <2>6, LayoutSplit
  <2> QED
    BY <1>12, <2>1, <2>7
<1>16. FreeListed(st2)
  <2>1. \A d : d \in st2.mFreeList <=> d \in {b \in Roots(st2.chunk) : ~st2.chunk[b].usage}
    <3> TAKE d
    <3>1. d \in st.mFreeList <=> d \in {b \in Roots(st.chunk) : ~st.chunk[b].usage}
      BY <1>1, Zenon DEF FreeListed
    <3>2. CASE d = c
      BY <1>10, <1>12, <3>2, Zenon
    <3>3. CASE d = w
      <4>1. d \in st2.mFreeList /\ d \in Roots(t.chunk)
        BY <1>12, <1>14, <3>3
      <4> QED
        BY <1>0, <1>12, <3>3, <4>1, Zenon
    <3>4. CASE d # c /\ d # w /\ d \in Roots(st.chunk)
      <4>1. t.chunk[d] = st.chunk[d] /\ d \in Roots(t.chunk)
        BY <1>10, <1>14, <3>4 DEF Roots
      <4>2. d \in st2.mFreeList <=> d \in st.mFreeList
        BY <1>12, <3>4
      <4> QED
        BY <1>12, <3>1, <3>4, <4>1, <4>2, Zenon
    <3>5. CASE d # c /\ d # w /\ d \notin Roots(st.chunk)
      <4>1. d \notin st2.mFreeList
        BY <1>12, <3>1, <3>5, Zenon
      <4>2. d \notin Roots(t.chunk)
        BY <1>14, <3>5
      <4> QED
        BY <1>12, <4>1, <4>2, Zenon
    <3> QED
      BY <3>2, <3>3, <3>4, <3>5
  <2>2. \A g, j \in DOMAIN st2.list : j = g + 1 =>
            st2.chunk[st2.list[g]].usage \/ st2.chunk[st2.list[j]].usage
    <3> TAKE g, j \in DOMAIN st2.list
    <3> HAVE j = g + 1
    <3>1. g \in 1 .. n + 1 /\ j \in 1 .. n + 1 /\ st2.list = t.list /\ st2.chunk = t.chunk
      BY <1>9, <1>12
    <3>2. ASSUME NEW h \in 1 .. n, st.chunk[st.list[h]].usage
          PROVE  t.chunk[st.list[h]].usage
      <4>1. CASE st.list[h] = c
        BY <1>10, <4>1, Zenon
      <4>2. CASE st.list[h] # c
        <5>1. t.chunk[st.list[h]] = st.chunk[st.list[h]]
          BY <1>3, <1>6, <1>10, <4>2 DEF Roots
        <5> QED
          BY <3>2, <5>1, Zenon
      <4> QED
        BY <4>1, <4>2
    <3>3. \A a, b \in 1 .. n : b = a + 1 => st.chunk[st.list[a]].usage \/ st.chunk[st.list[b]].usage
      BY <1>1, <1>6, Zenon DEF FreeListed
    <3>4. CASE g = k
      <4>1. t.list[g] = c
        <5>1. k \in 1 .. k
          BY <1>6
        <5> QED
          BY <1>9, <3>4, <5>1
      <4> QED
        BY <1>10, <3>1, <4>1, Zenon
    <3>5. CASE g = k + 1
      <4>1. /\ k + 1 \in 1 .. n /\ k \in 1 .. n /\ k + 2 \in k + 2 .. n + 1
            /\ j = k + 2 /\ j - 1 = k + 1
        BY <1>6, <3>1, <3>5
      <4>2. t.list[j] = st.list[k + 1]
        BY <1>9, <4>1
      <4>3. ~st.chunk[st.list[k]].usage
        BY <1>1, Zenon DEF FreeListed
      <4>4. st.chunk[st.list[k + 1]].usage
        BY <3>3, <4>1, <4>3, Zenon
      <4>5. t.chunk[st.list[k + 1]].usage
        BY <3>2, <4>1, <4>4, Zenon
      <4> QED
        BY <3>1, <4>2, <4>5, Zenon
    <3>6. CASE g < k
      <4>1. g \in 1 .. n /\ j \in 1 .. n /\ g \in 1 .. k /\ j \in 1 .. k
        BY <1>6, <3>1, <3>6
      <4>2. t.list[g] = st.list[g] /\ t.list[j] = st.list[j]
        BY <1>9, <4>1
      <4>3. st.chunk[st.list[g]].usage \/ st.chunk[st.list[j]].usage
        BY <3>3, <4>1, Zenon
      <4> QED
        BY <3>1, <3>2, <4>1, <4>2, <4>3, Zenon
    <3>7. CASE g > k + 1
      <4>1. /\ g - 1 \in 1 .. n /\ j - 1 \in 1 .. n /\ j - 1 = (g - 1) + 1
            /\ g \in k + 2 .. n + 1 /\ j \in k + 2 .. n + 1
        <5>1. n \in Nat /\ k \in 1 .. n /\ g \in 1 .. n + 1 /\ g + 1 \in 1 .. n + 1
          BY <1>6, <3>1
        <5>2. g - 1 \in 1 .. n /\ g + 1 - 1 = g - 1 + 1 /\ g \in k + 2 .. n + 1
          BY <3>7, <5>1
        <5>3. g + 1 - 1 \in 1 .. n /\ g + 1 \in k + 2 .. n + 1
          BY <3>7, <5>1
        <5> QED
          BY <5>2, <5>3
      <4>2. t.list[g] = st.list[g - 1] /\ t.list[j] = st.list[j - 1]
        BY <1>9, <4>1
      <4>3. st.chunk[st.list[g - 1]].usage \/ st.chunk[st.list[j - 1]].usage
        BY <3>3, <4>1, Zenon
      <4> QED
        BY <3>1, <3>2, <4>1, <4>2, <4>3, Zenon
    <3>8. g = k \/ g = k + 1 \/ g < k \/ g > k + 1
      BY <1>6, <3>1
    <3> QED
      BY <3>4, <3>5, <3>6, <3>7, <3>8, Zenon
  <2>3. st2.mFreeList = {b \in Roots(st2.chunk) : ~st2.chunk[b].usage}
    BY <2>1
  <2> QED
    BY <2>2, <2>3, Zenon DEF FreeListed
<1>17. Asked(st, c, size, st2)
  <2>1. Roots(st.chunk) \subseteq Roots(st2.chunk)
    BY <1>12, <1>14
  <2>2. \A d \in Roots(st.chunk) : d # c => st2.chunk[d] = st.chunk[d]
    BY <1>10, <1>12 DEF Roots
  <2>3. \A d \in Roots(st2.chunk) : d \notin Roots(st.chunk) => ~st2.chunk[d].usage
    <3>1. \A d \in Roots(st2.chunk) : d \notin Roots(st.chunk) => d = w
      BY <1>12, <1>14
    <3> QED
      BY <1>0, <1>12, <3>1, Zenon
  <2> QED
    BY <1>10, <1>12, <2>1, <2>2, <2>3, Zenon DEF Asked
<1> QED
  BY <1>11, <1>12, <1>15, <1>16, <1>17, PlanAsked

\* alloc of a free chunk keeps the invariant.
LEMMA PlanReused ==
    ASSUME NEW st, NEW lv, NEW tg, PlanInv(st, lv, tg), st.mTotalSize = 0,
           NEW c \in st.mFreeList, NEW size \in Nat \ {0}, NEW x, x[1] = c, x[2] = size,
           NEW st2, st2 = Reuse(st, c, size)
    PROVE  PlanInv(st2, lv \union {x}, tg \union Pairs(x, lv))
<1>1. st \in PlanRec /\ Shape(st.list, st.chunk) /\ FreeListed(st)
  BY DEF PlanInv
<1>2. c \in Roots(st.chunk)
  BY <1>1, Zenon DEF FreeListed
<1>3. PICK rest, st1 : /\ rest = st.chunk[c].size - size
                       /\ st1 = [st EXCEPT !.mFreeList = @ \ {c},
                                           !.chunk[c].usage = TRUE, !.chunk[c].size = size]
  OBVIOUS
<1>4. Taken(st, c, size, st1) /\ Shape(st1.list, st1.chunk)
  BY <1>1, <1>2, <1>3, TakenFacts
<1>5. st.chunk[c].size \in Nat \ {0}
  BY <1>1, <1>2, ChunkFacts DEF Roots
<1>6. CASE rest <= 0
  <2>1. st2 = st1
    BY <1>3, <1>6 DEF Reuse, ReuseListing
  <2>2. st.chunk[c].size <= size
    BY <1>3, <1>5, <1>6
  <2> QED
    BY <1>4, <2>1, <2>2, PlanGrown
<1>7. CASE ~(rest <= 0)
  <2>1. PICK k \in DOMAIN st.list : st.list[k] = c
    BY <1>1, <1>2, ChunkFacts DEF Roots
  <2>2. PosOf(st, c) = k
    BY <1>1, <2>1, PosOfFacts
  <2>3. PICK t, u, i, w : /\ u = FALSE /\ i = k + 1 /\ w = Len(st1.chunk) + 1
                          /\ t = Create(st1, rest, u, i)
    OBVIOUS
  <2>4. Len(st.chunk) + 1 = w
    <3>1. /\ DOMAIN st1.chunk = DOMAIN st.chunk /\ st1.chunk \in Seq(ChunkRec)
          /\ st.chunk \in Seq(ChunkRec)
      BY <1>1, <1>4 DEF Taken, PlanRec
    <3> QED
      BY <2>3, <3>1
  <2>5. st2 = [t EXCEPT !.mFreeList = @ \union {w}]
    BY <1>3, <1>7, <2>2, <2>3, <2>4 DEF Reuse, ReuseListing
  <2>6. Created(st1, rest, i, w, t) /\ t.chunk[w].usage = u
    <3>1. st1 \in PlanRec /\ st1.list = st.list
      BY <1>4 DEF Taken
    <3>2. i \in 1 .. Len(st1.list) + 1
      <4>1. Len(st.list) \in Nat /\ DOMAIN st.list = 1 .. Len(st.list)
        BY <1>1 DEF PlanRec
      <4>2. k + 1 \in 1 .. Len(st.list) + 1
        BY <2>1, <4>1
      <4> QED
        BY <2>3, <3>1, <4>2
    <3>3. rest \in Nat \ {0} /\ u \in BOOLEAN
      <4>1. PICK z : z = st.chunk[c].size
        OBVIOUS
      <4>2. z \in Nat \ {0} /\ rest = z - size
        BY <1>3, <1>5, <4>1
      <4>3. rest \in Nat \ {0}
        BY <1>7, <4>2
      <4> QED
        BY <2>3, <4>3, Zenon
    <3> QED
      BY <2>3, <3>1, <3>2, <3>3, CreateFacts
  <2>7. size < st.chunk[c].size
    BY <1>3, <1>5, <1>7
  <2>8. Created(st1, st.chunk[c].size - size, k + 1, w, t)
    BY <1>3, <2>3, <2>6
  <2>9. Listed(t, w, st2)
    BY <2>3, <2>5, <2>6, Zenon DEF Listed
  <2> QED
    BY <1>4, <2>1, <2>7, <2>8, <2>9, PlanSplit
<1> QED
  BY <1>6, <1>7

\* A chunk made at the end of the list.
LEMMA CreateLast ==
    ASSUME NEW st \in PlanRec, NEW size \in Nat \ {0}, NEW w, w = Len(st.chunk) + 1
    PROVE  \E st2 : /\ st2 = Create(st, size, TRUE, Len(st.list) + 1)
                    /\ Created(st, size, Len(st.list) + 1, w, st2)
                    /\ st2.chunk[w].usage
<1>1. PICK u, i : u = TRUE /\ i = Len(st.list) + 1
  OBVIOUS
<1>2. u \in BOOLEAN
  BY <1>1
<1>3. i \in 1 .. Len(st.list) + 1
  <2>1. Len(st.list) \in Nat
    BY DEF PlanRec
  <2> QED
    BY <1>1, <2>1
<1>4. PICK st2 : st2 = Create(st, size, u, i)
  OBVIOUS
<1>5. Created(st, size, i, w, st2) /\ st2.chunk[w].usage = u
  BY <1>2, <1>3, <1>4, CreateFacts
<1>6. st2 = Create(st, size, TRUE, Len(st.list) + 1)
  BY <1>1, <1>4
<1>7. st2.chunk[w].usage
  BY <1>1, <1>5, Zenon
<1>8. Created(st, size, Len(st.list) + 1, w, st2)
  BY <1>1, <1>5
<1> QED
  BY <1>6, <1>7, <1>8, Zenon

\* alloc keeps the invariant.
LEMMA PlanAlloc ==
    ASSUME NEW st, NEW lv, NEW tg, PlanInv(st, lv, tg), st.mTotalSize = 0,
           NEW size \in Nat \ {0}, NEW separate \in BOOLEAN,
           NEW r \in AllocResults(st, size, separate), NEW x, x = <<r.c, size>>,
           NEW Y, Y = lv \union (IF separate THEN UNION tg ELSE {})
    PROVE  PlanInv(r.st, lv \union {x}, tg \union Pairs(x, Y))
<1>1. st \in PlanRec /\ Shape(st.list, st.chunk) /\ LiveUsed(st, lv, tg)
  BY DEF PlanInv
<1>2. CASE st.mFreeList = {} \/ separate
  <2>1. r = [st |-> Create(st, size, TRUE, Len(st.list) + 1), c |-> Len(st.chunk) + 1]
    BY <1>2 DEF AllocResults
  <2>2. PICK w, st2 : /\ w = Len(st.chunk) + 1
                      /\ st2 = Create(st, size, TRUE, Len(st.list) + 1)
    OBVIOUS
  <2>3. r.st = st2 /\ x[1] = w /\ x[2] = size
    BY <2>1, <2>2
  <2>6. Created(st, size, Len(st.list) + 1, w, st2) /\ st2.chunk[w].usage
    BY <1>1, <2>2, CreateLast
  <2>8. Y \in SUBSET UNION tg
    BY <1>1 DEF LiveUsed
  <2>9. PlanInv(st2, lv \union {x}, tg \union Pairs(x, Y))
    BY <2>3, <2>6, <2>8, PlanLonger
  <2> QED
    BY <2>3, <2>9
<1>3. CASE ~(st.mFreeList = {} \/ separate)
  <2>1. PICK c \in Select(st, size) : r = [st |-> Reuse(st, c, size), c |-> c]
    BY <1>3 DEF AllocResults
  <2>2. c \in st.mFreeList
    BY DEF Select
  <2>3. r.st = Reuse(st, c, size) /\ x[1] = c /\ x[2] = size /\ Y = lv
    BY <1>3, <2>1
  <2>4. PlanInv(r.st, lv \union {x}, tg \union Pairs(x, lv))
    BY <2>2, <2>3, PlanReused
  <2> QED
    BY <2>3, <2>4
<1> QED
  BY <1>2, <1>3

-----------------------------------------------------------------------------
(* compute.                                                                *)

\* A set of natural numbers has a least one.
LEMMA LeastNumber ==
    ASSUME NEW S \in SUBSET Nat, S # {}
    PROVE  \E s \in S : \A u \in S : s <= u
<1> DEFINE Lt == {ss \in Nat \X Nat : ss[1] < ss[2]}
<1>1. IsWellFoundedOn(Lt, Nat)
  BY NatLessThanWellFounded DEF OpToRel
<1>2. PICK s \in S : \A u \in S : ~(<<u, s>> \in Lt)
  BY <1>1, WFMin
<1>3. \A u \in S : <<u, s>> \in Lt <=> u < s
  OBVIOUS
<1> HIDE DEF Lt
<1>4. ASSUME NEW u \in S PROVE s <= u
  <2>1. ~(u < s)
    BY <1>2, <1>3
  <2> QED
    BY <2>1
<1> QED
  BY <1>4

\* The equation that defines the absolute offsets.
AbsEq(chunk, f) ==
    f = [c \in DOMAIN chunk |->
            IF chunk[c].into = 0 THEN 0 ELSE chunk[c].offset + f[chunk[c].into]]

\* It has one solution, since what a chunk was fused into is less deep.
LEMMA AbsoluteIs ==
    ASSUME NEW chunk, NEW f, AbsEq(chunk, f), NEW D \in [DOMAIN chunk -> Nat],
           \A c \in DOMAIN chunk : chunk[c].into # 0 =>
               chunk[c].into \in DOMAIN chunk /\ D[chunk[c].into] < D[c]
    PROVE  Absolute(chunk) = f
<1>1. ASSUME NEW g, AbsEq(chunk, g) PROVE g = f
  <2> DEFINE B == {c \in DOMAIN chunk : g[c] # f[c]}
             S == {D[c] : c \in B}
  <2>1. CASE B = {}
    <3>1. DOMAIN g = DOMAIN chunk /\ DOMAIN f = DOMAIN chunk
      BY <1>1 DEF AbsEq
    <3>2. g = [c \in DOMAIN chunk |-> g[c]] /\ f = [c \in DOMAIN chunk |-> f[c]]
      BY <1>1 DEF AbsEq
    <3> QED
      BY <2>1, <3>1, <3>2
  <2>2. CASE B # {}
    <3>1. S \in SUBSET Nat /\ S # {}
      BY <2>2
    <3> HIDE DEF S
    <3>2. PICK s \in S : \A u \in S : s <= u
      BY <3>1, LeastNumber
    <3>3. PICK c \in B : D[c] = s
      BY DEF S
    <3>4. \A b \in B : D[b] \in S
      BY DEF S
    <3>5. /\ g[c] = IF chunk[c].into = 0 THEN 0 ELSE chunk[c].offset + g[chunk[c].into]
          /\ f[c] = IF chunk[c].into = 0 THEN 0 ELSE chunk[c].offset + f[chunk[c].into]
      BY <1>1 DEF AbsEq
    <3>6. chunk[c].into # 0 /\ g[chunk[c].into] # f[chunk[c].into]
      BY <3>5
    <3>7. chunk[c].into \in B /\ D[chunk[c].into] < D[c]
      BY <3>6
    <3>8. D[c] <= D[chunk[c].into] /\ D[c] \in Nat /\ D[chunk[c].into] \in Nat
      BY <3>2, <3>3, <3>4, <3>7
    <3> QED
      BY <3>7, <3>8
  <2> QED
    BY <2>1, <2>2
<1> DEFINE h == CHOOSE g : AbsEq(chunk, g)
<1>2. AbsEq(chunk, h)
  OBVIOUS
<1>3. Absolute(chunk) = h
  BY Zenon DEF Absolute, AbsEq
<1> QED
  BY <1>1, <1>2, <1>3

\* With one chunk in the list, the absolute offsets are the places of the layout.
LEMMA PlanComputed ==
    ASSUME NEW st, NEW lv, NEW tg, PlanInv(st, lv, tg), st.mTotalSize = 0,
           st.mFreeList # {}, Len(st.list) = 1, ~st.mBarrrier,
           st.mBarrrierFreeChunks = << >>, NEW st2, st2 = Offsets(st)
    PROVE  PlanInv(st2, lv, tg) /\ st2.mTotalSize > 0 /\ st2.mFreeList # {}
<1>1. /\ st \in PlanRec /\ Shape(st.list, st.chunk) /\ LaidOut(st.list, st.chunk, tg)
      /\ FreeListed(st) /\ LiveUsed(st, lv, tg) /\ NotedLive(st, lv)
  BY DEF PlanInv
<1>2. PICK G, R, D, T : Layout(st.list, st.chunk, tg, G, R, D, T)
  BY <1>1 DEF LaidOut
<1>3. PICK ch, li, r : ch = st.chunk /\ li = st.list /\ r = st.list[1]
  OBVIOUS
<1>4. /\ st.list \in Seq(Nat) /\ st.chunk \in Seq(ChunkRec) /\ st.mFreeList \in SUBSET Nat
      /\ st.mBarrrier \in BOOLEAN /\ st.mBarrrierFreeChunks \in Seq(Nat)
      /\ st.mTotalSize \in Nat /\ st.mPtr \in Address \union {NULL}
  BY <1>1 DEF PlanRec
<1>5. DOMAIN li = {1} /\ 1 \in 1 .. 1
  <2>1. DOMAIN st.list = 1 .. 1
    BY <1>4
  <2> QED
    BY <1>3, <2>1
<1>6. /\ r \in DOMAIN ch /\ ch[r].into = 0 /\ ch[r].size \in Nat \ {0}
      /\ \A c \in DOMAIN ch : /\ ch[c].into \in DOMAIN ch \union {0} /\ ch[c].offset \in Nat
                              /\ ch[c].into = 0 => c = r
  <2>1. \A c \in DOMAIN ch : /\ ch[c].into \in DOMAIN ch \union {0} /\ ch[c].offset \in Nat
                             /\ ch[c].size \in Nat \ {0}
                             /\ ch[c].into = 0 => \E i \in DOMAIN li : li[i] = c
    BY <1>1, <1>3, ChunkFacts
  <2>2. \A i \in DOMAIN li : li[i] \in DOMAIN ch /\ ch[li[i]].into = 0
    BY <1>1, <1>3, ChunkFacts
  <2>3. r = li[1] /\ 1 \in DOMAIN li
    BY <1>3, <1>5
  <2> QED
    BY <1>5, <2>1, <2>2, <2>3
<1>7. /\ G \in [DOMAIN ch -> Nat] /\ R \in [DOMAIN ch -> Roots(ch)]
      /\ D \in [DOMAIN ch -> Nat] /\ T \in Nat
      /\ Chain(li, ch, G, T) /\ Tree(ch, G, R, D) /\ Kept(ch, tg, G, R, T)
  BY <1>2, <1>3 DEF Layout
<1>8. G[r] = 0 /\ ch[r].size = T
  <2>1. Line(1, Places(li, G), Sizes(li, ch), T)
    BY <1>3, <1>7 DEF Chain
  <2>2. Places(li, G)[1] = 0 /\ Places(li, G)[1] + Sizes(li, ch)[1] = T
    BY <1>5, <2>1 DEF Line
  <2>3. Places(li, G)[1] = G[r] /\ Sizes(li, ch)[1] = ch[r].size
    BY <1>3, <1>5 DEF Places, Sizes
  <2> QED
    BY <1>6, <2>2, <2>3
<1>9. Absolute(ch) = G
  <2>1. \A c \in DOMAIN ch : ch[c].into # 0 =>
            /\ ch[c].into \in DOMAIN ch /\ D[ch[c].into] < D[c]
            /\ G[c] = ch[c].offset + G[ch[c].into]
    BY <1>6, <1>7 DEF Tree
  <2>2. \A c \in DOMAIN ch : G[c] = IF ch[c].into = 0 THEN 0
                                    ELSE ch[c].offset + G[ch[c].into]
    BY <1>6, <1>8, <2>1
  <2>3. G = [c \in DOMAIN ch |-> G[c]]
    BY <1>7
  <2>4. AbsEq(ch, G)
    BY <2>2, <2>3 DEF AbsEq
  <2> QED
    BY <1>7, <2>1, <2>4, AbsoluteIs
<1>10. PICK c2 : c2 = [c \in DOMAIN ch |-> [ch[c] EXCEPT !.offset = G[c]]]
  OBVIOUS
<1>11. st2 = [st EXCEPT !.mTotalSize = T, !.chunk = c2]
  BY <1>3, <1>8, <1>9, <1>10 DEF Offsets
<1>12. \A c \in DOMAIN ch : ch[c] \in ChunkRec
  BY <1>3, <1>4
<1>13. /\ DOMAIN c2 = DOMAIN ch
       /\ \A c \in DOMAIN ch : /\ c2[c] \in ChunkRec /\ c2[c].into = ch[c].into
                               /\ c2[c].usage = ch[c].usage /\ c2[c].offset = G[c]
  <2>1. ASSUME NEW c \in DOMAIN ch
        PROVE  /\ c2[c] \in ChunkRec /\ c2[c].into = ch[c].into
               /\ c2[c].usage = ch[c].usage /\ c2[c].offset = G[c]
    <3>1. PICK v, g : v = ch[c] /\ g = G[c]
      OBVIOUS
    <3>2. c2[c] = [v EXCEPT !.offset = g] /\ v \in ChunkRec /\ g \in Nat
      BY <1>7, <1>10, <1>12, <3>1
    <3>3. /\ c2[c] \in ChunkRec /\ c2[c].into = v.into
          /\ c2[c].usage = v.usage /\ c2[c].offset = g
      BY <3>2 DEF ChunkRec
    <3> QED
      BY <3>1, <3>3
  <2> QED
    BY <1>10, <2>1
<1>14. c2 \in Seq(ChunkRec)
  <2>1. DOMAIN ch = 1 .. Len(ch) /\ Len(ch) \in Nat
    BY <1>3, <1>4
  <2>2. c2 = [c \in DOMAIN ch |-> c2[c]]
    BY <1>10, <1>13
  <2>3. c2 \in [1 .. Len(ch) -> ChunkRec]
    BY <1>13, <2>1, <2>2
  <2> QED
    BY <2>1, <2>3
<1>15. /\ st2.list = st.list /\ st2.chunk = c2 /\ st2.mFreeList = st.mFreeList
       /\ st2.mBarrrier = st.mBarrrier /\ st2.mBarrrierFreeChunks = st.mBarrrierFreeChunks
       /\ st2.mTotalSize = T /\ st2 \in PlanRec
  BY <1>1, <1>7, <1>11, <1>14 DEF PlanRec
<1>16. \A c : c \in Roots(c2) <=> c \in Roots(ch)
  BY <1>13 DEF Roots
<1>17. Roots(c2) = Roots(ch)
  BY <1>16
<1>18. Shape(st2.list, st2.chunk)
  BY <1>1, <1>3, <1>13, <1>14, <1>15, <1>17 DEF Shape
<1>19. FreeListed(st2)
  <2>1. \A d : d \in st2.mFreeList <=> d \in {c \in Roots(st2.chunk) : ~st2.chunk[c].usage}
    <3> TAKE d
    <3>1. d \in st2.mFreeList <=> d \in {c \in Roots(ch) : ~ch[c].usage}
      BY <1>1, <1>3, <1>15, Zenon DEF FreeListed
    <3>2. d \in Roots(ch) => c2[d].usage = ch[d].usage
      BY <1>13 DEF Roots
    <3> QED
      BY <1>15, <1>17, <3>1, <3>2, Zenon
  <2>2. st2.mFreeList = {c \in Roots(st2.chunk) : ~st2.chunk[c].usage}
    BY <2>1
  <2>3. \A i, j \in DOMAIN st2.list : j # i + 1
    BY <1>3, <1>5, <1>15
  <2> QED
    BY <2>2, <2>3, Zenon DEF FreeListed
<1>20. lv = {}
  <2>1. st.mFreeList = {c \in Roots(ch) : ~ch[c].usage}
    BY <1>1, <1>3, Zenon DEF FreeListed
  <2>2. \A c \in Roots(ch) : c = r
    BY <1>6 DEF Roots
  <2>3. PICK c \in st.mFreeList : TRUE
    OBVIOUS
  <2>4. ~ch[r].usage
    BY <2>1, <2>2, <2>3, Zenon
  <2>5. \A x \in lv : x[1] \in Roots(ch) /\ ch[x[1]].usage
    BY <1>1, <1>3, Zenon DEF LiveUsed
  <2>6. \A x \in lv : FALSE
    BY <2>2, <2>4, <2>5, Zenon
  <2> QED
    BY <2>6
<1>21. LiveUsed(st2, lv, tg)
  <2>1. ASSUME NEW d \in Roots(st2.chunk), st2.chunk[d].usage PROVE \E x \in lv : x[1] = d
    <3>1. d \in Roots(ch) /\ c2[d].usage = ch[d].usage /\ st2.chunk = c2
      BY <1>13, <1>15, <1>17 DEF Roots
    <3>2. d \in Roots(st.chunk) /\ st.chunk[d].usage
      BY <1>3, <2>1, <3>1, Zenon
    <3> QED
      BY <1>1, <3>2, Zenon DEF LiveUsed
  <2>2. \A x \in lv : FALSE
    BY <1>20
  <2> QED
    BY <2>1, <2>2, Zenon DEF LiveUsed
<1>22. NotedLive(st2, lv)
  BY <1>1, <1>15 DEF NotedLive
<1>23. Computed(st2, tg)
  <2>1. /\ \A x \in UNION tg : /\ x[1] \in DOMAIN ch /\ x[2] \in Nat /\ G[x[1]] + x[2] <= T
        /\ \A pair \in tg : \A x, y \in pair : x # y => (R[x[1]] = R[y[1]] => Apart(G, x, y))
    BY <1>7 DEF Kept
  <2>2. \A c \in DOMAIN ch : R[c] = r
    BY <1>6, <1>7 DEF Roots
  <2>3. \A c \in DOMAIN ch : st2.chunk[c].offset = G[c]
    BY <1>13, <1>15
  <2>4. ASSUME NEW pair \in tg, NEW x \in pair, NEW y \in pair
        PROVE  /\ st2.chunk[x[1]].offset + x[2] <= st2.mTotalSize
               /\ x # y => \/ st2.chunk[x[1]].offset + x[2] <= st2.chunk[y[1]].offset
                           \/ st2.chunk[y[1]].offset + y[2] <= st2.chunk[x[1]].offset
    <3>1. x \in UNION tg /\ y \in UNION tg
      OBVIOUS
    <3>2. x[1] \in DOMAIN ch /\ y[1] \in DOMAIN ch /\ G[x[1]] + x[2] <= T
      BY <2>1, <3>1
    <3>3. st2.chunk[x[1]].offset = G[x[1]] /\ st2.chunk[y[1]].offset = G[y[1]]
      BY <2>3, <3>2
    <3>4. x # y => Apart(G, x, y)
      BY <2>1, <2>2, <3>2
    <3> QED
      BY <1>15, <3>2, <3>3, <3>4 DEF Apart
  <2> QED
    BY <2>4 DEF Computed
<1>24. T > 0
  BY <1>6, <1>8
<1>25. ~st2.mBarrrier /\ st2.mBarrrierFreeChunks = << >> /\ st2.mFreeList # {}
  BY <1>15
<1> QED
  BY <1>15, <1>18, <1>19, <1>20, <1>21, <1>22, <1>23, <1>24, <1>25 DEF PlanInv

-----------------------------------------------------------------------------
(* The specification.                                                      *)

\* Other members than the chunks, the free list and the total size are changed.
LEMMA PlanNoted ==
    ASSUME NEW st, NEW lv, NEW tg, PlanInv(st, lv, tg), NEW st2 \in PlanRec,
           st2.list = st.list, st2.chunk = st.chunk, st2.mFreeList = st.mFreeList,
           st2.mTotalSize = st.mTotalSize, NotedLive(st2, lv),
           \/ st.mTotalSize = 0
           \/ /\ st2.mBarrrier = st.mBarrrier
              /\ st2.mBarrrierFreeChunks = st.mBarrrierFreeChunks
    PROVE  PlanInv(st2, lv, tg)
<1>1. FreeListed(st2)
  BY Zenon DEF PlanInv, FreeListed
<1>2. LiveUsed(st2, lv, tg)
  BY Zenon DEF PlanInv, LiveUsed
<1>3. Shape(st2.list, st2.chunk)
  BY DEF PlanInv
<1>4. st2.mTotalSize = 0 => LaidOut(st2.list, st2.chunk, tg)
  BY DEF PlanInv
<1>5. st2.mTotalSize > 0 => /\ Computed(st2, tg) /\ lv = {} /\ st2.mFreeList # {}
                            /\ ~st2.mBarrrier /\ st2.mBarrrierFreeChunks = << >>
  <2> HAVE st2.mTotalSize > 0
  <2>1. st.mTotalSize > 0 /\ ~(st.mTotalSize = 0)
    OBVIOUS
  <2>2. /\ Computed(st, tg) /\ lv = {} /\ st.mFreeList # {}
        /\ ~st.mBarrrier /\ st.mBarrrierFreeChunks = << >>
    BY <2>1, Zenon DEF PlanInv
  <2>3. Computed(st2, tg)
    BY <2>2 DEF Computed
  <2> QED
    BY <2>1, <2>2, <2>3, Zenon
<1> QED
  BY <1>1, <1>2, <1>3, <1>4, <1>5, Zenon DEF PlanInv

\* A plan that was not begun.
LEMMA PlanEmpty == EmptyPlan \in PlanRec /\ PlanInv(EmptyPlan, {}, {})
<1>1. EmptyPlan \in PlanRec
  BY DEF EmptyPlan, PlanRec, ChunkRec, NULL
<1>2. PICK st : st = EmptyPlan
  OBVIOUS
<1>3. /\ st.list = << >> /\ st.chunk = << >> /\ st.mFreeList = {}
      /\ st.mBarrrierFreeChunks = << >> /\ st.mTotalSize = 0
  BY <1>2 DEF EmptyPlan
<1>4. \A s : s = << >> => DOMAIN s = {} /\ Len(s) = 0
  OBVIOUS
<1>5. Roots(st.chunk) = {}
  BY <1>3, <1>4 DEF Roots
<1>6. Shape(st.list, st.chunk)
  BY <1>3, <1>4, <1>5 DEF Shape, ToSet, IsInjective
<1>7. FreeListed(st)
  <2>1. \A i, j \in DOMAIN st.list : FALSE
    BY <1>3, <1>4
  <2>2. st.mFreeList = {c \in Roots(st.chunk) : ~st.chunk[c].usage}
    BY <1>3, <1>5
  <2> QED
    BY <2>1, <2>2, Zenon DEF FreeListed
<1>8. LiveUsed(st, {}, {}) /\ NotedLive(st, {})
  BY <1>3, <1>4, <1>5 DEF LiveUsed, NotedLive, IsInjective
<1>9. LaidOut(st.list, st.chunk, {})
  <2>1. PICK e : e = [c \in {} |-> 0]
    OBVIOUS
  <2>2. /\ e \in [DOMAIN st.chunk -> Nat] /\ e \in [DOMAIN st.chunk -> Roots(st.chunk)]
    BY <1>3, <1>4, <2>1
  <2>3. Chain(st.list, st.chunk, e, 0)
    BY <1>3, <1>4 DEF Chain, Line
  <2>4. Tree(st.chunk, e, e, e)
    BY <1>3, <1>4 DEF Tree
  <2>5. Kept(st.chunk, {}, e, e, 0)
    BY DEF Kept
  <2>6. Layout(st.list, st.chunk, {}, e, e, e, 0)
    BY <2>2, <2>3, <2>4, <2>5 DEF Layout
  <2> QED
    BY <2>6 DEF LaidOut
<1>10. PlanInv(st, {}, {})
  BY <1>1, <1>2, <1>3, <1>6, <1>7, <1>8, <1>9 DEF PlanInv
<1> QED
  BY <1>1, <1>2, <1>10

Plans ==
    /\ plan \in [Allocator -> PlanRec]
    /\ live = [a \in Allocator |-> live[a]] /\ together = [a \in Allocator |-> together[a]]
    /\ \A a \in Allocator : PlanInv(plan[a], live[a], together[a])

Types ==
    /\ config \in Config
    /\ buffer \in [current : Address \union {NULL}, currentSize : Nat, real : Nat]
    /\ code \in [Allocator -> {"NO_ERROR", "OUT_OF_MEMORY", "INVALID_VALUE"}]
    /\ bound \in Allocator \union {NoAllocator}

\* As long as root->onAlloc answers, the buffer has the size it is said to have, and
\* the plan that was applied last fits.
Fits ==
    ~config.OnAllocFails =>
        /\ buffer.real = buffer.currentSize
        /\ buffer.currentSize > 0 => buffer.current # NULL
        /\ bound # NoAllocator => /\ plan[bound].mTotalSize > 0
                                  /\ plan[bound].mPtr = buffer.current
                                  /\ plan[bound].mTotalSize <= buffer.real

IInv == Types /\ Plans /\ Fits

\* A step on the plan of one allocator leaves those of the others.
LEMMA PlansStep ==
    ASSUME Plans, NEW a \in Allocator, NEW st, NEW lv, NEW tg,
           plan' = [plan EXCEPT ![a] = st], live' = [live EXCEPT ![a] = lv],
           together' = [together EXCEPT ![a] = tg], PlanInv(st, lv, tg)
    PROVE  Plans'
<1>1. st \in PlanRec
  BY DEF PlanInv
<1>2. plan' \in [Allocator -> PlanRec]
  BY <1>1 DEF Plans
<1>3. /\ live' = [b \in Allocator |-> IF b = a THEN lv ELSE live[b]]
      /\ together' = [b \in Allocator |-> IF b = a THEN tg ELSE together[b]]
  BY DEF Plans
<1>4. \A b \in Allocator : PlanInv(plan'[b], live'[b], together'[b])
  <2> TAKE b \in Allocator
  <2>1. CASE b = a
    <3>1. plan'[b] = st /\ live'[b] = lv /\ together'[b] = tg
      BY <1>3, <2>1 DEF Plans
    <3> QED
      BY <3>1
  <2>2. CASE b # a
    <3>1. plan'[b] = plan[b] /\ live'[b] = live[b] /\ together'[b] = together[b]
      BY <1>3, <2>2 DEF Plans
    <3>2. PlanInv(plan[b], live[b], together[b])
      BY DEF Plans
    <3> QED
      BY <3>1, <3>2
  <2> QED
    BY <2>1, <2>2
<1>5. /\ live' = [b \in Allocator |-> live'[b]]
      /\ together' = [b \in Allocator |-> together'[b]]
  BY <1>3
<1> QED
  BY <1>2, <1>4, <1>5 DEF Plans

\* A request is not empty, rounded up or not.
LEMMA UpToPositive ==
    ASSUME NEW x \in Nat \ {0}, NEW a \in Nat \ {0}
    PROVE  UpTo(x, a) \in Nat \ {0}
<1>1. UpTo(x, a) \in Nat /\ UpTo(x, a) >= x
  BY DEF UpTo
<1> QED
  BY <1>1

\* While a plan is built it is not bound.
LEMMA FitsPlanning ==
    ASSUME IInv, NEW a \in Allocator, Planning(a), NEW st,
           plan' = [plan EXCEPT ![a] = st], UNCHANGED <<config, buffer>>,
           bound' = bound \/ bound' = NoAllocator
    PROVE  Fits'
<1> SUFFICES ASSUME ~config.OnAllocFails PROVE
        /\ buffer'.real = buffer'.currentSize
        /\ buffer'.currentSize > 0 => buffer'.current # NULL
        /\ bound' # NoAllocator => /\ plan'[bound'].mTotalSize > 0
                                   /\ plan'[bound'].mPtr = buffer'.current
                                   /\ plan'[bound'].mTotalSize <= buffer'.real
  BY DEF Fits
<1>1. /\ buffer.real = buffer.currentSize
      /\ buffer.currentSize > 0 => buffer.current # NULL
  BY DEF IInv, Fits
<1>2. ASSUME bound' # NoAllocator
      PROVE  /\ plan'[bound'].mTotalSize > 0
             /\ plan'[bound'].mPtr = buffer'.current
             /\ plan'[bound'].mTotalSize <= buffer'.real
  <2>1. bound' = bound /\ bound # NoAllocator /\ bound \in Allocator
    BY <1>2 DEF IInv, Types
  <2>2. /\ plan[bound].mTotalSize > 0
        /\ plan[bound].mPtr = buffer.current
        /\ plan[bound].mTotalSize <= buffer.real
    BY <2>1 DEF IInv, Fits
  <2>3. bound # a
    BY <2>2 DEF Planning
  <2>4. plan'[bound] = plan[bound]
    BY <2>1, <2>3 DEF IInv, Plans
  <2> QED
    BY <2>1, <2>2, <2>4
<1> QED
  BY <1>1, <1>2

\* A step that only touches the plan of an allocator that still builds it.
LEMMA PlanningStep ==
    ASSUME IInv, NEW a \in Allocator, Planning(a), NEW st, NEW lv, NEW tg,
           plan' = [plan EXCEPT ![a] = st], live' = [live EXCEPT ![a] = lv],
           together' = [together EXCEPT ![a] = tg], PlanInv(st, lv, tg),
           UNCHANGED <<config, buffer, code>>, bound' = bound \/ bound' = NoAllocator
    PROVE  IInv'
<1>1. Plans'
  BY PlansStep DEF IInv
<1>2. Fits'
  BY FitsPlanning
<1>3. Types'
  BY DEF IInv, Types
<1> QED
  BY <1>1, <1>2, <1>3 DEF IInv

\* alloc
LEMMA AllocStep ==
    ASSUME IInv, UNCHANGED config, NEW a \in Allocator, NEW size \in config.Size,
           NEW separate \in BOOLEAN, Alloc(a, size, separate)
    PROVE  IInv'
<1>1. PICK n, st, lv, tg, Y :
          /\ n = UpTo(size, mAlign) /\ st = plan[a] /\ lv = live[a] /\ tg = together[a]
          /\ Y = lv \union (IF separate THEN UNION tg ELSE {})
  OBVIOUS
<1>2. PICK r \in AllocResults(plan[a], UpTo(size, mAlign), separate) :
          LET x == <<r.c, UpTo(size, mAlign)>>
          IN  /\ plan' = [plan EXCEPT ![a] = r.st]
              /\ live' = [live EXCEPT ![a] = @ \union {x}]
              /\ together' = [together EXCEPT ![a] =
                                 @ \union {{x, y} : y \in live[a] \union {x} \union
                                                 (IF separate THEN UNION @ ELSE {})}]
  BY Zenon DEF Alloc
<1>3. PICK x : x = <<r.c, n>> /\ r \in AllocResults(st, n, separate)
  BY <1>1
<1>4. n \in Nat \ {0}
  <2>1. size \in Nat \ {0} /\ mAlign \in Nat \ {0}
    BY DeferAssumption DEF IInv, Types, mAlign
  <2> QED
    BY <1>1, <2>1, UpToPositive
<1>5. PlanInv(st, lv, tg) /\ st.mTotalSize = 0
  BY <1>1 DEF IInv, Plans, Alloc, Planning
<1>6. PlanInv(r.st, lv \union {x}, tg \union Pairs(x, Y))
  BY <1>1, <1>3, <1>4, <1>5, PlanAlloc
<1>7. live' = [live EXCEPT ![a] = lv \union {x}]
  BY <1>1, <1>2, <1>3
<1>8. together' = [together EXCEPT ![a] = tg \union Pairs(x, Y)]
  <2>1. live[a] \union {x} \union (IF separate THEN UNION tg ELSE {}) = Y \union {x}
    BY <1>1
  <2>2. {{x, y} : y \in live[a] \union {x} \union (IF separate THEN UNION tg ELSE {})} = Pairs(x, Y)
    BY <2>1 DEF Pairs
  <2>3. together' = [together EXCEPT ![a] =
            tg \union {{x, y} : y \in live[a] \union {x} \union
                                  (IF separate THEN UNION tg ELSE {})}]
    BY <1>1, <1>2, <1>3
  <2> QED
    BY <2>2, <2>3
<1>9. /\ Planning(a) /\ UNCHANGED <<buffer, code>>
      /\ bound' = bound \/ bound' = NoAllocator
  BY DEF Alloc
<1> QED
  BY <1>2, <1>6, <1>7, <1>8, <1>9, PlanningStep

\* free
LEMMA FreeStep ==
    ASSUME IInv, UNCHANGED config, NEW a \in Allocator, NEW y \in live[a], Free(a, y[1])
    PROVE  IInv'
<1>1. PICK st, lv, tg, c :
          /\ st = plan[a] /\ lv = live[a] /\ tg = together[a] /\ c = y[1]
  OBVIOUS
<1>2. PlanInv(st, lv, tg) /\ st.mTotalSize = 0 /\ st \in PlanRec /\ Planning(a)
  BY <1>1 DEF IInv, Plans, Free, Planning
<1>3. \A i \in DOMAIN st.mBarrrierFreeChunks : st.mBarrrierFreeChunks[i] # c
  BY <1>1 DEF Free, Waiting, ToSet
<1>4. /\ together' = [together EXCEPT ![a] = tg]
      /\ UNCHANGED <<buffer, code, bound>>
  BY <1>1 DEF Free, IInv, Plans
<1>5. CASE st.mBarrrier
  <2>1. PICK q, st2 : /\ q = Append(st.mBarrrierFreeChunks, c)
                      /\ st2 = [st EXCEPT !.mBarrrierFreeChunks = q]
    OBVIOUS
  <2>2. plan' = [plan EXCEPT ![a] = st2]
    BY <1>1, <1>5, <2>1 DEF Free
  <2>3. live' = [live EXCEPT ![a] = lv]
    BY <1>1, <1>5 DEF Free, IInv, Plans
  <2>4. c \in Nat
    <3>1. /\ c \in Roots(st.chunk)
      BY <1>1, <1>2 DEF PlanInv, LiveUsed
    <3> QED
      BY <1>2, <3>1 DEF Roots, PlanRec
  <2>5. st.mBarrrierFreeChunks \in Seq(Nat)
    BY <1>2 DEF PlanRec
  <2>6. PICK s, m : s = st.mBarrrierFreeChunks /\ m = Len(s)
    OBVIOUS
  <2>7. /\ q \in Seq(Nat) /\ Len(q) = m + 1 /\ m \in Nat
        /\ \A i \in 1 .. m : q[i] = s[i]
        /\ q[m + 1] = c
    BY <2>1, <2>4, <2>5, <2>6, AppendProperties
  <2>8. DOMAIN q = 1 .. m + 1 /\ DOMAIN s = 1 .. m
    BY <2>5, <2>6, <2>7
  <2>9. \A i \in 1 .. m + 1 : i \in 1 .. m \/ i = m + 1
    BY <2>7
  <2>10. IsInjective(s) /\ \A i \in DOMAIN s : \E x \in lv : x[1] = s[i]
    BY <1>2, <2>6 DEF PlanInv, NotedLive
  <2>11. IsInjective(q)
    <3>1. \A i, j \in 1 .. m : s[i] = s[j] => i = j
      BY <2>8, <2>10 DEF IsInjective
    <3>2. \A i \in 1 .. m : s[i] # c
      BY <1>3, <2>6, <2>8
    <3> QED
      BY <2>7, <2>8, <2>9, <3>1, <3>2 DEF IsInjective
  <2>12. \A i \in DOMAIN q : \E x \in lv : x[1] = q[i]
    BY <1>1, <2>7, <2>8, <2>9, <2>10
  <2>13. /\ st2 \in PlanRec /\ st2.list = st.list /\ st2.chunk = st.chunk
         /\ st2.mFreeList = st.mFreeList /\ st2.mTotalSize = st.mTotalSize
         /\ st2.mBarrrierFreeChunks = q
    <3>1. st2 \in PlanRec
      BY <1>2, <2>1, <2>7 DEF PlanRec
    <3> QED
      BY <1>2, <2>1, <3>1 DEF PlanRec
  <2>14. NotedLive(st2, lv)
    BY <2>11, <2>12, <2>13 DEF NotedLive
  <2>15. PlanInv(st2, lv, tg)
    BY <1>2, <2>13, <2>14, PlanNoted
  <2> QED
    BY <1>2, <1>4, <2>2, <2>3, <2>15, PlanningStep
<1>6. CASE ~st.mBarrrier
  <2>1. /\ plan' = [plan EXCEPT ![a] = FreeNow(st, c)]
        /\ live' = [live EXCEPT ![a] = Without(lv, c)]
    BY <1>1, <1>6 DEF Free, Without
  <2>2. PlanInv(FreeNow(st, c), Without(lv, c), tg)
    <3>1. y \in lv /\ c = y[1]
      BY <1>1
    <3> QED
      BY <1>2, <1>3, <3>1, PlanFree
  <2> QED
    BY <1>2, <1>4, <2>1, <2>2, PlanningStep
<1> QED
  BY <1>5, <1>6

\* barrierBegin, and barrierEnd up to its loop
LEMMA BarrierStep ==
    ASSUME IInv, UNCHANGED config, NEW a \in Allocator, BarrierBegin(a) \/ BarrierEnd(a)
    PROVE  IInv'
<1>1. PICK st, lv, tg : st = plan[a] /\ lv = live[a] /\ tg = together[a]
  OBVIOUS
<1>2. PlanInv(st, lv, tg) /\ st \in PlanRec
  BY <1>1 DEF IInv, Plans
<1>3. PICK b \in BOOLEAN : plan' = [plan EXCEPT ![a].mBarrrier = b]
  BY DEF BarrierBegin, BarrierEnd
<1>4. PICK st2 : st2 = [st EXCEPT !.mBarrrier = b]
  OBVIOUS
<1>5. plan' = [plan EXCEPT ![a] = st2]
  BY <1>1, <1>3, <1>4
<1>6. st.mTotalSize = 0 /\ Planning(a)
  <2>1. CASE BarrierBegin(a)
    BY <1>1, <2>1 DEF BarrierBegin, Planning
  <2>2. CASE BarrierEnd(a)
    <3>1. st.mBarrrier
      BY <1>1, <2>2 DEF BarrierEnd
    <3>2. ~(st.mTotalSize > 0)
      BY <1>2, <3>1, Zenon DEF PlanInv
    <3>3. st.mTotalSize \in Nat
      BY <1>2 DEF PlanRec
    <3> QED
      BY <1>1, <3>2, <3>3 DEF Planning
  <2> QED
    BY <2>1, <2>2
<1>7. st2 \in PlanRec
  BY <1>2, <1>4 DEF PlanRec
<1>8. /\ st2.list = st.list /\ st2.chunk = st.chunk /\ st2.mFreeList = st.mFreeList
      /\ st2.mTotalSize = st.mTotalSize /\ st2.mBarrrierFreeChunks = st.mBarrrierFreeChunks
  BY <1>2, <1>4 DEF PlanRec
<1>9. NotedLive(st2, lv)
  BY <1>2, <1>8 DEF PlanInv, NotedLive
<1>10. PlanInv(st2, lv, tg)
  BY <1>2, <1>6, <1>7, <1>8, <1>9, PlanNoted
<1>11. /\ live' = [live EXCEPT ![a] = lv] /\ together' = [together EXCEPT ![a] = tg]
       /\ UNCHANGED <<buffer, code, bound>>
  BY <1>1 DEF BarrierBegin, BarrierEnd, IInv, Plans
<1> QED
  BY <1>5, <1>6, <1>10, <1>11, PlanningStep

\* One turn of the loop of barrierEnd.
LEMMA BarrierFreeStep ==
    ASSUME IInv, UNCHANGED config, NEW a \in Allocator, BarrierFree(a)
    PROVE  IInv'
<1>1. PICK st, lv, tg, s, c, q, st1 :
          /\ st = plan[a] /\ lv = live[a] /\ tg = together[a]
          /\ s = st.mBarrrierFreeChunks /\ c = Head(s) /\ q = Tail(s)
          /\ st1 = [st EXCEPT !.mBarrrierFreeChunks = q]
  OBVIOUS
<1>2. PlanInv(st, lv, tg) /\ st \in PlanRec
  BY <1>1 DEF IInv, Plans
<1>3. s \in Seq(Nat) /\ s # << >>
  BY <1>1, <1>2 DEF PlanRec, BarrierFree, Closing
<1>4. PICK m : m = Len(s)
  OBVIOUS
<1>5. m \in Nat \ {0} /\ DOMAIN s = 1 .. m /\ c = s[1] /\ c \in Nat
  BY <1>1, <1>3, <1>4
<1>6. q \in Seq(Nat) /\ Len(q) = m - 1 /\ \A i \in 1 .. m - 1 : q[i] = s[i + 1]
  <2>1. q \in Seq(Nat) /\ Len(q) = Len(s) - 1
    BY <1>1, <1>3
  <2>2. \A i \in 1 .. Len(q) : q[i] = s[i + 1]
    BY <1>1, <1>3
  <2> QED
    BY <1>4, <2>1, <2>2
<1>7. DOMAIN q = 1 .. m - 1 /\ \A i \in 1 .. m - 1 : i + 1 \in 1 .. m /\ i + 1 # 1
  BY <1>5, <1>6
<1>8. /\ \A i, j \in 1 .. m : s[i] = s[j] => i = j
      /\ \A i \in 1 .. m : \E x \in lv : x[1] = s[i]
  BY <1>1, <1>2, <1>5 DEF PlanInv, NotedLive, IsInjective
<1>9. \A i \in DOMAIN q : q[i] # c
  BY <1>5, <1>6, <1>7, <1>8
<1>10. IsInjective(q)
  <2>1. ASSUME NEW i \in 1 .. m - 1, NEW j \in 1 .. m - 1, q[i] = q[j] PROVE i = j
    <3>1. i + 1 \in 1 .. m /\ j + 1 \in 1 .. m
      BY <1>7
    <3>2. s[i + 1] = s[j + 1]
      BY <1>6, <2>1
    <3>3. i + 1 = j + 1
      BY <1>8, <3>1, <3>2, Zenon
    <3> QED
      BY <3>3
  <2> QED
    BY <1>7, <2>1 DEF IsInjective
<1>11. \A i \in DOMAIN q : \E x \in lv : x[1] = q[i]
  BY <1>6, <1>7, <1>8
<1>12. st1 \in PlanRec
  BY <1>1, <1>2, <1>6 DEF PlanRec
<1>13. /\ st1.list = st.list /\ st1.chunk = st.chunk /\ st1.mFreeList = st.mFreeList
       /\ st1.mTotalSize = st.mTotalSize /\ st1.mBarrrierFreeChunks = q
  BY <1>1, <1>2 DEF PlanRec
<1>14. NotedLive(st1, lv)
  BY <1>10, <1>11, <1>13 DEF NotedLive
<1>15. st.mTotalSize = 0 /\ Planning(a)
  <2>1. ~(st.mTotalSize > 0)
    BY <1>1, <1>2, <1>3, Zenon DEF PlanInv
  <2>2. st.mTotalSize \in Nat
    BY <1>2 DEF PlanRec
  <2> QED
    BY <1>1, <2>1, <2>2 DEF Planning
<1>16. PlanInv(st1, lv, tg)
  BY <1>2, <1>12, <1>13, <1>14, <1>15, PlanNoted
<1>17. PICK y \in lv : y[1] = c
  BY <1>5, <1>8
<1>18. PICK st2 : st2 = FreeNow(st1, c)
  OBVIOUS
<1>19. PlanInv(st2, Without(lv, c), tg)
  <2>1. \A i \in DOMAIN st1.mBarrrierFreeChunks : st1.mBarrrierFreeChunks[i] # c
    BY <1>9, <1>13
  <2>2. st1.mTotalSize = 0
    BY <1>13, <1>15
  <2> QED
    BY <1>16, <1>17, <1>18, <2>1, <2>2, PlanFree
<1>20. /\ plan' = [plan EXCEPT ![a] = FreeNow([plan[a] EXCEPT !.mBarrrierFreeChunks = Tail(@)],
                                              Head(plan[a].mBarrrierFreeChunks))]
       /\ live' = [live EXCEPT ![a] = {x \in @ : x[1] # Head(plan[a].mBarrrierFreeChunks)}]
       /\ UNCHANGED <<buffer, code, bound, together>>
  BY DEF BarrierFree
<1>21. plan' = [plan EXCEPT ![a] = st2]
  BY <1>1, <1>18, <1>20
<1>22. live' = [live EXCEPT ![a] = Without(lv, c)]
  BY <1>1, <1>20 DEF Without
<1>23. together' = [together EXCEPT ![a] = tg]
  BY <1>1, <1>20 DEF IInv, Plans
<1> QED
  BY <1>15, <1>19, <1>20, <1>21, <1>22, <1>23, PlanningStep

\* What holds of the buffer after a step that does not touch the plan of the
\* allocator that is bound.
LEMMA FitsElsewhere ==
    ASSUME IInv, UNCHANGED <<config, buffer>>,
           bound' = NoAllocator \/ (bound' = bound /\ (bound \in Allocator => plan'[bound] = plan[bound]))
    PROVE  Fits'
BY DEF IInv, Fits, Types

\* reset
LEMMA ResetStep ==
    ASSUME IInv, UNCHANGED config, NEW a \in Allocator, Reset(a)
    PROVE  IInv'
<1>1. /\ plan' = [plan EXCEPT ![a] = EmptyPlan] /\ live' = [live EXCEPT ![a] = {}]
      /\ together' = [together EXCEPT ![a] = {}]
      /\ bound' = IF bound = a THEN NoAllocator ELSE bound
      /\ UNCHANGED <<buffer, code>>
  BY DEF Reset
<1>2. Plans'
  BY <1>1, PlanEmpty, PlansStep DEF IInv
<1>3. Fits'
  <2>1. bound # a /\ bound \in Allocator => plan'[bound] = plan[bound]
    BY <1>1 DEF IInv, Plans
  <2> QED
    BY <1>1, <2>1, FitsElsewhere
<1>4. Types'
  BY <1>1 DEF IInv, Types
<1> QED
  BY <1>2, <1>3, <1>4 DEF IInv

\* apply binds the plan to the buffer: it fits there, unless root->onAlloc failed.
LEMMA ApplyToStep ==
    ASSUME IInv, UNCHANGED config, NEW a \in Allocator, NEW st,
           PlanInv(st, live[a], together[a]), st.mTotalSize > 0, st.mFreeList # {},
           ApplyTo(a, st), UNCHANGED <<live, together>>
    PROVE  IInv'
<1>1. PICK r \in ApplyResults(st) :
          /\ buffer' = r.buffer /\ code' = [code EXCEPT ![a] = r.code]
          /\ plan' = [plan EXCEPT ![a] = [st EXCEPT !.mPtr = r.mPtr]]
          /\ bound' = IF r.code = "NO_ERROR" /\ st.mFreeList # {} THEN a ELSE NoAllocator
  BY DEF ApplyTo, ApplyBinding
<1>2. PICK n : n = st.mTotalSize
  OBVIOUS
<1>3. PICK q \in ReallocResults(n) :
          /\ r.buffer = q.buffer /\ r.code = q.code
          /\ r.mPtr = IF q.code = "NO_ERROR" THEN q.buffer.current ELSE st.mPtr
  BY <1>1, <1>2 DEF ApplyResults
<1>4. \/ buffer.currentSize >= n /\ q.buffer = buffer /\ q.code = "NO_ERROR"
      \/ /\ q.code = "NO_ERROR"
         /\ \E p \in Address : q.buffer = [current |-> p, currentSize |-> n, real |-> n]
      \/ /\ config.OnAllocFails /\ q.code = "OUT_OF_MEMORY"
         /\ q.buffer = [buffer EXCEPT !.current = NULL, !.real = 0]
  BY <1>3 DEF ReallocResults
<1>5. st \in PlanRec /\ n \in Nat /\ n > 0
  BY <1>2 DEF PlanInv, PlanRec
<1>6. buffer \in [current : Address \union {NULL}, currentSize : Nat, real : Nat]
  BY DEF IInv, Types
<1>7. /\ q.buffer \in [current : Address \union {NULL}, currentSize : Nat, real : Nat]
      /\ q.code \in {"NO_ERROR", "OUT_OF_MEMORY", "INVALID_VALUE"}
  <2>1. \/ q.code = "NO_ERROR" /\ q.buffer = buffer
        \/ /\ q.code = "NO_ERROR"
           /\ \E p \in Address : q.buffer = [current |-> p, currentSize |-> n, real |-> n]
        \/ q.code = "OUT_OF_MEMORY" /\ q.buffer = [buffer EXCEPT !.current = NULL, !.real = 0]
    BY <1>4, Zenon
  <2>2. CASE q.code = "NO_ERROR" /\ q.buffer = buffer
    BY <1>6, <2>2
  <2>3. ASSUME q.code = "NO_ERROR", NEW p \in Address,
               q.buffer = [current |-> p, currentSize |-> n, real |-> n]
        PROVE  /\ q.buffer \in [current : Address \union {NULL}, currentSize : Nat, real : Nat]
               /\ q.code \in {"NO_ERROR", "OUT_OF_MEMORY", "INVALID_VALUE"}
    BY <1>5, <2>3
  <2>4. CASE q.code = "OUT_OF_MEMORY" /\ q.buffer = [buffer EXCEPT !.current = NULL, !.real = 0]
    <3>1. PICK m : m = [buffer EXCEPT !.current = NULL]
      OBVIOUS
    <3>2. m \in [current : Address \union {NULL}, currentSize : Nat, real : Nat]
      BY <1>6, <3>1
    <3>3. q.buffer = [m EXCEPT !.real = 0]
      BY <2>4, <3>1
    <3>4. q.buffer \in [current : Address \union {NULL}, currentSize : Nat, real : Nat]
      BY <3>2, <3>3
    <3> QED
      BY <2>4, <3>4
  <2> QED
    BY <2>1, <2>2, <2>3, <2>4, Zenon
<1>8. PICK st2 : st2 = [st EXCEPT !.mPtr = r.mPtr]
  OBVIOUS
<1>9. r.mPtr \in Address \union {NULL}
  BY <1>3, <1>5, <1>7 DEF PlanRec
<1>10. /\ st2 \in PlanRec /\ st2.mPtr = r.mPtr /\ st2.mTotalSize = n
       /\ st2.list = st.list /\ st2.chunk = st.chunk /\ st2.mFreeList = st.mFreeList
       /\ st2.mBarrrier = st.mBarrrier /\ st2.mBarrrierFreeChunks = st.mBarrrierFreeChunks
  <2>1. PICK p \in Address \union {NULL} : p = r.mPtr
    BY <1>9
  <2>2. st2 = [st EXCEPT !.mPtr = p]
    BY <1>8, <2>1
  <2>3. st2 \in PlanRec
    BY <1>5, <2>2 DEF PlanRec
  <2>4. /\ st2.mPtr = p /\ st2.mTotalSize = st.mTotalSize
        /\ st2.list = st.list /\ st2.chunk = st.chunk /\ st2.mFreeList = st.mFreeList
        /\ st2.mBarrrier = st.mBarrrier /\ st2.mBarrrierFreeChunks = st.mBarrrierFreeChunks
    BY <1>5, <2>2 DEF PlanRec
  <2> QED
    BY <1>2, <2>1, <2>3, <2>4
<1>11. NotedLive(st2, live[a])
  BY <1>10 DEF PlanInv, NotedLive
<1>12. PlanInv(st2, live[a], together[a])
  BY <1>2, <1>10, <1>11, PlanNoted
<1>13. Plans'
  <2>1. plan' = [plan EXCEPT ![a] = st2]
    BY <1>1, <1>8
  <2>2. live' = [live EXCEPT ![a] = live[a]] /\ together' = [together EXCEPT ![a] = together[a]]
    BY DEF IInv, Plans
  <2> QED
    BY <1>12, <2>1, <2>2, PlansStep DEF IInv
<1>14. Types'
  BY <1>1, <1>3, <1>7 DEF IInv, Types
<1>15. plan'[a] = st2
  BY <1>1, <1>8 DEF IInv, Plans
<1>16. Fits'
  <2> SUFFICES ASSUME ~config.OnAllocFails PROVE
          /\ buffer'.real = buffer'.currentSize
          /\ buffer'.currentSize > 0 => buffer'.current # NULL
          /\ bound' # NoAllocator => /\ plan'[bound'].mTotalSize > 0
                                     /\ plan'[bound'].mPtr = buffer'.current
                                     /\ plan'[bound'].mTotalSize <= buffer'.real
    BY DEF Fits
  <2>1. /\ buffer.real = buffer.currentSize
        /\ buffer.currentSize > 0 => buffer.current # NULL
    BY DEF IInv, Fits
  <2>6. /\ q.code = "NO_ERROR"
        /\ \/ buffer.currentSize >= n /\ q.buffer = buffer
           \/ \E p \in Address : q.buffer = [current |-> p, currentSize |-> n, real |-> n]
    BY <1>4, Zenon
  <2>7. ASSUME NEW p \in Address, q.buffer = [current |-> p, currentSize |-> n, real |-> n]
        PROVE  /\ n <= q.buffer.currentSize /\ q.buffer.real = q.buffer.currentSize
               /\ q.buffer.current # NULL
    BY <1>5, <2>7, DeferAssumption
  <2>8. q.buffer = buffer \/ /\ n <= q.buffer.currentSize
                             /\ q.buffer.real = q.buffer.currentSize
                             /\ q.buffer.current # NULL
    BY <2>6, <2>7, Zenon
  <2>2. q.code = "NO_ERROR" /\ n <= q.buffer.currentSize
    <3>1. (buffer.currentSize >= n /\ q.buffer = buffer) \/ n <= q.buffer.currentSize
      BY <2>6, <2>7, Zenon
    <3> QED
      BY <1>5, <1>6, <2>6, <3>1
  <2>3. q.buffer.real = q.buffer.currentSize
    BY <2>1, <2>8
  <2>4. q.buffer.currentSize > 0 => q.buffer.current # NULL
    BY <2>1, <2>8
  <2>5. bound' = a /\ r.mPtr = q.buffer.current /\ buffer' = q.buffer
    BY <1>1, <1>3, <2>2
  <2> QED
    BY <1>5, <1>10, <1>15, <2>2, <2>3, <2>4, <2>5
<1> QED
  BY <1>13, <1>14, <1>16 DEF IInv

\* compute
LEMMA ComputeStep ==
    ASSUME IInv, UNCHANGED config, NEW a \in Allocator, Compute(a)
    PROVE  IInv'
<1>1. CASE UNCHANGED <<plan, buffer, bound>> /\ UNCHANGED <<live, together>>
           /\ code' \in [Allocator -> {"NO_ERROR", "OUT_OF_MEMORY", "INVALID_VALUE"}]
  BY <1>1 DEF IInv, Types, Plans, Fits
<1>2. code \in [Allocator -> {"NO_ERROR", "OUT_OF_MEMORY", "INVALID_VALUE"}]
  BY DEF IInv, Types
<1>3. PICK st, lv, tg : st = plan[a] /\ lv = live[a] /\ tg = together[a]
  OBVIOUS
<1>4. CASE /\ st.mTotalSize = 0 /\ st.mFreeList # {} /\ Len(st.list) = 1 /\ ~st.mBarrrier
           /\ st.mBarrrierFreeChunks = << >> /\ ApplyTo(a, Offsets(st))
           /\ UNCHANGED <<live, together>>
  <2>1. PICK st2 : st2 = Offsets(st)
    OBVIOUS
  <2>2. PlanInv(st, lv, tg)
    BY <1>3 DEF IInv, Plans
  <2>3. PlanInv(st2, lv, tg) /\ st2.mTotalSize > 0 /\ st2.mFreeList # {}
    BY <1>4, <2>1, <2>2, PlanComputed
  <2> QED
    BY <1>3, <1>4, <2>1, <2>3, ApplyToStep
<1> QED
  BY <1>1, <1>2, <1>3, <1>4 DEF Compute, Planning, Closing

\* apply
LEMMA ApplyStep ==
    ASSUME IInv, UNCHANGED config, NEW a \in Allocator, Apply(a)
    PROVE  IInv'
<1>1. PlanInv(plan[a], live[a], together[a])
  BY DEF IInv, Plans
<1>2. plan[a].mTotalSize > 0 /\ plan[a].mFreeList # {}
  BY <1>1 DEF Apply, PlanInv
<1> QED
  BY <1>1, <1>2, ApplyToStep DEF Apply

\* SingleBufferWithAllocator::release
LEMMA ReleaseStep ==
    ASSUME IInv, UNCHANGED config, ReleaseBuffer
    PROVE  IInv'
<1>1. /\ buffer' = [current |-> NULL, currentSize |-> 0, real |-> 0]
      /\ bound' = NoAllocator /\ UNCHANGED <<plan, code, live, together>>
  BY DEF ReleaseBuffer
<1>2. Plans'
  BY <1>1 DEF IInv, Plans
<1>3. Types'
  BY <1>1 DEF IInv, Types, NULL
<1>4. Fits'
  BY <1>1 DEF Fits
<1> QED
  BY <1>2, <1>3, <1>4 DEF IInv

\* The inductive invariant.
LEMMA Inductive ==
    /\ Init => IInv
    /\ IInv /\ [Next]_vars => IInv'
<1>1. ASSUME Init PROVE IInv
  <2>1. Plans
    BY <1>1, PlanEmpty DEF Init, Plans
  <2>2. Types
    BY <1>1 DEF Init, Types, NULL
  <2>3. Fits
    BY <1>1 DEF Init, Fits
  <2> QED
    BY <2>1, <2>2, <2>3 DEF IInv
<1>2. ASSUME IInv, UNCHANGED vars PROVE IInv'
  BY <1>2 DEF IInv, Types, Plans, Fits, vars
<1>3. ASSUME IInv, Next PROVE IInv'
  <2>1. UNCHANGED config /\ Step
    BY <1>3 DEF Next
  <2>2. CASE ReleaseBuffer
    BY <1>3, <2>1, <2>2, ReleaseStep
  <2>3. ASSUME NEW a \in Allocator,
               \/ \E size \in config.Size, separate \in BOOLEAN : Alloc(a, size, separate)
               \/ \E x \in live[a] : Free(a, x[1])
               \/ BarrierBegin(a) \/ BarrierEnd(a) \/ BarrierFree(a)
               \/ Reset(a) \/ Compute(a) \/ Apply(a)
        PROVE  IInv'
    <3>1. ASSUME NEW size \in config.Size, NEW separate \in BOOLEAN, Alloc(a, size, separate)
          PROVE  IInv'
      BY <1>3, <2>1, <3>1, AllocStep
    <3>2. ASSUME NEW x \in live[a], Free(a, x[1]) PROVE IInv'
      BY <1>3, <2>1, <3>2, FreeStep
    <3>3. CASE BarrierBegin(a) \/ BarrierEnd(a)
      BY <1>3, <2>1, <3>3, BarrierStep
    <3>4. CASE BarrierFree(a)
      BY <1>3, <2>1, <3>4, BarrierFreeStep
    <3>5. CASE Reset(a)
      BY <1>3, <2>1, <3>5, ResetStep
    <3>6. CASE Compute(a)
      BY <1>3, <2>1, <3>6, ComputeStep
    <3>7. CASE Apply(a)
      BY <1>3, <2>1, <3>7, ApplyStep
    <3> QED
      BY <2>3, <3>1, <3>2, <3>3, <3>4, <3>5, <3>6, <3>7
  <2> QED
    BY <2>1, <2>2, <2>3 DEF Step
<1> QED
  BY <1>1, <1>2, <1>3

LEMMA InvariantHolds == Spec => []IInv
<1>1. Init => IInv
  BY Inductive
<1>2. IInv /\ [Next]_vars => IInv'
  BY Inductive
<1> QED
  BY <1>1, <1>2, PTL DEF Spec

-----------------------------------------------------------------------------
(* Theorems.                                                               *)

LEMMA PlanTyped ==
    ASSUME NEW st, NEW lv, NEW tg, PlanInv(st, lv, tg)
    PROVE  /\ st.chunk \in Seq([size : Nat \ {0}, offset : Nat, usage : BOOLEAN,
                               into : 0 .. Len(st.chunk)])
           /\ ToSet(st.list) = {c \in DOMAIN st.chunk : st.chunk[c].into = 0}
           /\ IsInjective(st.list)
           /\ st.mFreeList = {c \in ToSet(st.list) : ~st.chunk[c].usage}
           /\ st.mPtr \in Address \union {NULL}
<1>1. PICK ch, n : ch = st.chunk /\ n = Len(ch)
  OBVIOUS
<1>2. Shape(st.list, ch) /\ FreeListed(st) /\ st \in PlanRec
  BY <1>1 DEF PlanInv
<1>3. ch \in Seq(ChunkRec) /\ n \in Nat /\ DOMAIN ch = 1 .. n
  BY <1>1, <1>2 DEF Shape
<1>4. ToSet(st.list) = Roots(ch) /\ IsInjective(st.list)
  BY <1>2 DEF Shape
<1>5. ASSUME NEW i \in 1 .. n
      PROVE  ch[i] \in [size : Nat \ {0}, offset : Nat, usage : BOOLEAN, into : 0 .. n]
  <2>1. PICK e : e = ch[i]
    OBVIOUS
  <2>2. e \in ChunkRec
    BY <1>3, <2>1, ElementOfSeq
  <2>3. e.into \in 0 .. n
    BY <1>2, <1>3, <2>1 DEF Shape
  <2>4. e \in [size : Nat \ {0}, offset : Nat, usage : BOOLEAN, into : 0 .. n]
    BY <2>2, <2>3 DEF ChunkRec
  <2> QED
    BY <2>1, <2>4
<1>6. ch \in Seq([size : Nat \ {0}, offset : Nat, usage : BOOLEAN, into : 0 .. n])
  <2>1. PICK S : S = [size : Nat \ {0}, offset : Nat, usage : BOOLEAN, into : 0 .. n]
    OBVIOUS
  <2>2. \A i \in 1 .. n : ch[i] \in S
    BY <1>5, <2>1
  <2>3. n = Len(ch) /\ ch \in Seq(ChunkRec)
    BY <1>1, <1>3
  <2>4. ch \in Seq(S)
    BY <2>2, <2>3, SeqDef
  <2> QED
    BY <2>1, <2>4
<1>7. st.mFreeList = {c \in ToSet(st.list) : ~st.chunk[c].usage}
  <2>1. ToSet(st.list) = Roots(st.chunk)
    BY <1>1, <1>4
  <2>2. st.mFreeList = {c \in Roots(st.chunk) : ~st.chunk[c].usage}
    BY <1>2, Zenon DEF FreeListed
  <2> QED
    BY <2>1, <2>2, Zenon
<1>8. ToSet(st.list) = {c \in DOMAIN st.chunk : st.chunk[c].into = 0}
  BY <1>1, <1>4, Zenon DEF Roots
<1>9. st.mPtr \in Address \union {NULL}
  BY <1>2 DEF PlanRec
<1> QED
  BY <1>1, <1>4, <1>6, <1>7, <1>8, <1>9

\* The list, the free list and the chunks of every allocator fit together, after
\* any sequence of alloc, free, barrierBegin, barrierEnd, reset, compute and apply.
THEOREM TypeCorrect == Spec => []TypeOK
<1>1. ASSUME IInv PROVE TypeOK
  <2>1. bound \in Allocator \union {NoAllocator}
    BY <1>1 DEF IInv, Types
  <2>2. ASSUME NEW a \in Allocator
        PROVE  /\ PlanInv(plan[a], live[a], together[a])
               /\ code[a] \in {"NO_ERROR", "OUT_OF_MEMORY", "INVALID_VALUE"}
    BY <1>1 DEF IInv, Types, Plans
  <2> QED
    BY <2>1, <2>2, PlanTyped, Zenon DEF TypeOK
<1> QED
  BY <1>1, InvariantHolds, PTL

\* Once everything requested has been freed, one free chunk is left, whatever
\* the order of the frees: compute does not answer INVALID_VALUE.
THEOREM FreedIsOne == Spec => []FreedIsOneChunk
<1>1. ASSUME IInv PROVE FreedIsOneChunk
  <2>1. ASSUME NEW a \in Allocator, live[a] = {}, plan[a].list # << >>
        PROVE  Len(plan[a].list) = 1 /\ Cardinality(plan[a].mFreeList) = 1
    <3>1. PICK st, li, ch, n : /\ st = plan[a] /\ li = st.list
                               /\ ch = st.chunk /\ n = Len(li)
      OBVIOUS
    <3>2. /\ Shape(li, ch) /\ FreeListed(st) /\ LiveUsed(st, live[a], together[a])
          /\ li # << >>
      BY <1>1, <2>1, <3>1 DEF IInv, Plans, PlanInv
    <3>3. \A c \in Roots(ch) : ~ch[c].usage
      BY <2>1, <3>1, <3>2, Zenon DEF LiveUsed
    <3>4. \A i \in DOMAIN li : li[i] \in Roots(ch)
      BY <3>2 DEF Shape, ToSet
    <3>5. n \in Nat /\ n > 0 /\ DOMAIN li = 1 .. n
      BY <3>1, <3>2, EmptySeq DEF Shape
    <3>6. ~(n > 1)
      <4> SUFFICES ASSUME n > 1 PROVE FALSE
        OBVIOUS
      <4>1. 1 \in DOMAIN li /\ 2 \in DOMAIN li /\ 2 = 1 + 1
        BY <3>5
      <4>2. ch[li[1]].usage \/ ch[li[2]].usage
        BY <3>1, <3>2, <4>1, Zenon DEF FreeListed
      <4> QED
        BY <3>3, <3>4, <4>1, <4>2, Zenon
    <3>7. n = 1 /\ DOMAIN li = {1}
      BY <3>5, <3>6
    <3>8. \A c : c \in Roots(ch) <=> c = li[1]
      BY <3>2, <3>7 DEF Shape, ToSet
    <3>9. \A c : c \in st.mFreeList <=> c = li[1]
      BY <3>1, <3>2, <3>3, <3>8, Zenon DEF FreeListed
    <3>10. st.mFreeList = {li[1]}
      BY <3>9
    <3> QED
      BY <3>1, <3>7, <3>10, FS_Singleton
  <2> QED
    BY <2>1, Zenon DEF FreedIsOneChunk
<1> QED
  BY <1>1, InvariantHolds, PTL

\* Requests that were live at the same time get disjoint ranges inside the computed
\* size, and a separate request one apart from every earlier request, however often
\* chunks were split, expanded and fused before compute gave them their offsets.
THEOREM PlansDisjoint == Spec => []PlanDisjoint
<1>1. ASSUME IInv PROVE PlanDisjoint
  <2>1. ASSUME NEW a \in Allocator, plan[a].mTotalSize > 0
        PROVE  Computed(plan[a], together[a])
    BY <1>1, <2>1 DEF IInv, Plans, PlanInv
  <2> QED
    BY <2>1, Zenon DEF PlanDisjoint, Computed
<1> QED
  BY <1>1, InvariantHolds, PTL

\* As long as root->onAlloc answers, a plan that compute or apply has bound lies in
\* the shared buffer as it is now and fits in it, whatever the other allocators of
\* the runtime did to the buffer. (defer_oom shows what happens when it fails.)
THEOREM Backed == Spec => [](~config.OnAllocFails => AppliedIsBacked)
<1>1. ASSUME IInv PROVE ~config.OnAllocFails => AppliedIsBacked
  <2> SUFFICES ASSUME ~config.OnAllocFails, bound # NoAllocator
               PROVE  /\ buffer.current # NULL
                      /\ plan[bound].mPtr = buffer.current
                      /\ plan[bound].mTotalSize <= buffer.real
    BY DEF AppliedIsBacked
  <2>1. /\ buffer.real = buffer.currentSize
        /\ buffer.currentSize > 0 => buffer.current # NULL
        /\ plan[bound].mTotalSize > 0 /\ plan[bound].mPtr = buffer.current
        /\ plan[bound].mTotalSize <= buffer.real
    BY <1>1 DEF IInv, Fits
  <2>2. plan[bound].mTotalSize \in Nat /\ buffer.currentSize \in Nat
    <3>1. bound \in Allocator
      BY <1>1 DEF IInv, Types
    <3> QED
      BY <1>1, <3>1 DEF IInv, Types, Plans, PlanRec
  <2> QED
    BY <2>1, <2>2
<1> QED
  BY <1>1, InvariantHolds, PTL

=============================================================================
