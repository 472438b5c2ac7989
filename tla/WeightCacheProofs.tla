------------------------- MODULE WeightCacheProofs -------------------------
(***************************************************************************)
(* Proofs about WeightCache, for all modules, weights and sizes of files.  *)
(*                                                                         *)
(* The files do not say where a weight lies, so the proof has to show that *)
(* every process with the hint lays its weights out in the same way.  That *)
(* layout is Canon: the best fit of the weights alone, in their order.  A  *)
(* process follows it although it may also request temporaries: these come *)
(* and go between two weights, and leave at most one more empty file.  Then*)
(* a process that skips a weight finds it where the process that made the  *)
(* marker had put it, and what a process still writes under a marker is    *)
(* apart from everything it skips.                                         *)
(***************************************************************************)
EXTENDS WeightCache, SequenceTheorems, FiniteSetTheorems, NaturalsInduction,
        WellFoundedInduction, TLAPS

-----------------------------------------------------------------------------
(* The invariant.                                                          *)

OpType == [w : Nat, size : 1 .. mmapSize, temp : 0 .. mmapSize, skips : BOOLEAN]

\* Files.
Value == {Zero} \union (Nat \X Cells)
FileType == [mem : [Cells -> Value], dur : [Cells -> Value]]

\* Parts of a file, and parts of the first n files.
Segment ==
    {s \in [file : Nat \ {0}, off : 0 .. mmapSize - 1, size : 1 .. mmapSize] :
        s.off + s.size <= mmapSize}
SegmentIn(n) == {s \in Segment : s.file <= n}

Apart(s, t) == s.file # t.file \/ s.off + s.size <= t.off \/ t.off + t.size <= s.off

Whole(f) == Seg(f, 0, mmapSize)

\* The free segments of n files: of each file its end, or nothing.
FreeInv(list, n) ==
    /\ list \in Seq(SegmentIn(n))
    /\ \A i \in 1 .. Len(list) : list[i].off + list[i].size = mmapSize
    /\ \A i, j \in 1 .. Len(list) : list[i].file = list[j].file => i = j

\* The segments in use lie in front of the free ones, apart from each other, and with
\* the free ones they cover the files.
UsedInv(used, free, n) ==
    /\ used \subseteq SegmentIn(n)
    /\ \A u \in used, s \in free : u.file = s.file => u.off + u.size <= s.off
    /\ \A u, v \in used : u # v => Apart(u, v)
    /\ \A f \in 1 .. n, c \in Cells : \E s \in used \union free :
          s.file = f /\ s.off < c /\ c <= s.off + s.size

InFile(p) == {e \in p.at : e.mem = "file"}

\* Every operator has a segment of its own.
EntryInv(p) ==
    /\ p.at \subseteq [op : OpType, seg : Segment \union {NoSeg}, mem : {"file", "set", "unset"}]
    /\ \A e \in InFile(p) : e.seg \in Segment /\ e.seg.size = e.op.size
    /\ \A e, g \in InFile(p) : e.seg = g.seg => e = g
    /\ p.pc = "fill" => /\ p.seg.size = Head(p.todo).size
                        /\ \A e \in InFile(p) : e.seg # p.seg

Fields == {"pc", "user", "useCachedMmap", "allocator", "mRemove", "mSyncValid", "mNewMmap",
           "mAllocTimes", "mFreeList", "at", "seg", "todo", "late", "loaded", "then"}

\* Where a process is in its calls.
ControlInv(p) ==
    /\ DOMAIN p = Fields
    /\ p.pc \in {"idle", "acquire", "fill", "msync", "mark", "finish"}
    /\ p.user \in {0, 1} /\ p.loaded \in 0 .. Len(Net) /\ p.mAllocTimes \in Nat
    /\ p.todo \in Seq(OpType) /\ p.late \in Seq(OpType)
    /\ p.allocator \in {"heap", "mmap", "swapped"} /\ (p.allocator = "heap" <=> p.loaded = 0)
    /\ p.loaded = 0 => /\ p.pc = "idle" /\ p.mAllocTimes = 0 /\ p.at = {} /\ p.mFreeList = << >>
                       /\ ~p.mRemove
    /\ p.loaded > 0 => p.mRemove = (p.user = 0)
    /\ p.pc \in {"acquire", "fill"} <=> p.todo # << >>
    /\ p.pc \in {"fill", "msync", "mark"} => p.allocator = "mmap"
    /\ p.pc = "finish" => p.allocator = "swapped"

\* What a process believes of the cache.
BeliefInv(p, marked, expected) ==
    /\ p.user = 0 => p.useCachedMmap = 0 /\ (expected => ~marked)
    /\ p.user = 1 /\ p.allocator = "mmap" => p.useCachedMmap = IF marked THEN 3 ELSE 1
    /\ p.pc = "fill" => ~Skips(p, Head(p.todo))

\* The files of a process.
FilesInv(p, d) ==
    /\ 1 .. p.mAllocTimes \subseteq DOMAIN d
    /\ p.pc = "mark" /\ ~p.mRemove /\ p.mNewMmap =>
          \A f \in 1 .. p.mAllocTimes : d[f].dur = d[f].mem

\* One allocation of the canonical layout: c has the free segments and the number of
\* files before.
NextFit(c, size) ==
    LET fits == {s \in c.free : s.size >= size}
        s == IF fits = {} THEN Whole(c.n + 1)
             ELSE CHOOSE x \in fits : \A t \in fits : x.size <= t.size
    IN  [free |-> (c.free \ {s}) \union
                  (IF s.size = size THEN {} ELSE {Seg(s.file, s.off + size, s.size - size)}),
         n |-> IF fits = {} THEN c.n + 1 ELSE c.n,
         seg |-> Seg(s.file, s.off, size)]

\* The layout of the weights alone, in their order.
Canon[k \in 0 .. Len(Order)] ==
    IF k = 0 THEN [free |-> {}, n |-> 0, seg |-> NoSeg]
    ELSE NextFit(Canon[k - 1], Order[k].size)

Entry(j) == [op |-> Order[j], seg |-> Canon[j].seg, mem |-> "file"]

\* The free segments of a process are those of the layout, but a temporary may have opened
\* one more file.
Follows(list, n, c) ==
    /\ c.n \in Nat
    /\ \/ n = c.n /\ ToSet(list) = c.free
       \/ /\ n = c.n + 1 /\ Whole(n) \notin c.free
          /\ ToSet(list) = c.free \union {Whole(n)}

\* The operators of the first m modules: Order is the last of these sequences.
Flat == LET flatten[i \in 1 .. Len(Net)] == IF i = 1 THEN Net[i] ELSE flatten[i - 1] \o Net[i]
        IN  flatten
Before(m) == IF m = 0 THEN 0 ELSE Len(Flat[m])

\* Operators whose weights are in their place.
Position(p) == Before(p.loaded) - Len(p.todo)

\* A process with the hint has laid its weights out like every other.
CanonInv(p) ==
    /\ p.late = << >>
    /\ p.allocator = "swapped" => p.todo = << >>
    /\ p.allocator # "swapped" =>
         LET k == Position(p)
             next == IF p.pc = "fill" THEN k + 1 ELSE k
         IN  /\ k \in Nat
             /\ \A i \in 1 .. Len(p.todo) : p.todo[i] = Order[k + i]
             /\ p.at = {Entry(j) : j \in 1 .. k}
             /\ p.pc = "fill" => p.seg = Canon[next].seg
             /\ Follows(p.mFreeList, p.mAllocTimes, Canon[next])

\* Every operator has its weights.
RightInv(p, d) ==
    \A e \in p.at :
        IF e.mem = "file" THEN Holds(d[e.seg.file].mem, e.seg, e.op) ELSE e.mem = "set"

ProcInv(p, d, marked, expected) ==
    /\ ControlInv(p) /\ EntryInv(p) /\ BeliefInv(p, marked, expected) /\ FilesInv(p, d)
    /\ FreeInv(p.mFreeList, p.mAllocTimes)
    /\ UsedInv(Used(p), ToSet(p.mFreeList), p.mAllocTimes)
    /\ expected => RightInv(p, d) /\ (p.user = 1 => CanonInv(p))

DiskInv(d) ==
    /\ DOMAIN d \subseteq Nat \ {0}
    /\ \A f \in DOMAIN d : d[f] \in FileType

\* The weights of an entry are in the files.
Saved(e, d, unsure) ==
    /\ e.seg.file \in DOMAIN d
    /\ Holds(d[e.seg.file].mem, e.seg, e.op)
    /\ unsure \/ Holds(d[e.seg.file].dur, e.seg, e.op)

\* What a marker stands for.
MarkInv(entries, d, unsure) ==
    /\ entries = {Entry(j) : j \in 1 .. Len(Order)}
    /\ \A e, g \in entries : e # g => Apart(e.seg, g.seg)
    /\ \A e \in entries : e.op \in OpType /\ e.seg \in Segment /\ e.seg.size = e.op.size
    /\ \A e \in entries : e.op.skips => Saved(e, d, unsure)

IInv ==
    /\ DiskInv(disk) /\ sync \in BOOLEAN /\ resumed \in BOOLEAN /\ sound \in BOOLEAN
    /\ proc = Stopped \/ ProcInv(proc, disk, sync, sound)
    /\ sound /\ sync => MarkInv(layout, disk, resumed)

-----------------------------------------------------------------------------
(* The free list.                                                          *)

\* What RemoveAt leaves.
LEMMA RemoveAtFacts ==
    ASSUME NEW S, NEW s \in Seq(S), NEW i \in 1 .. Len(s)
    PROVE  /\ RemoveAt(s, i) \in Seq(S) /\ Len(RemoveAt(s, i)) = Len(s) - 1
           /\ \A j \in 1 .. Len(s) - 1 : RemoveAt(s, i)[j] = IF j < i THEN s[j] ELSE s[j + 1]
<1>1. PICK n \in Nat : n = Len(s) /\ i \in 1 .. n
  OBVIOUS
<1>2. PICK a : a = SubSeq(s, 1, i - 1)
  OBVIOUS
<1>3. PICK b : b = SubSeq(s, i + 1, n)
  OBVIOUS
<1>4. a \in Seq(S) /\ Len(a) = i - 1 /\ \A j \in 1 .. i - 1 : a[j] = s[j]
  <2>1. \A j \in 1 .. i - 1 : s[j] \in S
    BY <1>1
  <2>2. /\ a \in Seq(S) /\ Len(a) = IF 1 <= i - 1 THEN (i - 1) - 1 + 1 ELSE 0
        /\ \A j \in 1 .. (i - 1) - 1 + 1 : a[j] = s[1 + j - 1]
    BY <1>2, <2>1, SubSeqProperties
  <2> QED
    BY <2>2
<1>5. b \in Seq(S) /\ Len(b) = n - i /\ \A j \in 1 .. n - i : b[j] = s[i + j]
  <2>1. \A j \in i + 1 .. n : s[j] \in S
    BY <1>1
  <2>2. /\ b \in Seq(S) /\ Len(b) = IF i + 1 <= n THEN n - (i + 1) + 1 ELSE 0
        /\ \A j \in 1 .. n - (i + 1) + 1 : b[j] = s[(i + 1) + j - 1]
    BY <1>1, <1>3, <2>1, SubSeqProperties
  <2> QED
    BY <1>1, <2>2
<1>6. /\ a \o b \in Seq(S) /\ Len(a \o b) = Len(a) + Len(b)
      /\ \A j \in 1 .. Len(a) + Len(b) : (a \o b)[j] = IF j <= Len(a) THEN a[j] ELSE b[j - Len(a)]
  BY <1>4, <1>5, ConcatProperties
<1>7. RemoveAt(s, i) = a \o b
  BY <1>1, <1>2, <1>3 DEF RemoveAt
<1>8. PICK t : t = RemoveAt(s, i)
  OBVIOUS
<1>9. /\ t \in Seq(S) /\ Len(t) = n - 1
      /\ \A j \in 1 .. n - 1 : t[j] = IF j <= i - 1 THEN a[j] ELSE b[j - (i - 1)]
  <2>1. (Len(a) + Len(b)) = n - 1 /\ Len(a) = i - 1
    BY <1>1, <1>4, <1>5
  <2>2. t = a \o b
    BY <1>7, <1>8
  <2> QED
    BY <1>6, <2>1, <2>2
<1>10. ASSUME NEW j \in 1 .. n - 1 PROVE t[j] = IF j < i THEN s[j] ELSE s[j + 1]
  <2>1. CASE j < i
    BY <1>1, <1>4, <1>9, <2>1
  <2>2. CASE ~(j < i)
    <3>1. j - (i - 1) \in 1 .. n - i /\ i + (j - (i - 1)) = j + 1 /\ ~(j <= i - 1)
      BY <1>1, <2>2
    <3>2. t[j] = b[j - (i - 1)]
      BY <1>9, <3>1
    <3>3. b[j - (i - 1)] = s[i + (j - (i - 1))]
      BY <1>5, <3>1
    <3> QED
      BY <2>2, <3>1, <3>2, <3>3
  <2> QED
    BY <2>1, <2>2
<1> QED
  BY <1>1, <1>8, <1>9, <1>10

\* A segment leaves the list.
LEMMA TakeOut ==
    ASSUME NEW n \in Nat, NEW list, FreeInv(list, n), NEW i \in 1 .. Len(list),
           NEW out, out = RemoveAt(list, i)
    PROVE  /\ FreeInv(out, n) /\ ToSet(out) = ToSet(list) \ {list[i]}
           /\ \A s \in ToSet(out) : s.file # list[i].file
<1>1. PICK m \in Nat : m = Len(list) /\ i \in 1 .. m
  BY DEF FreeInv
<1>2. list \in Seq(SegmentIn(n)) /\ \A j \in 1 .. m : list[j] \in SegmentIn(n)
  BY <1>1 DEF FreeInv
<1>3. /\ out \in Seq(SegmentIn(n)) /\ Len(out) = m - 1
      /\ \A j \in 1 .. m - 1 : out[j] = IF j < i THEN list[j] ELSE list[j + 1]
  BY <1>1, <1>2, RemoveAtFacts
<1>4. /\ \A j \in 1 .. m : list[j].off + list[j].size = mmapSize
      /\ \A j, k \in 1 .. m : list[j].file = list[k].file => j = k
  BY <1>1 DEF FreeInv
<1> DEFINE pos(j) == IF j < i THEN j ELSE j + 1
<1>5. \A j \in 1 .. m - 1 : pos(j) \in 1 .. m /\ pos(j) # i /\ out[j] = list[pos(j)]
  BY <1>1, <1>3
<1>6. \A j, k \in 1 .. m - 1 : pos(j) = pos(k) => j = k
  BY <1>1
<1>7. \A j \in 1 .. m : j # i => \E k \in 1 .. m - 1 : pos(k) = j
  <2>1. ASSUME NEW j \in 1 .. m, j # i PROVE \E k \in 1 .. m - 1 : pos(k) = j
    <3>1. CASE j < i
      <4>1. j \in 1 .. m - 1 /\ pos(j) = j
        BY <1>1, <3>1
      <4> QED
        BY <4>1
    <3>2. CASE j > i
      <4>1. j - 1 \in 1 .. m - 1 /\ pos(j - 1) = j
        BY <1>1, <3>2
      <4> QED
        BY <4>1
    <3> QED
      BY <1>1, <2>1, <3>1, <3>2
  <2> QED
    BY <2>1
<1> HIDE DEF pos
<1>8. FreeInv(out, n)
  <2>1. \A j \in 1 .. m - 1 : out[j].off + out[j].size = mmapSize
    BY <1>4, <1>5
  <2>2. ASSUME NEW j \in 1 .. m - 1, NEW k \in 1 .. m - 1, out[j].file = out[k].file PROVE j = k
    <3>1. /\ pos(j) \in 1 .. m /\ out[j] = list[pos(j)]
          /\ pos(k) \in 1 .. m /\ out[k] = list[pos(k)]
      BY <1>5
    <3>2. pos(j) = pos(k)
      BY <1>4, <2>2, <3>1
    <3> QED
      BY <1>6, <3>2
  <2> QED
    BY <1>1, <1>3, <2>1, <2>2 DEF FreeInv
<1>9. ToSet(list) = {list[j] : j \in 1 .. m} /\ ToSet(out) = {out[j] : j \in 1 .. m - 1}
  BY <1>1, <1>2, <1>3 DEF ToSet
<1>10. ToSet(out) = ToSet(list) \ {list[i]}
  <2>1. ASSUME NEW s \in ToSet(out) PROVE s \in ToSet(list) \ {list[i]} /\ s.file # list[i].file
    <3>1. PICK j \in 1 .. m - 1 : s = list[pos(j)] /\ pos(j) \in 1 .. m /\ pos(j) # i
      BY <1>5, <1>9, <2>1
    <3> QED
      BY <1>1, <1>4, <1>9, <3>1
  <2>2. ASSUME NEW s \in ToSet(list), s # list[i] PROVE s \in ToSet(out)
    <3>1. PICK j \in 1 .. m : s = list[j] /\ j # i
      BY <1>9, <2>2
    <3>2. PICK k \in 1 .. m - 1 : pos(k) = j
      BY <1>7, <3>1
    <3>3. out[k] = s
      BY <1>5, <3>1, <3>2
    <3> QED
      BY <1>9, <3>3
  <2> QED
    BY <2>1, <2>2
<1>11. ASSUME NEW s \in ToSet(out) PROVE s.file # list[i].file
  <2>1. PICK j \in 1 .. m - 1 : s = list[pos(j)] /\ pos(j) \in 1 .. m /\ pos(j) # i
    BY <1>5, <1>9, <1>11
  <2> QED
    BY <1>1, <1>4, <2>1
<1> QED
  BY <1>8, <1>10, <1>11

\* The end s of another file can be listed, which gives out.
Listed(out, list, s, n) ==
    /\ FreeInv(list, n) /\ s \in SegmentIn(n) /\ s.off + s.size = mmapSize
    /\ \A t \in ToSet(list) : t.file # s.file
    /\ out = Append(list, s)

\* Then it is in the list.
LEMMA PutIn ==
    ASSUME NEW n \in Nat, NEW list, NEW s, NEW out, Listed(out, list, s, n)
    PROVE  FreeInv(out, n) /\ ToSet(out) = ToSet(list) \union {s}
<1> USE DEF Listed
<1>1. PICK m \in Nat : m = Len(list)
  BY DEF FreeInv
<1>2. list \in Seq(SegmentIn(n)) /\ \A j \in 1 .. m : list[j] \in SegmentIn(n)
  BY <1>1 DEF FreeInv
<1>3. /\ out \in Seq(SegmentIn(n)) /\ Len(out) = m + 1
      /\ \A j \in 1 .. m : out[j] = list[j]
      /\ out[m + 1] = s
  BY <1>1, <1>2, AppendProperties
<1>4. ToSet(list) = {list[j] : j \in 1 .. m} /\ ToSet(out) = {out[j] : j \in 1 .. m + 1}
  BY <1>1, <1>2, <1>3 DEF ToSet
<1>5. ToSet(out) = ToSet(list) \union {s}
  <2>1. ASSUME NEW x \in ToSet(out) PROVE x \in ToSet(list) \union {s}
    <3>1. PICK j \in 1 .. m + 1 : x = out[j]
      BY <1>4, <2>1
    <3>2. j \in 1 .. m \/ j = m + 1
      OBVIOUS
    <3> QED
      BY <1>3, <1>4, <3>1, <3>2
  <2>2. ASSUME NEW x \in ToSet(list) PROVE x \in ToSet(out)
    <3>1. PICK j \in 1 .. m : x = list[j]
      BY <1>4, <2>2
    <3>2. j \in 1 .. m + 1 /\ x = out[j]
      BY <1>3, <3>1
    <3> QED
      BY <1>4, <3>2
  <2>3. m + 1 \in 1 .. m + 1
    OBVIOUS
  <2>4. s \in ToSet(out)
    BY <1>3, <1>4, <2>3
  <2> QED
    BY <2>1, <2>2, <2>4
<1>6. \A j \in 1 .. m : list[j].file # s.file
  BY <1>4
<1>7. /\ \A j \in 1 .. m : list[j].off + list[j].size = mmapSize
      /\ \A j, k \in 1 .. m : list[j].file = list[k].file => j = k
  BY <1>1 DEF FreeInv
<1>8. \A j \in 1 .. m + 1 : j \in 1 .. m \/ j = m + 1
  OBVIOUS
<1>9. \A j \in 1 .. m + 1 : out[j].off + out[j].size = mmapSize
  BY <1>3, <1>7, <1>8
<1>10. \A j, k \in 1 .. m + 1 : out[j].file = out[k].file => j = k
  BY <1>3, <1>6, <1>7, <1>8
<1> QED
  BY <1>3, <1>5, <1>9, <1>10 DEF FreeInv

\* One more file.
LEMMA MoreFiles ==
    ASSUME NEW n \in Nat, NEW list, FreeInv(list, n)
    PROVE  /\ FreeInv(list, n + 1) /\ ToSet(list) \subseteq SegmentIn(n)
           /\ \A s \in ToSet(list) : s.file # n + 1 /\ s.off + s.size = mmapSize
<1>1. PICK m \in Nat : m = Len(list)
  BY DEF FreeInv
<1>2. list \in Seq(SegmentIn(n)) /\ \A j \in 1 .. m : list[j] \in SegmentIn(n)
  BY <1>1 DEF FreeInv
<1>3. SegmentIn(n) \subseteq SegmentIn(n + 1) /\ \A s \in SegmentIn(n) : s.file # n + 1
  BY DEF SegmentIn, Segment
<1>4. list \in Seq(SegmentIn(n + 1))
  BY <1>1, <1>2, <1>3
<1>5. ToSet(list) = {list[j] : j \in 1 .. m}
  BY <1>1, <1>2 DEF ToSet
<1> QED
  BY <1>1, <1>2, <1>3, <1>4, <1>5 DEF FreeInv

-----------------------------------------------------------------------------
(* An allocation.                                                          *)

\* Segment s is taken out of the list, or is a new file; out and m are what is left.
Taken(s, list, n, size, out, m) ==
    \/ /\ out = list /\ m = n + 1 /\ s = Whole(n + 1)
       /\ \A t \in ToSet(list) : t.size < size
    \/ /\ m = n
       /\ \E i \in 1 .. Len(list) : s = list[i] /\ out = RemoveAt(list, i)
       /\ size <= s.size /\ \A t \in ToSet(list) : t.size >= size => s.size <= t.size

\* Its first part, the rest, and the list with the rest.
Cut(s, size) == Seg(s.file, s.off, size)
Rest(s, size) == Seg(s.file, s.off + size, s.size - size)
After(out, s, size) == IF s.size = size THEN out ELSE Append(out, Rest(s, size))

\* Nothing else of its file is listed.
LEMMA TakenFacts ==
    ASSUME NEW n \in Nat, NEW list, FreeInv(list, n), NEW size \in 1 .. mmapSize,
           NEW s, NEW out, NEW m, Taken(s, list, n, size, out, m)
    PROVE  /\ m \in {n, n + 1} /\ FreeInv(out, m) /\ s \in SegmentIn(m)
           /\ s.off + s.size = mmapSize /\ size <= s.size
           /\ ToSet(out) = ToSet(list) \ {s} /\ \A t \in ToSet(out) : t.file # s.file
<1>0. mmapSize \in Nat \ {0}
  BY NetAssumption
<1>1. CASE out = list /\ m = n + 1 /\ s = Whole(n + 1)
  <2>1. /\ FreeInv(list, n + 1) /\ ToSet(list) \subseteq SegmentIn(n)
        /\ \A t \in ToSet(list) : t.file # n + 1 /\ t.off + t.size = mmapSize
    BY MoreFiles
  <2>2. s \in SegmentIn(n + 1) /\ s.off + s.size = mmapSize /\ size <= s.size /\ s.file = n + 1
    BY <1>0, <1>1 DEF Whole, Seg, SegmentIn, Segment
  <2> QED
    BY <1>1, <2>1, <2>2
<1>2. CASE /\ m = n /\ size <= s.size
           /\ \E i \in 1 .. Len(list) : s = list[i] /\ out = RemoveAt(list, i)
  <2>1. PICK i \in 1 .. Len(list) : s = list[i] /\ out = RemoveAt(list, i)
    BY <1>2
  <2>2. /\ FreeInv(out, n) /\ ToSet(out) = ToSet(list) \ {list[i]}
        /\ \A t \in ToSet(out) : t.file # list[i].file
    BY <2>1, TakeOut
  <2>3. s \in SegmentIn(n) /\ s.off + s.size = mmapSize
    BY <2>1 DEF FreeInv
  <2> QED
    BY <1>2, <2>1, <2>2, <2>3
<1> QED
  BY <1>1, <1>2 DEF Taken

\* The parts of a segment.
LEMMA CutFacts ==
    ASSUME NEW m \in Nat, NEW s \in SegmentIn(m), NEW size \in 1 .. s.size
    PROVE  /\ Cut(s, size) \in SegmentIn(m) /\ Cut(s, size).file = s.file
           /\ Cut(s, size).off = s.off /\ Cut(s, size).size = size
           /\ Rest(s, size).file = s.file /\ Rest(s, size).off = s.off + size
           /\ Rest(s, size).size = s.size - size
           /\ s.size # size => Rest(s, size) \in SegmentIn(m)
<1>1. mmapSize \in Nat \ {0} /\ s.file \in Nat \ {0} /\ s.file <= m /\ s.off \in 0 .. mmapSize - 1
      /\ s.size \in 1 .. mmapSize /\ s.off + s.size <= mmapSize
  BY NetAssumption DEF SegmentIn, Segment
<1>2. size \in 1 .. mmapSize /\ s.off + size <= mmapSize
  BY <1>1
<1>3. s.size # size => s.off + size \in 0 .. mmapSize - 1 /\ s.size - size \in 1 .. mmapSize
                       /\ (s.off + size) + (s.size - size) <= mmapSize
  BY <1>1
<1> QED
  BY <1>1, <1>2, <1>3 DEF Cut, Rest, Seg, SegmentIn, Segment

\* The list after an allocation.
LEMMA AfterFacts ==
    ASSUME NEW m \in Nat, NEW out, FreeInv(out, m), NEW s \in SegmentIn(m), NEW size \in 1 .. s.size,
           s.off + s.size = mmapSize, \A t \in ToSet(out) : t.file # s.file
    PROVE  /\ FreeInv(After(out, s, size), m)
           /\ ToSet(After(out, s, size)) =
                ToSet(out) \union (IF s.size = size THEN {} ELSE {Rest(s, size)})
<1>1. CASE s.size = size
  BY <1>1 DEF After
<1>2. CASE s.size # size
  <2>1. PICK r : r = Rest(s, size)
    OBVIOUS
  <2>2. s.off \in Int /\ s.size \in Int /\ size \in Int
    BY NetAssumption DEF SegmentIn, Segment
  <2>3. r \in SegmentIn(m) /\ r.file = s.file /\ r.off + r.size = mmapSize
    BY <1>2, <2>1, <2>2, CutFacts
  <2>4. FreeInv(Append(out, r), m) /\ ToSet(Append(out, r)) = ToSet(out) \union {r}
    <3>1. Listed(Append(out, r), out, r, m)
      BY <2>3 DEF Listed
    <3> QED
      BY <3>1, PutIn
  <2> QED
    BY <1>2, <2>1, <2>4 DEF After
<1> QED
  BY <1>1, <1>2

\* A unit of a file is in a segment.
Has(s, f, c) == s.file = f /\ s.off < c /\ c <= s.off + s.size

\* A new segment in use is apart from the others, and the files are covered again.
LEMMA CutUsed ==
    ASSUME NEW n \in Nat, NEW list, FreeInv(list, n), NEW size \in 1 .. mmapSize,
           NEW s, NEW out, NEW m, Taken(s, list, n, size, out, m),
           NEW U, UsedInv(U, ToSet(list), n)
    PROVE  /\ UsedInv(U \union {Cut(s, size)}, ToSet(After(out, s, size)), m)
           /\ \A u \in U : u # Cut(s, size) /\ Apart(u, Cut(s, size))
           /\ UsedInv(U, ToSet(out) \union {s}, m)
           /\ \A u \in U : u.file = s.file => u.off + u.size <= s.off
<1>1. /\ m \in Nat /\ FreeInv(out, m) /\ s \in SegmentIn(m)
      /\ s.off + s.size = mmapSize /\ size <= s.size
      /\ ToSet(out) = ToSet(list) \ {s} /\ \A t \in ToSet(out) : t.file # s.file
  BY TakenFacts
<1>2. /\ mmapSize \in Nat \ {0} /\ s.off \in 0 .. mmapSize - 1 /\ s.size \in 1 .. mmapSize
      /\ s.file \in Nat \ {0} /\ size \in 1 .. s.size
  BY <1>1, NetAssumption DEF SegmentIn, Segment
<1>3. PICK c : c = Cut(s, size)
  OBVIOUS
<1>4. PICK r : r = Rest(s, size)
  OBVIOUS
<1>5. /\ c \in SegmentIn(m) /\ c.file = s.file /\ c.off = s.off /\ c.size = size
      /\ r.file = s.file /\ r.off = s.off + size /\ r.size = s.size - size
  BY <1>1, <1>2, <1>3, <1>4, CutFacts
<1>6. PICK G : G = ToSet(After(out, s, size))
  OBVIOUS
<1>7. G = ToSet(out) \union (IF s.size = size THEN {} ELSE {r})
  BY <1>1, <1>2, <1>4, <1>6, AfterFacts
<1>8. /\ U \subseteq SegmentIn(n)
      /\ \A u \in U, t \in ToSet(list) : u.file = t.file => u.off + u.size <= t.off
      /\ \A u, v \in U : u # v => Apart(u, v)
      /\ \A f \in 1 .. n, x \in Cells : \E t \in U \union ToSet(list) : Has(t, f, x)
  BY DEF UsedInv, Has
<1>9. s \in ToSet(list) \/ (s = Whole(n + 1) /\ m = n + 1)
  <2>1. ASSUME NEW i \in 1 .. Len(list), s = list[i] PROVE s \in ToSet(list)
    BY <2>1 DEF ToSet, FreeInv
  <2> QED
    BY <2>1 DEF Taken
<1>10. m = n \/ (m = n + 1 /\ s = Whole(n + 1))
  BY DEF Taken
<1>11. \A u \in U : u.file \in Nat /\ u.file <= n /\ u.file <= m /\ u \in SegmentIn(m)
                    /\ u.off \in Nat /\ u.size \in Nat \ {0}
  BY <1>8, <1>10, NetAssumption DEF SegmentIn, Segment
<1>12. \A u \in U : u.file = s.file => u.off + u.size <= s.off
  <2>1. ASSUME NEW u \in U, u.file = s.file PROVE u.off + u.size <= s.off
    <3>1. s.file = n + 1 => FALSE
      BY <1>11, <2>1
    <3>2. s \in ToSet(list)
      BY <1>9, <3>1 DEF Whole, Seg
    <3> QED
      BY <1>8, <2>1, <3>2
  <2> QED
    BY <2>1
<1>13. ASSUME NEW u \in U PROVE u # c /\ Apart(u, c)
  <2>1. u.file = s.file => u.off + u.size <= s.off /\ u.off # s.off
    BY <1>2, <1>11, <1>12
  <2> QED
    BY <1>5, <2>1 DEF Apart
<1>14. \A u, v \in U \union {c} : u # v => Apart(u, v)
  <2>1. \A u \in U : Apart(u, c) /\ Apart(c, u)
    BY <1>13 DEF Apart
  <2> QED
    BY <1>8, <2>1
<1>15. \A f \in 1 .. m, x \in Cells : \E t \in U \union ToSet(out) \union {s} : Has(t, f, x)
  <2>1. ASSUME NEW f \in 1 .. m, NEW x \in Cells
        PROVE  \E t \in U \union ToSet(out) \union {s} : Has(t, f, x)
    <3>1. CASE f \in 1 .. n
      <4>1. PICK t \in U \union ToSet(list) : Has(t, f, x)
        BY <1>8, <3>1
      <4> QED
        BY <1>1, <4>1
    <3>2. CASE f \notin 1 .. n
      <4>1. f = n + 1 /\ s = Whole(n + 1)
        BY <1>10, <3>2
      <4>2. Has(s, f, x)
        BY <1>2, <4>1 DEF Has, Whole, Seg, Cells
      <4> QED
        BY <4>2
    <3> QED
      BY <3>1, <3>2
  <2> QED
    BY <2>1
<1>16. \A f, x : x \in Cells /\ Has(s, f, x) => Has(c, f, x) \/ (s.size # size /\ Has(r, f, x))
  BY <1>2, <1>5 DEF Has, Cells
<1>17. \A f \in 1 .. m, x \in Cells : \E t \in (U \union {c}) \union G : Has(t, f, x)
  <2>1. ASSUME NEW f \in 1 .. m, NEW x \in Cells
        PROVE  \E t \in (U \union {c}) \union G : Has(t, f, x)
    <3>1. PICK t \in U \union ToSet(out) \union {s} : Has(t, f, x)
      BY <1>15
    <3>2. CASE t = s
      BY <1>7, <1>16, <3>1, <3>2
    <3>3. CASE t # s
      BY <1>7, <3>1, <3>3
    <3> QED
      BY <3>2, <3>3
  <2> QED
    BY <2>1
<1>18. \A u \in U \union {c}, t \in G : u.file = t.file => u.off + u.size <= t.off
  <2>1. ASSUME NEW u \in U, NEW t \in ToSet(out), u.file = t.file PROVE u.off + u.size <= t.off
    BY <1>1, <1>8, <2>1
  <2>2. ASSUME NEW u \in U, u.file = r.file PROVE u.off + u.size <= r.off
    BY <1>2, <1>5, <1>11, <1>12, <2>2
  <2>3. \A t \in ToSet(out) : t.file # c.file
    BY <1>1, <1>5
  <2>4. c.off + c.size <= r.off
    BY <1>2, <1>5
  <2> QED
    BY <1>7, <2>1, <2>2, <2>3, <2>4
<1>19. UsedInv(U \union {c}, G, m)
  <2>1. U \union {c} \subseteq SegmentIn(m)
    BY <1>5, <1>11
  <2> QED
    BY <2>1, <1>14, <1>17, <1>18 DEF UsedInv, Has
<1>20. UsedInv(U, ToSet(out) \union {s}, m)
  <2>1. U \subseteq SegmentIn(m)
    BY <1>11
  <2>2. \A u \in U, t \in ToSet(out) \union {s} : u.file = t.file => u.off + u.size <= t.off
    BY <1>1, <1>8, <1>12
  <2>3. \A f \in 1 .. m, x \in Cells : \E t \in U \union (ToSet(out) \union {s}) : Has(t, f, x)
    BY <1>15
  <2> QED
    BY <1>8, <2>1, <2>2, <2>3 DEF UsedInv, Has
<1> QED
  BY <1>3, <1>6, <1>12, <1>13, <1>19, <1>20

\* The list after the segment requested last has been freed.
FreeList(list, seg) ==
    LET rest == {i \in DOMAIN list : list[i].file = seg.file /\ list[i].off = seg.off + seg.size}
        i == CHOOSE x \in rest : TRUE
    IN  IF rest = {} THEN Append(list, seg)
        ELSE Append(RemoveAt(list, i), Seg(seg.file, seg.off, seg.size + list[i].size))

\* A temporary comes and goes: its segment is listed whole.
LEMMA FreeListFacts ==
    ASSUME NEW m \in Nat, NEW out, FreeInv(out, m), NEW s \in SegmentIn(m), NEW size \in 1 .. s.size,
           s.off + s.size = mmapSize, \A t \in ToSet(out) : t.file # s.file,
           NEW back, back = FreeList(After(out, s, size), Cut(s, size))
    PROVE  FreeInv(back, m) /\ ToSet(back) = ToSet(out) \union {s}
<1>1. PICK l : l = After(out, s, size)
  OBVIOUS
<1>2. FreeInv(l, m) /\ ToSet(l) = ToSet(out) \union (IF s.size = size THEN {} ELSE {Rest(s, size)})
  BY <1>1, AfterFacts
<1>3. PICK c : c = Cut(s, size)
  OBVIOUS
<1>4. /\ c.file = s.file /\ c.off = s.off /\ c.size = size
      /\ Rest(s, size).file = s.file /\ Rest(s, size).off = s.off + size
      /\ Rest(s, size).size = s.size - size
  BY <1>3, CutFacts
<1>5. /\ s = Seg(s.file, s.off, s.size) /\ s.off \in Nat /\ s.size \in Nat /\ size \in Nat
  BY NetAssumption DEF SegmentIn, Segment, Seg
<1>6. \A t \in SegmentIn(m) : t.off \in Int /\ t.size \in Int /\ t.file \in Int
  BY NetAssumption DEF SegmentIn, Segment
<1>7. DOMAIN l = 1 .. Len(l) /\ ToSet(l) = {l[i] : i \in 1 .. Len(l)}
  BY <1>2 DEF FreeInv, ToSet
<1> DEFINE rest == {i \in DOMAIN l : l[i].file = c.file /\ l[i].off = c.off + c.size}
<1>8. back = IF rest = {} THEN Append(l, c)
             ELSE Append(RemoveAt(l, CHOOSE x \in rest : TRUE),
                         Seg(c.file, c.off, c.size + l[CHOOSE x \in rest : TRUE].size))
  BY <1>1, <1>3 DEF FreeList
<1>9. CASE s.size = size
  <2>1. c = s
    BY <1>3, <1>5, <1>9 DEF Cut
  <2>2. ToSet(l) = ToSet(out)
    BY <1>2, <1>9
  <2>3. rest = {}
    BY <1>4, <1>7, <2>2
  <2>4. back = Append(l, s)
    BY <1>8, <2>1, <2>3
  <2> QED
    <3>1. Listed(back, l, s, m)
      BY <1>2, <2>2, <2>4 DEF Listed
    <3> QED
      BY <2>2, <3>1, PutIn
<1>10. CASE s.size # size
  <2>1. PICK r : r = Rest(s, size)
    OBVIOUS
  <2>2. ToSet(l) = ToSet(out) \union {r} /\ r.file = s.file /\ r.off = s.off + size
        /\ r.size = s.size - size
    BY <1>2, <1>4, <1>10, <2>1
  <2>3. PICK i \in 1 .. Len(l) : l[i] = r
    BY <1>7, <2>2
  <2>4. rest # {} /\ (CHOOSE x \in rest : TRUE) \in rest
    BY <1>4, <1>7, <2>2, <2>3
  <2>5. PICK x \in rest : x = CHOOSE y \in rest : TRUE
    BY <2>4
  <2>6. x = i
    BY <1>2, <1>4, <1>7, <2>2, <2>3, <2>5 DEF FreeInv
  <2>7. back = Append(RemoveAt(l, i), Seg(c.file, c.off, c.size + l[i].size))
    BY <1>8, <2>4, <2>5, <2>6
  <2>8. Seg(c.file, c.off, c.size + l[i].size) = s
    <3>1. c.size + l[i].size = s.size
      BY <1>4, <1>5, <2>2, <2>3
    <3> QED
      BY <1>4, <1>5, <3>1
  <2>9. PICK q : q = RemoveAt(l, i)
    OBVIOUS
  <2>10. /\ FreeInv(q, m) /\ ToSet(q) = ToSet(l) \ {r} /\ \A t \in ToSet(q) : t.file # s.file
    BY <1>2, <2>2, <2>3, <2>9, TakeOut
  <2>11. ToSet(q) = ToSet(out)
    BY <2>2, <2>10
  <2>12. back = Append(q, s)
    BY <2>7, <2>8, <2>9
  <2> QED
    <3>1. Listed(back, q, s, m)
      BY <2>10, <2>12 DEF Listed
    <3> QED
      BY <2>11, <3>1, PutIn
<1> QED
  BY <1>9, <1>10

-----------------------------------------------------------------------------
(* Numbers.                                                                *)

\* A set of numbers has a least one.
LEMMA Least ==
    ASSUME NEW S \in SUBSET Nat, S # {}
    PROVE  \E m \in S : \A x \in S : m <= x
<1> DEFINE R == {ss \in Nat \X Nat : ss[1] < ss[2]}
<1>1. IsWellFoundedOn(R, Nat)
  BY NatLessThanWellFounded DEF OpToRel
<1>2. PICK m \in S : \A u \in S : ~(<<u, m>> \in R)
  <2> HIDE DEF R
  <2> QED
    BY <1>1, WFMin
<1>3. \A u \in S : m <= u
  <2>1. ASSUME NEW u \in S PROVE m <= u
    <3>1. u \in Nat /\ m \in Nat /\ ~(<<u, m>> \in R)
      BY <1>2
    <3> QED
      BY <3>1
  <2> QED
    BY <2>1
<1> QED
  BY <1>3

\* A set that holds 0 and the successors of its numbers holds all of them.
LEMMA Induction ==
    ASSUME NEW S \in SUBSET Nat, 0 \in S, \A n \in S : n + 1 \in S
    PROVE  Nat \subseteq S
<1> DEFINE M == Nat \ S
<1>1. SUFFICES ASSUME M # {} PROVE FALSE
  OBVIOUS
<1>2. PICK m \in M : \A u \in M : m <= u
  <2>1. M \in SUBSET Nat
    OBVIOUS
  <2> HIDE DEF M
  <2> QED
    BY <1>1, <2>1, Least
<1>3. m \in Nat /\ m # 0 /\ m \notin S
  OBVIOUS
<1>4. m - 1 \in Nat /\ ~(m <= m - 1) /\ (m - 1) + 1 = m
  BY <1>3
<1>5. m - 1 \notin S
  BY <1>3, <1>4
<1> QED
  BY <1>2, <1>4, <1>5

-----------------------------------------------------------------------------
(* The canonical layout.                                                   *)

\* The layout is the function that its definition describes.
LEMMA CanonFacts ==
    ASSUME Len(Order) \in Nat
    PROVE  /\ Canon[0] = [free |-> {}, n |-> 0, seg |-> NoSeg]
           /\ \A k \in 1 .. Len(Order) : Canon[k] = NextFit(Canon[k - 1], Order[k].size)
<1> DEFINE start == [free |-> {}, n |-> 0, seg |-> NoSeg]
           Good(f, n) == /\ f = [k \in 0 .. n |-> f[k]]
                         /\ \A k \in 0 .. n :
                              f[k] = IF k = 0 THEN start ELSE NextFit(f[k - 1], Order[k].size)
           Upto(n) == \E f : Good(f, n)
           S == {n \in Nat : Upto(n)}
<1> HIDE DEF start
<1>1. Upto(0)
  <2> DEFINE f == [k \in 0 .. 0 |-> start]
  <2>1. f = [k \in 0 .. 0 |-> f[k]] /\ \A k \in 0 .. 0 : k = 0 /\ f[k] = start
    OBVIOUS
  <2> HIDE DEF f
  <2> QED
    BY <2>1
<1>2. ASSUME NEW n \in Nat, Upto(n) PROVE Upto(n + 1)
  <2>1. PICK f : Good(f, n)
    BY <1>2
  <2>w. PICK w : w = NextFit(f[n], Order[n + 1].size)
    OBVIOUS
  <2> DEFINE g == [k \in 0 .. n + 1 |-> IF k = n + 1 THEN w ELSE f[k]]
  <2>2. ASSUME NEW k \in 0 .. n + 1
        PROVE  g[k] = IF k = 0 THEN start ELSE NextFit(g[k - 1], Order[k].size)
    <3>1. CASE k = n + 1
      <4>1. g[k] = w /\ k - 1 = n /\ g[n] = f[n] /\ k # 0
        BY <3>1
      <4> QED
        BY <2>w, <3>1, <4>1
    <3>2. CASE k # n + 1
      <4>1. k \in 0 .. n /\ g[k] = f[k] /\ (k # 0 => k - 1 \in 0 .. n /\ g[k - 1] = f[k - 1])
        BY <3>2
      <4>2. f[k] = IF k = 0 THEN start ELSE NextFit(f[k - 1], Order[k].size)
        BY <2>1, <4>1
      <4> QED
        BY <4>1, <4>2
    <3> QED
      BY <3>1, <3>2
  <2>3. g = [k \in 0 .. n + 1 |-> g[k]]
    OBVIOUS
  <2> HIDE DEF g
  <2>4. Good(g, n + 1)
    BY <2>2, <2>3
  <2> QED
    BY <2>4
<1> HIDE DEF Upto
<1>3. 0 \in S /\ \A n \in S : n + 1 \in S
  BY <1>1, <1>2
<1>4. S \in SUBSET Nat
  OBVIOUS
<1> HIDE DEF S
<1>5. Nat \subseteq S
  BY <1>3, <1>4, Induction
<1>6. Upto(Len(Order))
  BY <1>5 DEF S
<1>7. PICK f : Good(f, Len(Order))
  BY <1>6 DEF Upto
<1> DEFINE Is(x) == x = [k \in 0 .. Len(Order) |->
                            IF k = 0 THEN start ELSE NextFit(x[k - 1], Order[k].size)]
<1>8. Is(f)
  BY <1>7
<1>9. Canon = CHOOSE x : Is(x)
  BY DEF Canon, start
<1> HIDE DEF Is
<1>10. Is(Canon)
  BY <1>8, <1>9
<1>11. \A k \in 0 .. Len(Order) :
         Canon[k] = IF k = 0 THEN start ELSE NextFit(Canon[k - 1], Order[k].size)
  BY <1>10 DEF Is
<1>12. Canon[0] = start
  BY <1>11
<1>13. \A k \in 1 .. Len(Order) : k \in 0 .. Len(Order) /\ k # 0
  OBVIOUS
<1> QED
  BY <1>11, <1>12, <1>13 DEF start

\* Segment s is the one that the layout takes next: a new file, or the only smallest one.
TakesNew(c, size, s) == s = Whole(c.n + 1) /\ {x \in c.free : x.size >= size} = {}
TakesFree(c, size, s) ==
    /\ s \in c.free /\ s.size >= size
    /\ \A t \in c.free : t.size >= size => s.size <= t.size
    /\ \A x \in c.free :
          x.size >= size /\ (\A t \in c.free : t.size >= size => x.size <= t.size) => x = s

\* The step of the layout that takes s.
LEMMA NextFitTakes ==
    ASSUME NEW c, NEW size, NEW s, TakesNew(c, size, s) \/ TakesFree(c, size, s)
    PROVE  /\ NextFit(c, size).free =
                (c.free \ {s}) \union (IF s.size = size THEN {} ELSE {Rest(s, size)})
           /\ NextFit(c, size).n = IF TakesNew(c, size, s) THEN c.n + 1 ELSE c.n
           /\ NextFit(c, size).seg = Cut(s, size)
<1> DEFINE fits == {x \in c.free : x.size >= size}
           best == IF fits = {} THEN Whole(c.n + 1)
                   ELSE CHOOSE x \in fits : \A t \in fits : x.size <= t.size
<1>0. TakesNew(c, size, s) <=> fits = {}
  BY DEF TakesNew, TakesFree
<1>1. best = s
  <2>1. CASE fits = {}
    BY <1>0, <2>1 DEF TakesNew
  <2>2. CASE fits # {}
    <3>1. s \in fits /\ \A t \in fits : s.size <= t.size
      BY <1>0, <2>2 DEF TakesFree
    <3>2. \A x \in fits : (\A t \in fits : x.size <= t.size) => x = s
      BY <1>0, <2>2 DEF TakesFree
    <3> QED
      BY <2>2, <3>1, <3>2
  <2> QED
    BY <2>1, <2>2
<1>2. NextFit(c, size) =
        [free |-> (c.free \ {best}) \union
                  (IF best.size = size THEN {} ELSE {Seg(best.file, best.off + size, best.size - size)}),
         n |-> IF fits = {} THEN c.n + 1 ELSE c.n,
         seg |-> Seg(best.file, best.off, size)]
  BY DEF NextFit
<1> HIDE DEF best
<1> QED
  BY <1>0, <1>1, <1>2 DEF Cut, Rest

\* There is no other segment of the size of s that fits.
Only(s, list, size) == \A t \in ToSet(list) : t.size >= size /\ t # s => s.size < t.size

\* An allocation of a process that follows the layout follows it.
LEMMA FollowCut ==
    ASSUME NEW n \in Nat, NEW list, FreeInv(list, n), NEW size \in 1 .. mmapSize,
           NEW s, NEW out, NEW m, Taken(s, list, n, size, out, m), Only(s, list, size),
           NEW c, Follows(list, n, c)
    PROVE  /\ Follows(After(out, s, size), m, NextFit(c, size))
           /\ NextFit(c, size).seg = Cut(s, size)
<1>1. /\ m \in {n, n + 1} /\ FreeInv(out, m) /\ s \in SegmentIn(m)
      /\ s.off + s.size = mmapSize /\ size <= s.size
      /\ ToSet(out) = ToSet(list) \ {s} /\ \A t \in ToSet(out) : t.file # s.file
  BY TakenFacts
<1>2. /\ mmapSize \in Nat \ {0} /\ s.off \in 0 .. mmapSize - 1 /\ s.size \in 1 .. mmapSize
      /\ s.file \in Nat \ {0} /\ size \in 1 .. s.size /\ m \in Nat
  BY <1>1, NetAssumption DEF SegmentIn, Segment
<1>3. PICK R : R = IF s.size = size THEN {} ELSE {Rest(s, size)}
  OBVIOUS
<1>4. PICK G : G = ToSet(After(out, s, size))
  OBVIOUS
<1>5. G = (ToSet(list) \ {s}) \union R
  BY <1>1, <1>2, <1>3, <1>4, AfterFacts
<1>6. \A t \in ToSet(list) : t \in SegmentIn(n) /\ t.size \in 1 .. mmapSize /\ t.size \in Int
  BY MoreFiles DEF SegmentIn, Segment
<1>7. \/ /\ m = n + 1 /\ s = Whole(n + 1) /\ \A t \in ToSet(list) : t.size < size
      \/ /\ m = n /\ s \in ToSet(list)
         /\ \A t \in ToSet(list) : t.size >= size => s.size <= t.size
  <2>1. ASSUME NEW i \in 1 .. Len(list), s = list[i] PROVE s \in ToSet(list)
    BY <2>1 DEF ToSet, FreeInv
  <2> QED
    BY <2>1 DEF Taken
<1>8. ASSUME NEW x \in ToSet(list), x.size >= size,
             \A t \in ToSet(list) : t.size >= size => x.size <= t.size, s \in ToSet(list)
      PROVE  x = s
  <2>1. x # s => s.size < x.size
    BY <1>8 DEF Only
  <2>2. x.size <= s.size
    BY <1>1, <1>2, <1>8
  <2> QED
    BY <1>2, <1>6, <2>1, <2>2
<1>9. Whole(n).size = mmapSize /\ Whole(n).off = 0 /\ Whole(n).file = n
  BY DEF Whole, Seg
<1>10. PICK N : N = NextFit(c, size)
  OBVIOUS
<1> DEFINE fits == {x \in c.free : x.size >= size}
<1>11. CASE n = c.n /\ ToSet(list) = c.free
  <2>1. CASE m = n + 1 /\ s = Whole(n + 1) /\ \A t \in ToSet(list) : t.size < size
    <3>1. fits = {}
      BY <1>2, <1>6, <1>11, <2>1
    <3>2. N.free = (c.free \ {s}) \union R /\ N.n = c.n + 1 /\ N.seg = Cut(s, size)
      <4>1. TakesNew(c, size, s)
        BY <1>11, <2>1, <3>1 DEF TakesNew
      <4> QED
        BY <1>3, <1>10, <4>1, NextFitTakes
    <3> QED
      BY <1>4, <1>5, <1>10, <1>11, <2>1, <3>2 DEF Follows
  <2>2. CASE /\ m = n /\ s \in ToSet(list)
             /\ \A t \in ToSet(list) : t.size >= size => s.size <= t.size
    <3>1. s \in fits
      BY <1>1, <1>2, <1>11, <2>2
    <3>2. N.free = (c.free \ {s}) \union R /\ N.n = c.n /\ N.seg = Cut(s, size)
      <4>1. TakesFree(c, size, s) /\ ~TakesNew(c, size, s)
        BY <1>8, <1>11, <2>2, <3>1 DEF TakesFree, TakesNew
      <4> QED
        BY <1>3, <1>10, <4>1, NextFitTakes
    <3> QED
      BY <1>4, <1>5, <1>10, <1>11, <2>2, <3>2 DEF Follows
  <2> QED
    BY <1>7, <2>1, <2>2
<1>12. CASE n = c.n + 1 /\ Whole(n) \notin c.free /\ ToSet(list) = c.free \union {Whole(n)} /\ c.n \in Nat
  <2>1. /\ m = n /\ s \in ToSet(list)
        /\ \A t \in ToSet(list) : t.size >= size => s.size <= t.size
    <3>1. Whole(n) \in ToSet(list) /\ ~(Whole(n).size < size)
      BY <1>2, <1>9, <1>12
    <3> QED
      BY <1>7, <3>1
  <2>2. CASE s = Whole(n)
    <3>1. fits = {}
      <4>1. ASSUME NEW t \in fits PROVE FALSE
        <5>1. t \in ToSet(list) /\ t # s /\ t.size >= size
          BY <1>12, <2>2
        <5>2. s.size < t.size
          BY <5>1 DEF Only
        <5> QED
          BY <1>2, <1>6, <1>9, <2>2, <5>1, <5>2
      <4> QED
        BY <4>1
    <3>2. N.free = (c.free \ {s}) \union R /\ N.n = c.n + 1 /\ N.seg = Cut(s, size)
      <4>1. TakesNew(c, size, s)
        BY <1>12, <2>2, <3>1 DEF TakesNew
      <4> QED
        BY <1>3, <1>10, <4>1, NextFitTakes
    <3>3. G = (c.free \ {s}) \union R
      BY <1>5, <1>12, <2>2
    <3> QED
      BY <1>4, <1>10, <1>12, <2>1, <3>2, <3>3 DEF Follows
  <2>3. CASE s # Whole(n)
    <3>1. s \in fits /\ s \in c.free
      BY <1>1, <1>2, <1>12, <2>1, <2>3
    <3>2. ASSUME NEW x \in c.free, x.size >= size, \A t \in c.free : t.size >= size => x.size <= t.size
          PROVE  x = s
      <4>1. x.size <= s.size
        BY <1>1, <1>2, <3>1, <3>2
      <4>2. \A t \in ToSet(list) : t.size >= size => x.size <= t.size
        BY <1>2, <1>6, <1>9, <1>12, <3>2
      <4> QED
        BY <1>8, <1>12, <2>1, <3>2, <4>2
    <3>3. \A t \in c.free : t.size >= size => s.size <= t.size
      BY <1>12, <2>1
    <3>4. N.free = (c.free \ {s}) \union R /\ N.n = c.n /\ N.seg = Cut(s, size)
      <4>1. TakesFree(c, size, s) /\ ~TakesNew(c, size, s)
        BY <3>1, <3>2, <3>3 DEF TakesFree, TakesNew
      <4> QED
        BY <1>3, <1>10, <4>1, NextFitTakes
    <3>5. G = N.free \union {Whole(n)}
      BY <1>5, <1>12, <2>3, <3>4
    <3>6. Whole(n) \notin N.free
      <4>1. s.size # size => Rest(s, size).off # 0
        BY <1>1, <1>2, CutFacts
      <4> QED
        BY <1>3, <1>9, <1>12, <3>4, <4>1
    <3> QED
      BY <1>4, <1>10, <1>12, <2>1, <3>4, <3>5, <3>6 DEF Follows
  <2> QED
    BY <2>2, <2>3
<1> QED
  BY <1>11, <1>12 DEF Follows

\* A temporary leaves the process where it was, with at most one more file.
LEMMA FollowTemp ==
    ASSUME NEW n \in Nat, NEW list, FreeInv(list, n), NEW size \in 1 .. mmapSize,
           NEW s, NEW out, NEW m, Taken(s, list, n, size, out, m),
           NEW back, ToSet(back) = ToSet(out) \union {s},
           NEW c, Follows(list, n, c)
    PROVE  Follows(back, m, c)
<1>1. ToSet(out) = ToSet(list) \ {s}
  BY TakenFacts
<1>2. \A t \in ToSet(list) : t.file # n + 1
  BY MoreFiles
<1>3. CASE m = n + 1 /\ s = Whole(n + 1) /\ \A t \in ToSet(list) : t.size < size
  <2>1. s.file = n + 1 /\ s \notin ToSet(list)
    BY <1>2, <1>3 DEF Whole, Seg
  <2>2. ~(n = c.n + 1 /\ ToSet(list) = c.free \union {Whole(n)})
    <3>1. Whole(n) \in ToSet(list) => Whole(n).size < size
      BY <1>3
    <3>2. Whole(n).size = mmapSize /\ mmapSize \in Nat
      BY NetAssumption DEF Whole, Seg
    <3> QED
      BY <3>1, <3>2
  <2>3. n = c.n /\ ToSet(list) = c.free /\ c.n \in Nat
    BY <2>2 DEF Follows
  <2>4. ToSet(back) = c.free \union {Whole(m)} /\ Whole(m) \notin c.free
    BY <1>1, <1>3, <2>1, <2>3
  <2> QED
    BY <1>3, <2>3, <2>4 DEF Follows
<1>4. CASE m = n /\ s \in ToSet(list)
  <2>1. ToSet(back) = ToSet(list)
    BY <1>1, <1>4
  <2> QED
    BY <1>4, <2>1 DEF Follows
<1>5. ASSUME NEW i \in 1 .. Len(list), s = list[i] PROVE s \in ToSet(list)
  BY <1>5 DEF ToSet, FreeInv
<1> QED
  BY <1>3, <1>4, <1>5 DEF Taken

-----------------------------------------------------------------------------
(* The order of the operators.                                             *)

\* The modules are sequences of operators.
LEMMA NetFacts ==
    /\ mmapSize \in Nat \ {0} /\ Len(Net) \in Nat /\ Op \subseteq OpType
    /\ \A m \in 1 .. Len(Net) : Net[m] \in Seq(Op) /\ Len(Net[m]) \in Nat /\ Net[m] \in Seq(OpType)
<1>1. mmapSize \in Nat \ {0} /\ Net \in Seq(Seq(OpType))
  BY NetAssumption DEF OpType
<1>2. Len(Net) \in Nat /\ DOMAIN Net = 1 .. Len(Net) /\ \A m \in 1 .. Len(Net) : Net[m] \in Seq(OpType)
  BY <1>1
<1>3. ASSUME NEW m \in 1 .. Len(Net) PROVE Net[m] \in Seq(Op) /\ ToSet(Net[m]) \subseteq OpType
  <2>1. PICK s \in Seq(OpType) : s = Net[m]
    BY <1>2
  <2>2. ToSet(s) = {s[i] : i \in 1 .. Len(s)} /\ ToSet(s) \subseteq OpType
    BY DEF ToSet
  <2>3. ToSet(s) \subseteq Op
    BY <1>2, <2>1 DEF Op
  <2>4. \A i \in 1 .. Len(s) : s[i] \in Op
    BY <2>2, <2>3
  <2>5. s \in Seq(Op)
    BY <2>4
  <2> QED
    BY <2>1, <2>2, <2>5
<1>4. Op \subseteq OpType
  BY <1>2, <1>3 DEF Op
<1> QED
  BY <1>1, <1>2, <1>3, <1>4

\* What FlattenSeq goes through.
LEMMA FlatFacts ==
    ASSUME NEW m \in 1 .. Len(Net)
    PROVE  Flat[m] = IF m = 1 THEN Net[m] ELSE Flat[m - 1] \o Net[m]
<1>0. PICK N \in Nat : N = Len(Net)
  BY NetFacts
<1> DEFINE Good(f, n) == /\ f = [k \in 1 .. n |-> f[k]]
                         /\ \A k \in 1 .. n : f[k] = IF k = 1 THEN Net[k] ELSE f[k - 1] \o Net[k]
           Upto(n) == \E f : Good(f, n)
           S == {n \in Nat : Upto(n)}
<1>1. Upto(0)
  <2> DEFINE f == [k \in 1 .. 0 |-> 0]
  <2>1. f = [k \in 1 .. 0 |-> f[k]] /\ ~(\E k \in 1 .. 0 : TRUE)
    OBVIOUS
  <2> HIDE DEF f
  <2> QED
    BY <2>1
<1>2. ASSUME NEW n \in Nat, Upto(n) PROVE Upto(n + 1)
  <2>1. PICK f : Good(f, n)
    BY <1>2
  <2>w. PICK w : w = IF n + 1 = 1 THEN Net[n + 1] ELSE f[n] \o Net[n + 1]
    OBVIOUS
  <2> DEFINE g == [k \in 1 .. n + 1 |-> IF k = n + 1 THEN w ELSE f[k]]
  <2>2. ASSUME NEW k \in 1 .. n + 1
        PROVE  g[k] = IF k = 1 THEN Net[k] ELSE g[k - 1] \o Net[k]
    <3>1. CASE k = n + 1
      <4>1. g[k] = w /\ k - 1 = n /\ (k # 1 => g[n] = f[n])
        BY <3>1
      <4> QED
        BY <2>w, <3>1, <4>1
    <3>2. CASE k # n + 1
      <4>1. k \in 1 .. n /\ g[k] = f[k] /\ (k # 1 => k - 1 \in 1 .. n /\ g[k - 1] = f[k - 1])
        BY <3>2
      <4>2. f[k] = IF k = 1 THEN Net[k] ELSE f[k - 1] \o Net[k]
        BY <2>1, <4>1
      <4> QED
        BY <4>1, <4>2
    <3> QED
      BY <3>1, <3>2
  <2>3. g = [k \in 1 .. n + 1 |-> g[k]]
    OBVIOUS
  <2> HIDE DEF g
  <2>4. Good(g, n + 1)
    BY <2>2, <2>3
  <2> QED
    BY <2>4
<1> HIDE DEF Upto
<1>3. 0 \in S /\ \A n \in S : n + 1 \in S
  BY <1>1, <1>2
<1>4. S \in SUBSET Nat
  OBVIOUS
<1> HIDE DEF S
<1>5. Nat \subseteq S
  BY <1>3, <1>4, Induction
<1>6. Upto(N)
  BY <1>5 DEF S
<1>7. PICK f : Good(f, N)
  BY <1>6 DEF Upto
<1> DEFINE Is(x) == x = [k \in 1 .. Len(Net) |-> IF k = 1 THEN Net[k] ELSE x[k - 1] \o Net[k]]
<1>8. Is(f)
  BY <1>0, <1>7
<1>9. Flat = CHOOSE x : Is(x)
  BY DEF Flat
<1> HIDE DEF Is
<1>10. Is(Flat)
  BY <1>8, <1>9
<1> QED
  BY <1>10 DEF Is

\* The operators of the modules follow each other in the order.
LEMMA OrderFacts ==
    /\ Order \in Seq(Op) /\ Len(Order) \in Nat
    /\ \A m \in 0 .. Len(Net) : Before(m) \in Nat /\ Before(m) <= Len(Order)
    /\ \A m \in 1 .. Len(Net) : Before(m) = Before(m - 1) + Len(Net[m])
    /\ \A m \in 1 .. Len(Net), i \in Nat :
          i \in 1 .. Len(Net[m]) => Order[Before(m - 1) + i] = Net[m][i]
<1>0. PICK N \in Nat : N = Len(Net)
  BY NetFacts
<1>1. \A m \in 1 .. N : Net[m] \in Seq(Op) /\ Len(Net[m]) \in Nat
  BY <1>0, NetFacts
<1>2. Before(0) = 0 /\ \A m \in 1 .. N : Before(m) = Len(Flat[m])
  BY DEF Before
<1> DEFINE At(m, F) == /\ Before(m - 1) \in Nat /\ Before(m) = Before(m - 1) + Len(Net[m])
                       /\ Before(m) <= Len(F)
                       /\ \A i \in Nat : i \in 1 .. Len(Net[m]) => F[Before(m - 1) + i] = Net[m][i]
           P(n) == /\ Flat[n] \in Seq(Op) /\ Before(n) = Len(Flat[n])
                   /\ \A m \in 1 .. n : At(m, Flat[n])
           S == {n \in Nat : n + 1 <= N => P(n + 1)}
<1> HIDE DEF At
<1>3. ASSUME 1 <= N PROVE P(1)
  <2>1. 1 \in 1 .. N /\ Flat[1] = Net[1]
    BY <1>0, <1>3, FlatFacts
  <2>2. PICK s \in Seq(Op) : s = Net[1]
    BY <1>1, <2>1
  <2>3. Flat[1] \in Seq(Op) /\ Before(1) = Len(s) /\ Before(1 - 1) = 0
    BY <1>2, <2>1, <2>2
  <2>4. At(1, Flat[1])
    BY <2>1, <2>2, <2>3 DEF At
  <2>5. \A m \in 1 .. 1 : m = 1
    OBVIOUS
  <2> QED
    BY <1>2, <2>1, <2>3, <2>4, <2>5
<1>4. ASSUME NEW n \in Nat, n + 2 <= N, P(n + 1) PROVE P(n + 2)
  <2>1. /\ n + 2 \in 1 .. N /\ n + 1 \in 1 .. N /\ (n + 2) - 1 = n + 1 /\ n + 2 # 1
    BY <1>4
  <2>2. PICK s \in Seq(Op) : s = Flat[n + 1]
    BY <1>4
  <2>3. PICK t \in Seq(Op) : t = Net[n + 2]
    BY <1>1, <2>1
  <2>4. PICK u : u = Flat[n + 2]
    OBVIOUS
  <2>5. u = s \o t
    BY <1>0, <2>1, <2>2, <2>3, <2>4, FlatFacts
  <2>6. /\ u \in Seq(Op) /\ Len(u) = Len(s) + Len(t)
        /\ \A i \in 1 .. Len(s) + Len(t) : u[i] = IF i <= Len(s) THEN s[i] ELSE t[i - Len(s)]
    BY <2>5, ConcatProperties
  <2>7. Before(n + 1) = Len(s) /\ Before(n + 2) = Len(u) /\ Len(s) \in Nat /\ Len(t) \in Nat
    BY <1>2, <2>1, <2>2, <2>4
  <2>8. At(n + 2, u)
    <3>1. ASSUME NEW i \in Nat, i \in 1 .. Len(t) PROVE u[Len(s) + i] = t[i]
      <4>1. /\ Len(s) + i \in 1 .. Len(s) + Len(t) /\ ~(Len(s) + i <= Len(s))
            /\ (Len(s) + i) - Len(s) = i
        BY <2>7, <3>1
      <4> QED
        BY <2>6, <4>1
    <3>2. Before((n + 2) - 1) = Len(s)
      BY <2>1, <2>7
    <3>3. Before(n + 2) = Len(s) + Len(t) /\ Len(u) = Len(s) + Len(t)
      BY <2>6, <2>7
    <3>4. Before((n + 2) - 1) \in Nat /\ Before(n + 2) <= Len(u)
          /\ Before(n + 2) = Before((n + 2) - 1) + Len(t)
      BY <2>7, <3>2, <3>3
    <3>5. ASSUME NEW i \in Nat, i \in 1 .. Len(t) PROVE u[Before((n + 2) - 1) + i] = t[i]
      BY <3>1, <3>2, <3>5, Zenon
    <3> QED
      BY <2>3, <3>4, <3>5, Zenon DEF At
  <2>9. ASSUME NEW m \in 1 .. n + 1 PROVE At(m, u)
    <3>1. At(m, s)
      BY <1>4, <2>2
    <3>2. /\ Before(m - 1) \in Nat /\ Before(m) = Before(m - 1) + Len(Net[m])
          /\ Before(m) <= Len(s) /\ Len(Net[m]) \in Nat
          /\ \A i \in Nat : i \in 1 .. Len(Net[m]) => s[Before(m - 1) + i] = Net[m][i]
      <4>1. m \in 1 .. N
        BY <1>4
      <4> QED
        BY <1>1, <3>1, <4>1 DEF At
    <3>3. Before(m) <= Len(u)
      BY <2>6, <2>7, <3>2
    <3>4. ASSUME NEW i \in Nat, i \in 1 .. Len(Net[m]) PROVE u[Before(m - 1) + i] = Net[m][i]
      <4>1. /\ Before(m - 1) + i \in 1 .. Len(s) + Len(t) /\ Before(m - 1) + i <= Len(s)
        BY <2>7, <3>2, <3>4
      <4>2. u[Before(m - 1) + i] = s[Before(m - 1) + i]
        BY <2>6, <4>1
      <4> QED
        BY <3>2, <3>4, <4>2
    <3> QED
      BY <3>2, <3>3, <3>4 DEF At
  <2>10. \A m \in 1 .. n + 2 : m \in 1 .. n + 1 \/ m = n + 2
    OBVIOUS
  <2> QED
    BY <2>4, <2>6, <2>7, <2>8, <2>9, <2>10
<1> HIDE DEF P
<1>5. 0 \in S
  BY <1>3
<1>6. ASSUME NEW n \in S PROVE n + 1 \in S
  <2>1. n \in Nat /\ (n + 1 <= N => P(n + 1))
    OBVIOUS
  <2>2. ASSUME (n + 1) + 1 <= N PROVE P((n + 1) + 1)
    <3>1. n + 2 <= N /\ n + 1 <= N /\ n + 2 = (n + 1) + 1
      BY <2>1, <2>2
    <3>2. P(n + 2)
      BY <1>4, <2>1, <3>1
    <3> QED
      BY <3>1, <3>2
  <2> QED
    BY <2>1, <2>2
<1>7. S \in SUBSET Nat
  OBVIOUS
<1> HIDE DEF S
<1>8. Nat \subseteq S
  BY <1>5, <1>6, <1>7, Induction
<1>9. CASE N = 0
  <2>1. Order = Net /\ Net = << >>
    <3>1. Net \in Seq(Seq(OpType))
      BY NetAssumption DEF OpType
    <3>2. Net = << >>
      BY <1>0, <1>9, <3>1, EmptySeq
    <3>3. Len(Net) = 0
      BY <1>0, <1>9
    <3> QED
      BY <3>2, <3>3, Zenon DEF Order, FlattenSeq
  <2>2. \A m \in 0 .. N : m = 0
    BY <1>9
  <2>3. ~(\E m \in 1 .. N : TRUE)
    BY <1>9
  <2> QED
    BY <1>0, <1>2, <1>9, <2>1, <2>2, <2>3
<1>10. CASE N > 0
  <2>1. P(N)
    <3>1. N - 1 \in Nat /\ (N - 1) + 1 = N
      BY <1>10
    <3>2. N - 1 \in S
      BY <1>8, <3>1
    <3> QED
      BY <3>1, <3>2 DEF S
  <2>2. Order = Flat[N]
    BY <1>0, <1>10 DEF Order, FlattenSeq, Flat
  <2>3. Order \in Seq(Op) /\ Before(N) = Len(Order) /\ \A m \in 1 .. N : At(m, Order)
    BY <2>1, <2>2 DEF P
  <2>4. \A m \in 1 .. N : /\ Before(m - 1) \in Nat /\ Before(m) = Before(m - 1) + Len(Net[m])
                          /\ Before(m) <= Len(Order) /\ Len(Net[m]) \in Nat
                          /\ \A i \in Nat : i \in 1 .. Len(Net[m]) => Order[Before(m - 1) + i] = Net[m][i]
    BY <1>1, <2>3 DEF At
  <2>5. \A m \in 0 .. N : m = 0 \/ m \in 1 .. N
    OBVIOUS
  <2>6. \A m \in 0 .. N : Before(m) \in Nat /\ Before(m) <= Len(Order)
    BY <1>2, <2>3, <2>4, <2>5
  <2> QED
    BY <1>0, <2>3, <2>4, <2>6
<1> QED
  BY <1>9, <1>10

-----------------------------------------------------------------------------
(* Allocations of a process.                                               *)

\* What lower_bound finds.
LEMMA FittingFacts ==
    ASSUME NEW p, NEW n \in Nat, FreeInv(p.mFreeList, n), NEW size \in 1 .. mmapSize
    PROVE  /\ Fitting(p, size) = {} => \A t \in ToSet(p.mFreeList) : t.size < size
           /\ Fitting(p, size) # {} => LowerBound(p, size) \in Fitting(p, size)
           /\ \A i \in Fitting(p, size) :
                /\ i \in 1 .. Len(p.mFreeList) /\ size <= p.mFreeList[i].size
                /\ \A t \in ToSet(p.mFreeList) : t.size >= size => p.mFreeList[i].size <= t.size
                /\ Cardinality(Fitting(p, size)) <= 1 => Only(p.mFreeList[i], p.mFreeList, size)
<1>1. PICK list : list = p.mFreeList
  OBVIOUS
<1>2. PICK m \in Nat : m = Len(list)
  BY <1>1 DEF FreeInv
<1>3. /\ DOMAIN list = 1 .. m /\ \A i \in 1 .. m : list[i].size \in Nat
      /\ ToSet(list) = {list[i] : i \in 1 .. m} /\ size \in Nat
  <2>1. list \in Seq(SegmentIn(n)) /\ \A s \in SegmentIn(n) : s.size \in Nat
    BY <1>1, NetFacts DEF FreeInv, SegmentIn, Segment
  <2>2. size \in Nat
    BY NetFacts
  <2>3. DOMAIN list = 1 .. m /\ \A i \in 1 .. m : list[i] \in SegmentIn(n)
    BY <1>2, <2>1
  <2> QED
    BY <2>1, <2>2, <2>3 DEF ToSet
<1> DEFINE fits == {i \in 1 .. m : list[i].size >= size}
<1>4. PICK F : F = Fitting(p, size)
  OBVIOUS
<1>5. F = {i \in fits : \A j \in fits : list[i].size <= list[j].size}
  BY <1>1, <1>3, <1>4 DEF Fitting
<1>6. F = {} => fits = {}
  <2>1. SUFFICES ASSUME fits # {} PROVE F # {}
    OBVIOUS
  <2> DEFINE sizes == {list[i].size : i \in fits}
  <2>2. sizes \in SUBSET Nat /\ sizes # {}
    BY <1>3, <2>1
  <2>3. PICK x \in sizes : \A y \in sizes : x <= y
    <3> HIDE DEF sizes
    <3> QED
      BY <2>2, Least
  <2>4. PICK i \in fits : x = list[i].size
    OBVIOUS
  <2>5. i \in F
    BY <1>5, <2>3, <2>4
  <2> QED
    BY <2>5
<1>7. F \in SUBSET Nat
  BY <1>5
<1>8. F # {} => LowerBound(p, size) \in F
  <2>1. SUFFICES ASSUME F # {} PROVE LowerBound(p, size) \in F
    OBVIOUS
  <2>2. \E x \in F : \A y \in F : x <= y
    BY <1>7, <2>1, Least
  <2>3. LowerBound(p, size) = CHOOSE x \in F : \A y \in F : x <= y
    BY <1>4 DEF LowerBound
  <2> QED
    BY <2>2, <2>3
<1>9. fits = {} => \A t \in ToSet(list) : t.size < size
  BY <1>3
<1>10. ASSUME NEW i \in F
       PROVE  /\ i \in 1 .. m /\ size <= list[i].size
              /\ \A t \in ToSet(list) : t.size >= size => list[i].size <= t.size
  BY <1>3, <1>5
<1>11. ASSUME Cardinality(F) <= 1, NEW i \in F PROVE Only(list[i], list, size)
  <2>1. IsFiniteSet(F)
    <3>1. IsFiniteSet(1 .. m) /\ F \subseteq 1 .. m
      BY <1>5, FS_Interval
    <3> QED
      BY <3>1, FS_Subset
  <2>2. Cardinality(F) \in Nat /\ IsFiniteSet(F \ {i}) /\ Cardinality(F \ {i}) = Cardinality(F) - 1
    BY <1>11, <2>1, FS_CardinalityType, FS_RemoveElement
  <2>3. Cardinality(F \ {i}) \in Nat
    BY <2>2, FS_CardinalityType
  <2>4. Cardinality(F \ {i}) = 0
    BY <1>11, <2>2, <2>3
  <2>5. F \ {i} = {}
    BY <2>2, <2>4, FS_EmptySet
  <2>6. ASSUME NEW t \in ToSet(list), t.size >= size, t # list[i] PROVE list[i].size < t.size
    <3>1. PICK j \in 1 .. m : t = list[j]
      BY <1>3, <2>6
    <3>2. j # i /\ j \notin F
      BY <2>5, <2>6, <3>1
    <3>3. list[i].size <= t.size
      BY <1>10, <1>11, <2>6
    <3>4. i \in 1 .. m /\ list[i].size \in Nat /\ list[j].size \in Nat
      BY <1>3, <1>5, <1>11
    <3>5. list[i].size # list[j].size
      BY <1>5, <1>11, <2>6, <3>1, <3>2
    <3> QED
      BY <3>1, <3>3, <3>4, <3>5
  <2> QED
    BY <2>6 DEF Only
<1> QED
  BY <1>1, <1>2, <1>4, <1>6, <1>8, <1>9, <1>10, <1>11

\* The fields of a process that the allocator does not know.
Others(p) == <<p.pc, p.user, p.useCachedMmap, p.allocator, p.mRemove, p.at, p.seg, p.todo,
               p.late, p.loaded, p.then>>

\* The files after one may have been opened.
Opened(d, n, m) ==
    IF m = n THEN d
    ELSE [g \in DOMAIN d \union {n + 1} |->
             IF g \in DOMAIN d THEN d[g] ELSE [mem |-> ZeroFile, dur |-> ZeroFile]]

\* What an allocation of size units of process p with files d answers.
Answers(a, p, d, size, s, out, m) ==
    /\ Taken(s, p.mFreeList, p.mAllocTimes, size, out, m)
    /\ a.seg = Cut(s, size) /\ a.d = Opened(d, p.mAllocTimes, m)
    /\ DOMAIN a.p = Fields /\ a.p.mFreeList = After(out, s, size) /\ a.p.mAllocTimes = m
    /\ Others(a.p) = Others(p)
    /\ Cardinality(Fitting(p, size)) <= 1 => Only(s, p.mFreeList, size)

\* EagerBufferAllocator::alloc cuts a segment.
LEMMA AllocFacts ==
    ASSUME NEW p, DOMAIN p = Fields, p.mAllocTimes \in Nat, FreeInv(p.mFreeList, p.mAllocTimes),
           NEW d, NEW size \in 1 .. mmapSize, NEW a, a = Alloc(p, d, size)
    PROVE  \E s, out, m : Answers(a, p, d, size, s, out, m)
<1>1. PICK list : list = p.mFreeList
  OBVIOUS
<1>2. PICK n \in Nat : n = p.mAllocTimes
  OBVIOUS
<1>3. CASE Fitting(p, size) = {}
  <2> DEFINE s == Whole(n + 1)
             q == [p EXCEPT !.mAllocTimes = n + 1, !.mNewMmap = @ \/ (n + 1) \notin DOMAIN d]
  <2>1. a = [p |-> Split(q, s, size), d |-> Opened(d, n, n + 1), seg |-> Seg(s.file, 0, size)]
    <3>1. n + 1 # n
      OBVIOUS
    <3> QED
      BY <1>2, <1>3, <3>1 DEF Alloc, NeedsFile, OnAlloc, Whole, Opened
  <2>2. DOMAIN q = Fields /\ q.mAllocTimes = n + 1 /\ q.mFreeList = list /\ Others(q) = Others(p)
    BY <1>1 DEF Fields, Others
  <2>3. \A t \in ToSet(list) : t.size < size
    BY <1>1, <1>2, <1>3, FittingFacts
  <2>4. Taken(s, list, n, size, list, n + 1)
    BY <2>3 DEF Taken
  <2>5. Only(s, list, size)
    <3>1. \A t \in ToSet(list) : t.size \in Int
      BY <1>1, <1>2, MoreFiles, NetFacts DEF SegmentIn, Segment
    <3> QED
      BY <2>3, <3>1, NetFacts DEF Only
  <2>6. s.off = 0
    BY DEF Whole, Seg
  <2> HIDE DEF q, s
  <2>7. /\ DOMAIN Split(q, s, size) = Fields /\ Split(q, s, size).mAllocTimes = n + 1
        /\ Split(q, s, size).mFreeList = After(list, s, size) /\ Others(Split(q, s, size)) = Others(p)
    BY <2>2 DEF Split, After, Rest, Fields, Others
  <2>8. a.p = Split(q, s, size) /\ a.seg = Cut(s, size) /\ a.d = Opened(d, n, n + 1)
    BY <2>1, <2>6 DEF Cut
  <2>9. Answers(a, p, d, size, s, list, n + 1)
    BY <1>1, <1>2, <2>4, <2>5, <2>7, <2>8 DEF Answers
  <2> QED
    BY <2>9
<1>4. CASE Fitting(p, size) # {}
  <2>1. PICK i : i = LowerBound(p, size)
    OBVIOUS
  <2>2. PICK s : s = list[i]
    OBVIOUS
  <2>3. PICK out : out = RemoveAt(list, i)
    OBVIOUS
  <2> DEFINE q == [p EXCEPT !.mFreeList = out]
  <2>4. a = [p |-> Split(q, s, size), d |-> d, seg |-> Seg(s.file, s.off, size)]
    BY <1>1, <1>4, <2>1, <2>2, <2>3 DEF Alloc, NeedsFile
  <2>5. DOMAIN q = Fields /\ q.mAllocTimes = n /\ q.mFreeList = out /\ Others(q) = Others(p)
    BY <1>2 DEF Fields, Others
  <2>6. /\ i \in 1 .. Len(list) /\ size <= s.size
        /\ \A t \in ToSet(list) : t.size >= size => s.size <= t.size
        /\ Cardinality(Fitting(p, size)) <= 1 => Only(s, list, size)
    BY <1>1, <1>2, <1>4, <2>1, <2>2, FittingFacts
  <2>7. Taken(s, list, n, size, out, n)
    BY <2>2, <2>3, <2>6 DEF Taken
  <2> HIDE DEF q
  <2>8. /\ DOMAIN Split(q, s, size) = Fields /\ Split(q, s, size).mAllocTimes = n
        /\ Split(q, s, size).mFreeList = After(out, s, size) /\ Others(Split(q, s, size)) = Others(p)
    BY <2>5 DEF Split, After, Rest, Fields, Others
  <2>9. a.p = Split(q, s, size) /\ a.seg = Cut(s, size) /\ a.d = Opened(d, n, n)
    BY <2>4 DEF Cut, Opened
  <2>10. Answers(a, p, d, size, s, out, n)
    BY <1>1, <1>2, <2>6, <2>7, <2>8, <2>9 DEF Answers
  <2> QED
    BY <2>10
<1> QED
  BY <1>3, <1>4

\* Opening a file keeps the others.
LEMMA OpenedFacts ==
    ASSUME NEW n \in Nat, NEW m \in {n, n + 1}, NEW d, 1 .. n \subseteq DOMAIN d,
           DOMAIN d \subseteq Nat \ {0}, \A f \in DOMAIN d : d[f] \in FileType,
           NEW e, e = Opened(d, n, m)
    PROVE  /\ 1 .. m \subseteq DOMAIN e /\ DOMAIN e \subseteq Nat \ {0}
           /\ \A f \in DOMAIN e : e[f] \in FileType
           /\ \A f \in DOMAIN d : f \in DOMAIN e /\ e[f] = d[f]
<1>1. CASE m = n
  BY <1>1 DEF Opened
<1>2. CASE m = n + 1
  <2>1. PICK z : z = [mem |-> ZeroFile, dur |-> ZeroFile]
    OBVIOUS
  <2>2. z \in FileType
    BY <2>1 DEF FileType, ZeroFile, Value
  <2>3. m # n
    BY <1>2
  <2>4. e = [f \in DOMAIN d \union {n + 1} |-> IF f \in DOMAIN d THEN d[f] ELSE z]
    BY <2>1, <2>3 DEF Opened
  <2>5. \A f \in 1 .. n + 1 : f \in 1 .. n \/ f = n + 1
    OBVIOUS
  <2> QED
    BY <1>2, <2>2, <2>4, <2>5
<1> QED
  BY <1>1, <1>2

-----------------------------------------------------------------------------
(* What is written into the files.                                         *)

\* A write changes the units of its segment and no others.
LEMMA WriteFacts ==
    ASSUME NEW d, DiskInv(d), NEW g \in Segment, g.file \in DOMAIN d,
           NEW data, \A i \in 1 .. g.size : data[i] \in Value,
           NEW e, e = Write(d, g, data)
    PROVE  /\ DiskInv(e) /\ DOMAIN e = DOMAIN d
           /\ \A f \in DOMAIN d : e[f].dur = d[f].dur
           /\ \A f \in DOMAIN d, c \in Cells : ~Has(g, f, c) => e[f].mem[c] = d[f].mem[c]
           /\ \A i \in 1 .. g.size : e[g.file].mem[g.off + i] = data[i]
<1>1. PICK n \in Nat : n = mmapSize
  BY NetAssumption
<1>2. PICK off \in 0 .. n - 1 : off = g.off
  BY <1>1 DEF Segment
<1>3. PICK size \in 1 .. n : size = g.size /\ off + size <= n
  BY <1>1, <1>2 DEF Segment
<1>4. PICK F : F = g.file
  OBVIOUS
<1>5. d[F] \in FileType /\ \A f \in DOMAIN d : d[f] \in FileType
  BY <1>4 DEF DiskInv
<1>6. PICK file : file = [c \in Cells |-> IF c \in off + 1 .. off + size THEN data[c - off] ELSE d[F].mem[c]]
  OBVIOUS
<1>7. e = [d EXCEPT ![F].mem = file]
  BY <1>2, <1>3, <1>4, <1>6 DEF Write
<1>8. file \in [Cells -> Value]
  <2>1. ASSUME NEW c \in Cells PROVE file[c] \in Value
    <3>1. CASE c \in off + 1 .. off + size
      <4>1. c - off \in 1 .. size
        BY <1>1, <3>1 DEF Cells
      <4> QED
        BY <1>3, <1>6, <3>1, <4>1
    <3>2. CASE c \notin off + 1 .. off + size
      BY <1>5, <1>6, <3>2 DEF FileType
    <3> QED
      BY <3>1, <3>2
  <2> QED
    BY <1>6, <2>1
<1>9. DOMAIN e = DOMAIN d /\ \A f \in DOMAIN d : f # F => e[f] = d[f]
  BY <1>7
<1>10. e[F].mem = file /\ e[F].dur = d[F].dur /\ e[F] \in FileType
  BY <1>4, <1>5, <1>7, <1>8 DEF FileType
<1>11. DiskInv(e)
  <2>1. \A f \in DOMAIN e : e[f] \in FileType
    BY <1>5, <1>9, <1>10
  <2> QED
    BY <1>9, <2>1 DEF DiskInv
<1>12. ASSUME NEW c \in Cells, ~Has(g, F, c) PROVE e[F].mem[c] = d[F].mem[c]
  <2>1. c \notin off + 1 .. off + size
    BY <1>1, <1>2, <1>3, <1>4, <1>12 DEF Has, Cells
  <2> QED
    BY <1>6, <1>10, <2>1
<1>13. ASSUME NEW i \in 1 .. size PROVE e[F].mem[off + i] = data[i]
  <2>1. off + i \in Cells /\ off + i \in off + 1 .. off + size /\ (off + i) - off = i
    BY <1>1, <1>3 DEF Cells
  <2> QED
    BY <1>6, <1>10, <2>1
<1>14. \A f \in DOMAIN d, c \in Cells : ~Has(g, f, c) => e[f].mem[c] = d[f].mem[c]
  BY <1>9, <1>12
<1>15. \A i \in 1 .. g.size : e[g.file].mem[g.off + i] = data[i]
  BY <1>2, <1>3, <1>4, <1>13
<1>16. \A f \in DOMAIN d : e[f].dur = d[f].dur
  BY <1>9, <1>10
<1> QED
  BY <1>9, <1>11, <1>14, <1>15, <1>16

\* Files e have what files d have, except in segment g.
Keeps(e, d, g) ==
    /\ \A f \in DOMAIN d : f \in DOMAIN e /\ e[f].dur = d[f].dur
    /\ \A f \in DOMAIN d, c \in Cells : ~Has(g, f, c) => e[f].mem[c] = d[f].mem[c]

\* A weight apart from g is kept.
LEMMA HoldsKept ==
    ASSUME NEW d, NEW e, NEW g \in Segment, Keeps(e, d, g),
           NEW s \in Segment, Apart(s, g), s.file \in DOMAIN d,
           NEW op, op.size = s.size, Holds(d[s.file].mem, s, op)
    PROVE  Holds(e[s.file].mem, s, op)
<1>1. PICK n \in Nat : n = mmapSize
  BY NetAssumption
<1>2. /\ s.off \in 0 .. n - 1 /\ s.size \in 1 .. n /\ s.off + s.size <= n
      /\ g.off \in 0 .. n - 1 /\ g.size \in 1 .. n /\ g.off + g.size <= n
  BY <1>1 DEF Segment
<1>3. ASSUME NEW i \in 1 .. s.size PROVE s.off + i \in Cells /\ ~Has(g, s.file, s.off + i)
  <2>1. s.off + i \in Cells
    BY <1>1, <1>2 DEF Cells
  <2>2. CASE s.file # g.file
    BY <2>1, <2>2 DEF Has
  <2>3. CASE s.off + s.size <= g.off
    BY <1>2, <2>1, <2>3 DEF Has
  <2>4. CASE g.off + g.size <= s.off
    BY <1>2, <2>1, <2>4 DEF Has
  <2> QED
    BY <2>1, <2>2, <2>3, <2>4 DEF Apart
<1>4. \A i \in 1 .. s.size : e[s.file].mem[s.off + i] = d[s.file].mem[s.off + i]
  BY <1>3 DEF Keeps
<1> QED
  BY <1>4 DEF Holds

-----------------------------------------------------------------------------
(* The steps of the process and of the machine.                            *)

\* The process dies.
LEMMA CrashStep ==
    ASSUME IInv, Crash
    PROVE  IInv'
BY DEF IInv, Crash

\* The machine stops.
LEMMA PowerLossStep ==
    ASSUME IInv, NEW lost, NEW markerLost \in BOOLEAN, PowerLoss(lost, markerLost)
    PROVE  IInv'
<1>1. PICK d : d = disk
  OBVIOUS
<1>2. PICK e : e = disk'
  OBVIOUS
<1>3. DiskInv(d)
  BY <1>1 DEF IInv
<1>4. e = [f \in DOMAIN d |-> IF f \in lost THEN [d[f] EXCEPT !.mem = d[f].dur]
                             ELSE [d[f] EXCEPT !.dur = d[f].mem]]
  BY <1>1, <1>2 DEF PowerLoss
<1>5. /\ DOMAIN e = DOMAIN d
      /\ \A f \in DOMAIN d : /\ e[f] \in FileType
                             /\ e[f].mem = IF f \in lost THEN d[f].dur ELSE d[f].mem
                             /\ e[f].dur = IF f \in lost THEN d[f].dur ELSE d[f].mem
  <2>1. ASSUME NEW f \in DOMAIN d
        PROVE  /\ e[f] \in FileType
               /\ e[f].mem = IF f \in lost THEN d[f].dur ELSE d[f].mem
               /\ e[f].dur = IF f \in lost THEN d[f].dur ELSE d[f].mem
    <3>1. PICK x : x = d[f]
      OBVIOUS
    <3>2. x \in [mem : [Cells -> Value], dur : [Cells -> Value]]
      BY <1>3, <3>1 DEF DiskInv, FileType
    <3>3. e[f] = IF f \in lost THEN [x EXCEPT !.mem = x.dur] ELSE [x EXCEPT !.dur = x.mem]
      BY <1>4, <3>1
    <3> QED
      BY <3>1, <3>2, <3>3 DEF FileType
  <2> QED
    BY <1>4, <2>1
<1>6. DiskInv(e)
  BY <1>3, <1>5 DEF DiskInv
<1>7. /\ proc' = Stopped /\ layout' = layout /\ resumed' = resumed
      /\ sync' = (sync /\ ~markerLost) /\ sound' = (sound /\ ~(sync /\ resumed))
  BY DEF PowerLoss
<1>8. ASSUME sound', sync' PROVE MarkInv(layout, e, resumed)
  <2>1. MarkInv(layout, d, resumed) /\ ~resumed
    BY <1>1, <1>7, <1>8 DEF IInv
  <2>2. ASSUME NEW x \in layout, x.op.skips PROVE Saved(x, e, resumed)
    <3>1. Saved(x, d, resumed)
      BY <2>1, <2>2 DEF MarkInv
    <3> QED
      BY <1>5, <2>1, <3>1 DEF Saved
  <2> QED
    BY <2>1, <2>2 DEF MarkInv
<1> QED
  BY <1>2, <1>6, <1>7, <1>8 DEF IInv

\* The end of a process without the hint removes its files: then there is no marker.
LEMMA ExitStep ==
    ASSUME IInv, Exit
    PROVE  IInv'
<1>1. proc.pc \in {"idle", "finish"} /\ proc' = Stopped
  BY DEF Exit
<1>2. ProcInv(proc, disk, sync, sound)
  BY <1>1 DEF IInv, Stopped
<1>3. UNCHANGED <<sync, layout, resumed, sound>>
  BY DEF Exit
<1>4. CASE ~proc.mRemove
  BY <1>1, <1>3, <1>4 DEF Exit, IInv
<1>5. CASE proc.mRemove
  <2>1. proc.loaded \in Nat /\ proc.loaded # 0
    BY <1>2, <1>5, NetFacts DEF ProcInv, ControlInv
  <2>2. proc.user = 0
    <3>1. proc.loaded > 0
      BY <2>1
    <3>2. proc.mRemove = (proc.user = 0)
      BY <1>2, <3>1 DEF ProcInv, ControlInv
    <3> QED
      BY <1>5, <3>2, Zenon
  <2>3. sound => ~sync
    BY <1>2, <2>2 DEF ProcInv, BeliefInv
  <2>4. disk' = [f \in DOMAIN disk \ 1 .. proc.mAllocTimes |-> disk[f]]
    BY <1>5 DEF Exit, Restrict
  <2>5. DiskInv(disk')
    BY <2>4 DEF IInv, DiskInv
  <2> QED
    BY <1>1, <1>3, <2>3, <2>5 DEF IInv
<1> QED
  BY <1>2, <1>4, <1>5 DEF ProcInv, ControlInv

\* There is nothing at first.
LEMMA InitStep ==
    ASSUME Init
    PROVE  IInv
<1>1. << >> \in Seq(Nat) /\ Len(<< >>) = 0
  OBVIOUS
<1>2. DOMAIN << >> = 1 .. 0
  BY <1>1
<1>3. DOMAIN disk = {}
  BY <1>2 DEF Init
<1>4. DiskInv(disk)
  BY <1>3 DEF DiskInv
<1> QED
  BY <1>4 DEF Init, IInv

\* A process starts with nothing.
LEMMA StartStep ==
    ASSUME IInv, NEW user \in {0, 1}, Start(user)
    PROVE  IInv'
<1>1. PICK q : q = proc'
  OBVIOUS
<1>2. q = Started(user) /\ UNCHANGED <<disk, sync, layout, resumed>>
  BY <1>1 DEF Start
<1>3. /\ DOMAIN q = Fields /\ q.pc = "idle" /\ q.user = user /\ q.useCachedMmap = user
      /\ q.allocator = "heap" /\ q.mRemove = FALSE /\ q.mAllocTimes = 0 /\ q.mFreeList = << >>
      /\ q.at = {} /\ q.todo = << >> /\ q.late = << >> /\ q.loaded = 0
  BY <1>2 DEF Started, Fields
<1>4. ControlInv(q)
  BY <1>3, NetFacts DEF ControlInv
<1>5. EntryInv(q) /\ FilesInv(q, disk)
  BY <1>3 DEF EntryInv, FilesInv, InFile
<1>6. sound /\ sound' = (sound /\ (sync => user = 1))
  BY DEF Start
<1>7. BeliefInv(q, sync, sound')
  <2>1. sound' => (sync => user = 1)
    BY <1>6, Zenon
  <2>2. user = 0 => (sound' => ~sync)
    BY <2>1
  <2> QED
    BY <1>3, <2>2 DEF BeliefInv
<1>8. FreeInv(q.mFreeList, q.mAllocTimes) /\ ToSet(q.mFreeList) = {}
  <2>1. << >> \in Seq(SegmentIn(0)) /\ Len(<< >>) = 0
    OBVIOUS
  <2>2. DOMAIN << >> = 1 .. 0
    BY <2>1
  <2>3. 1 .. 0 = {}
    OBVIOUS
  <2>4. ToSet(<< >>) = {}
    BY <2>2, <2>3 DEF ToSet
  <2>5. FreeInv(<< >>, 0)
    BY <2>1, <2>3 DEF FreeInv
  <2> QED
    BY <1>3, <2>4, <2>5
<1>9. UsedInv(Used(q), ToSet(q.mFreeList), q.mAllocTimes)
  <2>1. Used(q) = {}
    BY <1>3 DEF Used
  <2> QED
    BY <1>3, <1>8, <2>1 DEF UsedInv
<1>10. RightInv(q, disk)
  BY <1>3 DEF RightInv
<1>11. CanonInv(q)
  <2>1. Position(q) = 0
    <3>1. Before(q.loaded) = 0 /\ Len(q.todo) = 0
      BY <1>3 DEF Before
    <3> QED
      BY <3>1 DEF Position
  <2>2. Follows(q.mFreeList, q.mAllocTimes, Canon[0])
    <3>1. Canon[0].n = 0 /\ Canon[0].free = {}
      BY CanonFacts, OrderFacts
    <3> QED
      BY <1>3, <1>8, <3>1 DEF Follows
  <2>3. {Entry(j) : j \in 1 .. 0} = {}
    OBVIOUS
  <2>4. \A i \in 1 .. Len(q.todo) : q.todo[i] = Order[0 + i]
    BY <1>3
  <2> QED
    BY <1>3, <2>1, <2>2, <2>3, <2>4 DEF CanonInv
<1>12. ProcInv(q, disk, sync, sound')
  BY <1>4, <1>5, <1>7, <1>8, <1>9, <1>10, <1>11 DEF ProcInv
<1>13. sound' \in BOOLEAN /\ (sound' /\ sync => MarkInv(layout, disk, resumed))
  BY <1>6 DEF IInv
<1> QED
  BY <1>1, <1>2, <1>12, <1>13 DEF IInv

\* Process q has the memory of process p.
Memory(p) == <<p.at, p.mFreeList, p.mAllocTimes>>

\* A step that leaves the memory alone.
LEMMA SameMemory ==
    ASSUME NEW p, NEW q, Memory(q) = Memory(p), p.pc # "fill", q.pc # "fill", EntryInv(p),
           FreeInv(p.mFreeList, p.mAllocTimes),
           UsedInv(Used(p), ToSet(p.mFreeList), p.mAllocTimes)
    PROVE  /\ EntryInv(q) /\ FreeInv(q.mFreeList, q.mAllocTimes)
           /\ UsedInv(Used(q), ToSet(q.mFreeList), q.mAllocTimes)
<1>1. q.at = p.at /\ q.mFreeList = p.mFreeList /\ q.mAllocTimes = p.mAllocTimes
  BY DEF Memory
<1>2. Used(q) = Used(p) /\ InFile(q) = InFile(p)
  BY <1>1 DEF Used, InFile
<1>3. EntryInv(q)
  BY <1>1, <1>2 DEF EntryInv
<1> QED
  BY <1>1, <1>2, <1>3

\* onClearBuffer is called.
LEMMA ClearBufferStep ==
    ASSUME IInv, NEW then, ClearBuffer(then)
    PROVE  IInv'
<1>1. proc.pc = "idle" /\ proc.loaded > 0
  BY DEF ClearBuffer
<1>2. PICK p : p = proc
  OBVIOUS
<1>3. PICK q : q = proc'
  OBVIOUS
<1>4. ProcInv(p, disk, sync, sound)
  BY <1>1, <1>2 DEF IInv, Stopped
<1>5. ControlInv(p)
  BY <1>4 DEF ProcInv
<1>6. q = [p EXCEPT !.pc = IF p.allocator = "mmap" THEN "msync" ELSE "finish", !.then = then]
  BY <1>2, <1>3 DEF ClearBuffer
<1>7. /\ DOMAIN q = Fields /\ q.pc = (IF p.allocator = "mmap" THEN "msync" ELSE "finish")
      /\ q.user = p.user /\ q.loaded = p.loaded /\ q.useCachedMmap = p.useCachedMmap
      /\ q.allocator = p.allocator /\ q.mRemove = p.mRemove /\ q.mAllocTimes = p.mAllocTimes
      /\ q.mFreeList = p.mFreeList /\ q.at = p.at /\ q.todo = p.todo /\ q.late = p.late
  BY <1>5, <1>6 DEF ControlInv, Fields
<1>8. p.allocator \in {"mmap", "swapped"} /\ p.todo = << >>
  <2>1. p.loaded # 0
    BY <1>1, <1>2, <1>5, NetFacts DEF ControlInv
  <2> QED
    BY <1>1, <1>2, <1>5, <2>1 DEF ControlInv
<1>9. ControlInv(q)
  <2>1. p.loaded > 0 /\ p.loaded # 0
    BY <1>1, <1>2, <1>5, NetFacts DEF ControlInv
  <2> QED
    BY <1>1, <1>2, <1>5, <1>7, <1>8, <2>1 DEF ControlInv
<1>10. BeliefInv(q, sync, sound)
  BY <1>4, <1>7 DEF ProcInv, BeliefInv
<1>11. FilesInv(q, disk)
  BY <1>4, <1>7 DEF ProcInv, FilesInv
<1>12. sound => RightInv(q, disk) /\ (q.user = 1 => CanonInv(q))
  <2>1. RightInv(p, disk) => RightInv(q, disk)
    BY <1>7 DEF RightInv
  <2>2. Position(q) = Position(p)
    BY <1>7 DEF Position
  <2>3. CanonInv(p) => CanonInv(q)
    BY <1>1, <1>2, <1>7, <2>2 DEF CanonInv
  <2> QED
    BY <1>4, <1>7, <2>1, <2>3 DEF ProcInv
<1>13. /\ EntryInv(q) /\ FreeInv(q.mFreeList, q.mAllocTimes)
       /\ UsedInv(Used(q), ToSet(q.mFreeList), q.mAllocTimes)
  <2>1. Memory(q) = Memory(p) /\ p.pc # "fill" /\ q.pc # "fill"
    BY <1>1, <1>2, <1>7 DEF Memory
  <2> QED
    BY <1>4, <2>1, SameMemory DEF ProcInv
<1>14. ProcInv(q, disk, sync, sound)
  BY <1>9, <1>10, <1>11, <1>12, <1>13 DEF ProcInv
<1> QED
  BY <1>3, <1>14 DEF IInv, ClearBuffer

\* Pages are written back.
LEMMA SyncPagesStep ==
    ASSUME IInv, SyncPages
    PROVE  IInv'
<1>1. proc.pc = "msync"
  BY DEF SyncPages
<1>2. PICK p : p = proc
  OBVIOUS
<1>3. PICK q : q = proc'
  OBVIOUS
<1>4. PICK d : d = disk
  OBVIOUS
<1>5. PICK e : e = disk'
  OBVIOUS
<1>6. ProcInv(p, d, sync, sound) /\ DiskInv(d)
  BY <1>1, <1>2, <1>4 DEF IInv, Stopped
<1>7. ControlInv(p)
  BY <1>6 DEF ProcInv
<1>8. q = [p EXCEPT !.pc = "mark"]
  BY <1>2, <1>3 DEF SyncPages
<1>9. /\ DOMAIN q = Fields /\ q.pc = "mark"
      /\ q.user = p.user /\ q.loaded = p.loaded /\ q.useCachedMmap = p.useCachedMmap
      /\ q.allocator = p.allocator /\ q.mRemove = p.mRemove /\ q.mAllocTimes = p.mAllocTimes
      /\ q.mFreeList = p.mFreeList /\ q.at = p.at /\ q.todo = p.todo /\ q.late = p.late
      /\ q.mNewMmap = p.mNewMmap
  BY <1>7, <1>8 DEF ControlInv, Fields
<1>10. ControlInv(q)
  BY <1>1, <1>2, <1>7, <1>9 DEF ControlInv
<1>11. BeliefInv(q, sync, sound)
  BY <1>6, <1>9 DEF ProcInv, BeliefInv
<1>12. PICK n \in Nat : n = p.mAllocTimes /\ 1 .. n \subseteq DOMAIN d
  BY <1>6, <1>7 DEF ControlInv, ProcInv, FilesInv
<1>13. /\ DOMAIN e = DOMAIN d
       /\ \A f \in DOMAIN d : /\ e[f] \in FileType /\ e[f].mem = d[f].mem
                              /\ e[f].dur \in {d[f].dur, d[f].mem}
       /\ ~p.mRemove /\ p.mNewMmap => \A f \in 1 .. n : e[f].dur = e[f].mem
  <2>1. CASE ~p.mRemove /\ p.mNewMmap
    <3>1. e = [f \in DOMAIN d |-> IF f <= n THEN [d[f] EXCEPT !.dur = d[f].mem] ELSE d[f]]
      BY <1>2, <1>4, <1>5, <1>12, <2>1 DEF SyncPages
    <3>2. ASSUME NEW f \in DOMAIN d
          PROVE  /\ e[f] \in FileType /\ e[f].mem = d[f].mem
                 /\ e[f].dur = IF f <= n THEN d[f].mem ELSE d[f].dur
      <4>1. PICK x : x = d[f]
        OBVIOUS
      <4>2. x \in [mem : [Cells -> Value], dur : [Cells -> Value]]
        BY <1>6, <4>1 DEF DiskInv, FileType
      <4>3. e[f] = IF f <= n THEN [x EXCEPT !.dur = x.mem] ELSE x
        BY <3>1, <4>1
      <4> QED
        BY <4>1, <4>2, <4>3 DEF FileType
    <3>3. \A f \in 1 .. n : f \in DOMAIN d /\ f <= n
      BY <1>12
    <3> QED
      BY <3>1, <3>2, <3>3
  <2>2. CASE ~(~p.mRemove /\ p.mNewMmap)
    <3>1. e = d
      BY <1>2, <1>4, <1>5, <2>2 DEF SyncPages
    <3> QED
      BY <1>6, <2>2, <3>1 DEF DiskInv
  <2> QED
    BY <2>1, <2>2
<1>14. DiskInv(e)
  BY <1>6, <1>13 DEF DiskInv
<1>15. FilesInv(q, e)
  BY <1>9, <1>12, <1>13 DEF FilesInv
<1>16. sound => RightInv(q, e) /\ (q.user = 1 => CanonInv(q))
  <2>1. ASSUME sound PROVE RightInv(q, e)
    <3>1. RightInv(p, d) /\ EntryInv(p) /\ UsedInv(Used(p), ToSet(p.mFreeList), n)
      BY <1>6, <1>12, <2>1 DEF ProcInv
    <3>2. ASSUME NEW x \in p.at, x.mem = "file" PROVE x.seg.file \in DOMAIN d
      <4>1. x.seg \in Used(p)
        BY <3>2 DEF Used
      <4>2. x.seg.file \in 1 .. n
        BY <3>1, <4>1 DEF UsedInv, SegmentIn, Segment
      <4> QED
        BY <1>12, <4>2
    <3> QED
      BY <1>9, <1>13, <3>1, <3>2 DEF RightInv
  <2>2. Position(q) = Position(p)
    BY <1>9 DEF Position
  <2>3. CanonInv(p) => CanonInv(q)
    BY <1>1, <1>2, <1>9, <2>2 DEF CanonInv
  <2> QED
    BY <1>6, <1>9, <2>1, <2>3 DEF ProcInv
<1>17. /\ EntryInv(q) /\ FreeInv(q.mFreeList, q.mAllocTimes)
       /\ UsedInv(Used(q), ToSet(q.mFreeList), q.mAllocTimes)
  <2>1. Memory(q) = Memory(p) /\ p.pc # "fill" /\ q.pc # "fill"
    BY <1>1, <1>2, <1>9 DEF Memory
  <2> QED
    BY <1>6, <2>1, SameMemory DEF ProcInv
<1>18. ProcInv(q, e, sync, sound)
  BY <1>10, <1>11, <1>15, <1>16, <1>17 DEF ProcInv
<1>19. ASSUME sound, sync PROVE MarkInv(layout, e, resumed)
  <2>1. MarkInv(layout, d, resumed)
    BY <1>4, <1>19 DEF IInv
  <2>2. ASSUME NEW x \in layout, x.op.skips PROVE Saved(x, e, resumed)
    <3>1. Saved(x, d, resumed)
      BY <2>1, <2>2 DEF MarkInv
    <3> QED
      BY <1>13, <3>1 DEF Saved
  <2> QED
    BY <2>1, <2>2 DEF MarkInv
<1>20. UNCHANGED <<sync, layout, resumed, sound>>
  BY DEF SyncPages
<1> QED
  BY <1>3, <1>5, <1>14, <1>18, <1>19, <1>20 DEF IInv

\* A process without the hint fills all its weights.
LEMMA HeapMemFacts ==
    ASSUME NEW p, p.user \in {0, 1}, NEW marked, NEW expected, BeliefInv(p, marked, expected), NEW op
    PROVE  HeapMem(p, op) \in {"set", "unset"} /\ (p.user = 0 => HeapMem(p, op) = "set")
<1>1. p.user = 0 => ~Skips(p, op)
  BY DEF BeliefInv, Skips
<1> QED
  BY <1>1 DEF HeapMem

\* Operators with memory of the heap do not use the files.
LEMMA HeapEntries ==
    ASSUME NEW p, NEW q, NEW N \in SUBSET [op : OpType, seg : {NoSeg}, mem : {"set", "unset"}],
           q.at = p.at \union N, q.mFreeList = p.mFreeList, q.mAllocTimes = p.mAllocTimes,
           p.pc # "fill", q.pc # "fill", EntryInv(p), FreeInv(p.mFreeList, p.mAllocTimes),
           UsedInv(Used(p), ToSet(p.mFreeList), p.mAllocTimes)
    PROVE  /\ EntryInv(q) /\ FreeInv(q.mFreeList, q.mAllocTimes)
           /\ UsedInv(Used(q), ToSet(q.mFreeList), q.mAllocTimes)
<1>1. \A e \in N : e.mem # "file" /\ e.seg = NoSeg /\ e.op \in OpType
  OBVIOUS
<1>2. InFile(q) = InFile(p)
  BY <1>1 DEF InFile
<1>3. Used(q) = Used(p)
  <2>1. Used(q) = {e.seg : e \in InFile(q)} /\ Used(p) = {e.seg : e \in InFile(p)}
    BY DEF Used, InFile
  <2> QED
    BY <1>2, <2>1
<1>4. N \subseteq [op : OpType, seg : Segment \union {NoSeg}, mem : {"file", "set", "unset"}]
  OBVIOUS
<1>5. EntryInv(q)
  BY <1>2, <1>4 DEF EntryInv
<1> QED
  BY <1>3, <1>5

\* Executions that are created later get memory of the heap.
LEMMA CreateExecutionsStep ==
    ASSUME IInv, CreateExecutions
    PROVE  IInv'
<1>1. proc.pc = "finish"
  BY DEF CreateExecutions
<1>2. PICK p : p = proc
  OBVIOUS
<1>3. PICK q : q = proc'
  OBVIOUS
<1>4. ProcInv(p, disk, sync, sound)
  BY <1>1, <1>2 DEF IInv, Stopped
<1>5. ControlInv(p)
  BY <1>4 DEF ProcInv
<1>6. PICK N : N = {[op |-> op, seg |-> NoSeg, mem |-> HeapMem(p, op)] : op \in ToSet(p.late)}
  OBVIOUS
<1>7. q = [p EXCEPT !.pc = "idle", !.late = << >>, !.at = @ \union N]
  BY <1>2, <1>3, <1>6 DEF CreateExecutions
<1>8. /\ DOMAIN q = Fields /\ q.pc = "idle"
      /\ q.user = p.user /\ q.loaded = p.loaded /\ q.useCachedMmap = p.useCachedMmap
      /\ q.allocator = p.allocator /\ q.mRemove = p.mRemove /\ q.mAllocTimes = p.mAllocTimes
      /\ q.mFreeList = p.mFreeList /\ q.at = p.at \union N /\ q.todo = p.todo /\ q.late = << >>
  BY <1>5, <1>7 DEF ControlInv, Fields
<1>9. p.allocator = "swapped" /\ p.todo = << >> /\ p.loaded # 0 /\ p.user \in {0, 1}
  BY <1>1, <1>2, <1>5 DEF ControlInv
<1>10. << >> \in Seq(OpType)
  OBVIOUS
<1>11. ControlInv(q)
  BY <1>1, <1>2, <1>5, <1>8, <1>9, <1>10 DEF ControlInv
<1>12. BeliefInv(p, sync, sound)
  BY <1>4 DEF ProcInv
<1>13. BeliefInv(q, sync, sound)
  BY <1>8, <1>12 DEF BeliefInv
<1>14. FilesInv(q, disk)
  BY <1>4, <1>8 DEF ProcInv, FilesInv
<1>15. ToSet(p.late) \subseteq OpType
  <2>1. p.late \in Seq(OpType)
    BY <1>5 DEF ControlInv
  <2>2. ToSet(p.late) = {p.late[i] : i \in 1 .. Len(p.late)}
    BY <2>1 DEF ToSet
  <2> QED
    BY <2>1, <2>2
<1>16. /\ N \subseteq [op : OpType, seg : {NoSeg}, mem : {"set", "unset"}]
       /\ p.user = 0 => \A x \in N : x.mem = "set"
  <2>1. ASSUME NEW x \in N
        PROVE  /\ x \in [op : OpType, seg : {NoSeg}, mem : {"set", "unset"}]
               /\ p.user = 0 => x.mem = "set"
    <3>1. PICK op \in ToSet(p.late) : x = [op |-> op, seg |-> NoSeg, mem |-> HeapMem(p, op)]
      BY <1>6, <2>1
    <3>2. HeapMem(p, op) \in {"set", "unset"} /\ (p.user = 0 => HeapMem(p, op) = "set")
      BY <1>9, <1>12, HeapMemFacts
    <3> QED
      BY <1>15, <3>1, <3>2
  <2> QED
    BY <2>1
<1>17. /\ EntryInv(q) /\ FreeInv(q.mFreeList, q.mAllocTimes)
       /\ UsedInv(Used(q), ToSet(q.mFreeList), q.mAllocTimes)
  BY <1>1, <1>2, <1>4, <1>8, <1>16, HeapEntries DEF ProcInv
<1>18. ASSUME sound PROVE RightInv(q, disk) /\ (q.user = 1 => CanonInv(q))
  <2>1. RightInv(p, disk) /\ (p.user = 1 => CanonInv(p))
    BY <1>4, <1>18 DEF ProcInv
  <2>2. CASE p.user = 0
    <3>1. \A x \in N : x.mem = "set"
      BY <1>16, <2>2
    <3> QED
      BY <1>8, <2>1, <2>2, <3>1 DEF RightInv
  <2>3. CASE p.user = 1
    <3>1. p.late = << >>
      BY <2>1, <2>3 DEF CanonInv
    <3>2. DOMAIN << >> = 1 .. 0
      BY <1>10
    <3>3. N = {}
      BY <1>6, <3>1, <3>2 DEF ToSet
    <3>4. RightInv(q, disk)
      BY <1>8, <2>1, <3>3 DEF RightInv
    <3>5. CanonInv(q)
      BY <1>8, <1>9 DEF CanonInv
    <3> QED
      BY <3>4, <3>5
  <2> QED
    BY <1>9, <2>2, <2>3
<1>19. ProcInv(q, disk, sync, sound)
  BY <1>11, <1>13, <1>14, <1>17, <1>18 DEF ProcInv
<1> QED
  BY <1>3, <1>19 DEF IInv, CreateExecutions

\* A marker is created only over a complete layout.
LEMMA SyncMarkStep ==
    ASSUME IInv, SyncMark
    PROVE  IInv'
<1>1. proc.pc = "mark"
  BY DEF SyncMark
<1>2. PICK p : p = proc
  OBVIOUS
<1>3. PICK q : q = proc'
  OBVIOUS
<1>4. ProcInv(p, disk, sync, sound)
  BY <1>1, <1>2 DEF IInv, Stopped
<1>5. ControlInv(p) /\ EntryInv(p)
  BY <1>4 DEF ProcInv
<1>6. q = [p EXCEPT !.pc = "finish", !.allocator = "swapped"]
  BY <1>2, <1>3 DEF SyncMark
<1>7. /\ DOMAIN q = Fields /\ q.pc = "finish" /\ q.allocator = "swapped"
      /\ q.user = p.user /\ q.loaded = p.loaded /\ q.useCachedMmap = p.useCachedMmap
      /\ q.mRemove = p.mRemove /\ q.mAllocTimes = p.mAllocTimes
      /\ q.mFreeList = p.mFreeList /\ q.at = p.at /\ q.todo = p.todo /\ q.late = p.late
  BY <1>5, <1>6 DEF ControlInv, Fields
<1>8. p.allocator = "mmap" /\ p.todo = << >> /\ p.loaded # 0 /\ p.user \in {0, 1}
  BY <1>1, <1>2, <1>5 DEF ControlInv
<1>9. ControlInv(q)
  BY <1>5, <1>7, <1>8 DEF ControlInv
<1>10. /\ EntryInv(q) /\ FreeInv(q.mFreeList, q.mAllocTimes)
       /\ UsedInv(Used(q), ToSet(q.mFreeList), q.mAllocTimes)
  <2>1. Memory(q) = Memory(p) /\ p.pc # "fill" /\ q.pc # "fill"
    BY <1>1, <1>2, <1>7 DEF Memory
  <2> QED
    BY <1>4, <2>1, SameMemory DEF ProcInv
<1>11. FilesInv(q, disk)
  BY <1>4, <1>7 DEF ProcInv, FilesInv
<1>12. disk' = disk /\ (sound' => sound)
  BY DEF SyncMark
<1>13. sound' => RightInv(q, disk) /\ (q.user = 1 => CanonInv(q))
  <2>1. ASSUME sound' PROVE RightInv(q, disk) /\ (q.user = 1 => CanonInv(q))
    <3>1. RightInv(p, disk) /\ (p.user = 1 => CanonInv(p))
      BY <1>4, <1>12, <2>1 DEF ProcInv
    <3> QED
      BY <1>7, <1>8, <3>1 DEF RightInv, CanonInv
  <2> QED
    BY <2>1
<1> DEFINE makes == ~p.mRemove /\ (p.mNewMmap \/ ~p.mSyncValid)
<1>14. /\ sync' = (sync \/ makes) /\ layout' = (IF makes THEN p.at ELSE layout)
       /\ resumed' = (IF makes THEN ~p.mNewMmap ELSE resumed)
       /\ sound' = (sound /\ (makes => {e.op : e \in p.at} = Op))
  BY <1>2 DEF SyncMark
<1>15. p.mRemove = (p.user = 0)
  <2>1. p.loaded > 0
    BY <1>5, <1>8, NetFacts DEF ControlInv
  <2> QED
    BY <1>5, <2>1 DEF ControlInv
<1>16. makes => p.user = 1
  BY <1>8, <1>15, Zenon
<1> HIDE DEF makes
<1>17. BeliefInv(q, sync', sound')
  <2>1. BeliefInv(p, sync, sound)
    BY <1>4 DEF ProcInv
  <2>2. ASSUME p.user = 0, sound' PROVE ~sync'
    <3>1. ~sync
      BY <1>12, <2>1, <2>2 DEF BeliefInv
    <3>2. ~makes
      BY <1>16, <2>2
    <3> QED
      BY <1>14, <3>1, <3>2
  <2> QED
    BY <1>7, <2>1, <2>2 DEF BeliefInv
<1>18. ProcInv(q, disk, sync', sound')
  BY <1>9, <1>10, <1>11, <1>13, <1>17 DEF ProcInv
<1>19. ASSUME sound', sync' PROVE MarkInv(layout', disk, resumed')
  <2>1. CASE ~makes
    <3>1. sync' = sync /\ layout' = layout /\ resumed' = resumed
      BY <1>14, <2>1 DEF IInv
    <3> QED
      BY <1>12, <1>19, <3>1 DEF IInv
  <2>2. CASE makes
    <3>1. /\ layout' = p.at /\ resumed' = ~p.mNewMmap /\ {e.op : e \in p.at} = Op
          /\ p.user = 1 /\ ~p.mRemove /\ sound
      <4>1. layout' = p.at /\ resumed' = ~p.mNewMmap
        BY <1>14, <2>2
      <4>2. ~p.mRemove
        BY <2>2 DEF makes
      <4>3. {e.op : e \in p.at} = Op /\ sound
        BY <1>14, <1>19, <2>2, Zenon
      <4> QED
        BY <1>16, <2>2, <4>1, <4>2, <4>3
    <3>2. RightInv(p, disk) /\ CanonInv(p)
      BY <1>4, <3>1 DEF ProcInv
    <3>3. PICK k \in Nat : k = Position(p)
      BY <1>8, <3>2 DEF CanonInv
    <3>4. p.at = {Entry(j) : j \in 1 .. k}
      BY <1>8, <3>2, <3>3 DEF CanonInv
    <3>5. PICK N \in Nat : N = Len(Order)
      BY OrderFacts
    <3>6. k <= N
      <4>1. Len(p.todo) = 0
        BY <1>8
      <4>2. Before(p.loaded) \in Nat /\ Before(p.loaded) <= N
        BY <1>5, <3>5, OrderFacts DEF ControlInv
      <4> QED
        BY <3>3, <4>1, <4>2 DEF Position
    <3>7. k = N
      <4>1. CASE N = 0
        BY <3>6, <4>1
      <4>2. CASE N # 0
        <5>1. Order[N] \in Op /\ N \in 1 .. N /\ DOMAIN Order = 1 .. N
          BY <3>5, <4>2, OrderFacts
        <5>2. PICK e \in p.at : e.op = Order[N]
          BY <3>1, <5>1
        <5>3. PICK j \in 1 .. k : e = Entry(j)
          BY <3>4, <5>2
        <5>4. Order[j] = Order[N] /\ j \in 1 .. N
          BY <3>6, <5>2, <5>3 DEF Entry
        <5>5. j = N
          BY <5>1, <5>4, NetAssumption
        <5> QED
          BY <3>6, <5>5
      <4> QED
        BY <4>1, <4>2
    <3>8. \A e \in p.at : e.mem = "file" /\ e.seg \in Used(p) /\ e \in InFile(p)
      <4>1. \A e \in p.at : e.mem = "file"
        BY <3>4 DEF Entry
      <4> QED
        BY <4>1 DEF Used, InFile
    <3>9. /\ UsedInv(Used(p), ToSet(p.mFreeList), p.mAllocTimes)
          /\ 1 .. p.mAllocTimes \subseteq DOMAIN disk
      BY <1>4 DEF ProcInv, FilesInv
    <3>10. \A e, g \in p.at : e # g => Apart(e.seg, g.seg)
      <4>1. \A e, g \in p.at : e # g => e.seg # g.seg
        BY <1>5, <3>8 DEF EntryInv
      <4> QED
        BY <3>8, <3>9, <4>1 DEF UsedInv
    <3>11. \A e \in p.at : e.op \in OpType /\ e.seg \in Segment /\ e.seg.size = e.op.size
      BY <1>5, <3>8 DEF EntryInv
    <3>12. ASSUME NEW e \in p.at PROVE Saved(e, disk, resumed')
      <4>1. e.seg.file \in 1 .. p.mAllocTimes
        BY <1>5, <3>8, <3>9 DEF UsedInv, SegmentIn, Segment, ControlInv
      <4>2. e.seg.file \in DOMAIN disk
        BY <3>9, <4>1
      <4>3. Holds(disk[e.seg.file].mem, e.seg, e.op)
        BY <3>2, <3>8 DEF RightInv
      <4>4. CASE p.mNewMmap
        <5>1. disk[e.seg.file].dur = disk[e.seg.file].mem
          BY <1>1, <1>2, <1>4, <3>1, <4>1, <4>4 DEF ProcInv, FilesInv
        <5> QED
          BY <4>2, <4>3, <5>1 DEF Saved
      <4>5. CASE ~p.mNewMmap
        BY <3>1, <4>2, <4>3, <4>5 DEF Saved
      <4> QED
        BY <4>4, <4>5
    <3>13. MarkInv(p.at, disk, resumed')
      BY <3>4, <3>5, <3>7, <3>10, <3>11, <3>12 DEF MarkInv
    <3> QED
      BY <3>1, <3>13
  <2> QED
    BY <2>1, <2>2
<1>20. sync' \in BOOLEAN /\ resumed' \in BOOLEAN /\ sound' \in BOOLEAN
  <2>1. sync \in BOOLEAN /\ resumed \in BOOLEAN
    BY DEF IInv
  <2> QED
    BY <1>14, <2>1
<1>21. DiskInv(disk)
  BY DEF IInv
<1> QED
  BY <1>3, <1>12, <1>18, <1>19, <1>20, <1>21 DEF IInv

\* The fields of a process that onCreate does not change.
Kept(p) == <<p.pc, p.user, p.mNewMmap, p.mAllocTimes, p.mFreeList, p.at, p.seg, p.todo,
             p.late, p.loaded, p.then>>

\* onCreate of one backend.
LEMMA OnCreateFacts ==
    ASSUME NEW p, DOMAIN p = Fields, p.user \in {0, 1}, NEW q, q = OnCreate(p)
    PROVE  /\ DOMAIN q = Fields /\ Kept(q) = Kept(p)
           /\ p.user = 0 => q.useCachedMmap = p.useCachedMmap
           /\ p.user = 1 => q.useCachedMmap = IF sync THEN p.useCachedMmap + 1 ELSE p.useCachedMmap
           /\ q.allocator = IF p.allocator = "heap" THEN "mmap" ELSE p.allocator
           /\ q.mRemove = IF p.allocator = "heap" THEN p.user = 0 ELSE p.mRemove
<1>1. PICK valid \in BOOLEAN : valid = (p.user > 0 /\ sync)
  OBVIOUS
<1>2. q = [p EXCEPT !.useCachedMmap = IF valid THEN @ + 1 ELSE @,
                    !.allocator  = IF @ = "heap" THEN "mmap" ELSE @,
                    !.mRemove    = IF p.allocator = "heap" THEN p.user = 0 ELSE @,
                    !.mSyncValid = IF p.allocator = "heap" THEN valid ELSE @]
  BY <1>1 DEF OnCreate
<1>3. p.user = 0 => ~valid
  <2>1. p.user = 0 => ~(p.user > 0)
    OBVIOUS
  <2> QED
    BY <1>1, <2>1, Zenon
<1>4. p.user = 1 => (valid <=> sync)
  <2>1. p.user = 1 => p.user > 0
    OBVIOUS
  <2> QED
    BY <1>1, <2>1, Zenon
<1>5. /\ DOMAIN q = Fields /\ q.useCachedMmap = (IF valid THEN p.useCachedMmap + 1 ELSE p.useCachedMmap)
      /\ q.allocator = (IF p.allocator = "heap" THEN "mmap" ELSE p.allocator)
      /\ q.mRemove = (IF p.allocator = "heap" THEN p.user = 0 ELSE p.mRemove)
  BY <1>2 DEF Fields
<1>6. Kept(q) = Kept(p)
  BY <1>2 DEF Fields, Kept
<1>7. p.user = 0 => q.useCachedMmap = p.useCachedMmap
  BY <1>3, <1>5
<1>8. p.user = 1 => q.useCachedMmap = IF sync THEN p.useCachedMmap + 1 ELSE p.useCachedMmap
  BY <1>4, <1>5
<1> QED
  BY <1>5, <1>6, <1>7, <1>8

\* A module is loaded.
LEMMA LoadStep ==
    ASSUME IInv, NEW rearrange \in BOOLEAN, Load(rearrange)
    PROVE  IInv'
<1>1. proc.pc = "idle" /\ proc.loaded < Len(Net)
  BY DEF Load
<1>2. PICK p : p = proc
  OBVIOUS
<1>3. PICK q : q = proc'
  OBVIOUS
<1>4. ProcInv(p, disk, sync, sound)
  BY <1>1, <1>2 DEF IInv, Stopped
<1>5. ControlInv(p)
  BY <1>4 DEF ProcInv
<1>6. PICK a : a = [p EXCEPT !.useCachedMmap = p.user]
  OBVIOUS
<1>7. PICK b : b = OnCreate(a)
  OBVIOUS
<1>8. PICK c : c = OnCreate(b)
  OBVIOUS
<1>9. p.user \in {0, 1} /\ DOMAIN p = Fields
  BY <1>5 DEF ControlInv
<1>10. /\ DOMAIN a = Fields /\ a.useCachedMmap = p.user /\ a.allocator = p.allocator
       /\ a.mRemove = p.mRemove /\ Kept(a) = Kept(p) /\ a.user = p.user
  BY <1>6, <1>9 DEF Fields, Kept
<1>11. /\ DOMAIN b = Fields /\ Kept(b) = Kept(p) /\ b.user = p.user
       /\ p.user = 0 => b.useCachedMmap = 0
       /\ p.user = 1 => b.useCachedMmap = IF sync THEN 2 ELSE 1
       /\ b.allocator = (IF p.allocator = "heap" THEN "mmap" ELSE p.allocator)
       /\ b.mRemove = (IF p.allocator = "heap" THEN p.user = 0 ELSE p.mRemove)
  <2>1. /\ DOMAIN b = Fields /\ Kept(b) = Kept(a)
        /\ a.user = 0 => b.useCachedMmap = a.useCachedMmap
        /\ a.user = 1 => b.useCachedMmap = IF sync THEN a.useCachedMmap + 1 ELSE a.useCachedMmap
        /\ b.allocator = (IF a.allocator = "heap" THEN "mmap" ELSE a.allocator)
        /\ b.mRemove = (IF a.allocator = "heap" THEN a.user = 0 ELSE a.mRemove)
    BY <1>7, <1>9, <1>10, OnCreateFacts
  <2>2. b.user = a.user
    BY <2>1 DEF Kept
  <2> QED
    BY <1>10, <2>1, <2>2
<1>12. /\ DOMAIN c = Fields /\ Kept(c) = Kept(p)
       /\ p.user = 0 => c.useCachedMmap = 0
       /\ p.user = 1 => c.useCachedMmap = IF sync THEN 3 ELSE 1
       /\ c.allocator = (IF p.allocator = "heap" THEN "mmap" ELSE p.allocator)
       /\ c.mRemove = (IF p.allocator = "heap" THEN p.user = 0 ELSE p.mRemove)
  <2>1. /\ DOMAIN c = Fields /\ Kept(c) = Kept(b)
        /\ b.user = 0 => c.useCachedMmap = b.useCachedMmap
        /\ b.user = 1 => c.useCachedMmap = IF sync THEN b.useCachedMmap + 1 ELSE b.useCachedMmap
        /\ c.allocator = (IF b.allocator = "heap" THEN "mmap" ELSE b.allocator)
        /\ c.mRemove = (IF b.allocator = "heap" THEN b.user = 0 ELSE b.mRemove)
    BY <1>8, <1>9, <1>11, OnCreateFacts
  <2>2. b.allocator # "heap"
    BY <1>11
  <2> QED
    BY <1>11, <2>1, <2>2
<1>13. PICK l \in 0 .. Len(Net) : l = p.loaded /\ l < Len(Net) /\ l + 1 \in 1 .. Len(Net)
  BY <1>1, <1>2, <1>5, NetFacts DEF ControlInv
<1>14. PICK ops : ops = Net[l + 1]
  OBVIOUS
<1>15. /\ q = [c EXCEPT !.loaded = @ + 1,
                        !.todo = IF rearrange THEN ops ELSE @,
                        !.late = IF rearrange THEN @ ELSE @ \o ops,
                        !.pc = IF rearrange /\ ops # << >> THEN "acquire" ELSE @]
       /\ sound' = (sound /\ (p.user = 0 \/ (rearrange /\ p.allocator # "swapped")))
       /\ UNCHANGED <<disk, sync, layout, resumed>>
  BY <1>2, <1>3, <1>6, <1>7, <1>8, <1>13, <1>14 DEF Load
<1>16. /\ c.pc = "idle" /\ c.user = p.user /\ c.loaded = l /\ c.at = p.at /\ c.todo = p.todo
       /\ c.late = p.late /\ c.mAllocTimes = p.mAllocTimes /\ c.mFreeList = p.mFreeList
  BY <1>1, <1>2, <1>12, <1>13 DEF Kept
<1>17. /\ DOMAIN q = Fields /\ q.pc = (IF rearrange /\ ops # << >> THEN "acquire" ELSE "idle")
       /\ q.user = p.user /\ q.loaded = l + 1 /\ q.useCachedMmap = c.useCachedMmap
       /\ q.allocator = c.allocator /\ q.mRemove = c.mRemove /\ q.mAllocTimes = p.mAllocTimes
       /\ q.mFreeList = p.mFreeList /\ q.at = p.at
       /\ q.todo = (IF rearrange THEN ops ELSE p.todo)
       /\ q.late = (IF rearrange THEN p.late ELSE p.late \o ops)
  BY <1>12, <1>15, <1>16 DEF Fields
<1>18. p.todo = << >> /\ ops \in Seq(OpType) /\ Len(ops) \in Nat
  BY <1>1, <1>2, <1>5, <1>13, <1>14, NetFacts DEF ControlInv
<1>19. (p.allocator = "heap" <=> l = 0) /\ c.allocator \in {"mmap", "swapped"}
  BY <1>5, <1>12, <1>13 DEF ControlInv
<1>20. ControlInv(q)
  <2>1. q.mRemove = (q.user = 0)
    <3>1. CASE l = 0
      BY <1>12, <1>17, <1>19, <3>1, Zenon
    <3>2. CASE l # 0
      <4>1. p.loaded > 0
        BY <1>13, <3>2, NetFacts
      <4>2. p.mRemove = (p.user = 0)
        BY <1>5, <4>1 DEF ControlInv
      <4> QED
        BY <1>12, <1>17, <1>19, <3>2, <4>2, Zenon
    <3> QED
      BY <3>1, <3>2
  <2>2. q.loaded \in 0 .. Len(Net) /\ q.loaded # 0 /\ q.loaded > 0
    BY <1>13, <1>17, NetFacts
  <2>3. p.late \in Seq(OpType) /\ p.late \o ops \in Seq(OpType)
    BY <1>5, <1>18 DEF ControlInv
  <2>4. q.todo \in Seq(OpType) /\ q.late \in Seq(OpType) /\ (q.pc \in {"acquire", "fill"} <=> q.todo # << >>)
    BY <1>17, <1>18, <2>3
  <2> QED
    BY <1>5, <1>17, <1>19, <2>1, <2>2, <2>4 DEF ControlInv
<1>21. sound' => sound
  BY <1>15
<1>22. BeliefInv(q, sync, sound')
  <2>1. q.pc # "fill"
    BY <1>17
  <2>2. p.user = 0 => (sound => ~sync)
    BY <1>4 DEF ProcInv, BeliefInv
  <2> QED
    BY <1>12, <1>17, <1>21, <2>1, <2>2 DEF BeliefInv
<1>23. FilesInv(q, disk)
  BY <1>4, <1>17 DEF ProcInv, FilesInv
<1>24. /\ EntryInv(q) /\ FreeInv(q.mFreeList, q.mAllocTimes)
       /\ UsedInv(Used(q), ToSet(q.mFreeList), q.mAllocTimes)
  <2>1. Memory(q) = Memory(p) /\ p.pc # "fill" /\ q.pc # "fill"
    BY <1>1, <1>2, <1>17 DEF Memory
  <2> QED
    BY <1>4, <2>1, SameMemory DEF ProcInv
<1>25. ASSUME sound' PROVE RightInv(q, disk)
  <2>1. RightInv(p, disk)
    BY <1>4, <1>21, <1>25 DEF ProcInv
  <2> QED
    BY <1>17, <2>1 DEF RightInv
<1>26. ASSUME sound', q.user = 1 PROVE CanonInv(q)
  <2>1. p.user = 1 /\ rearrange /\ p.allocator # "swapped" /\ sound
    <3>1. p.user = 1 /\ p.user # 0
      BY <1>17, <1>26
    <3> QED
      BY <1>15, <1>26, <3>1, Zenon
  <2>2. CanonInv(p)
    BY <1>4, <2>1 DEF ProcInv
  <2>3. PICK k \in Nat : k = Position(p)
    BY <2>1, <2>2 DEF CanonInv
  <2>4. q.late = << >> /\ q.allocator # "swapped" /\ q.todo = ops /\ q.pc # "fill"
    BY <1>12, <1>17, <2>1, <2>2 DEF CanonInv
  <2>5. k = Before(l)
    <3>1. Len(p.todo) = 0
      BY <1>18
    <3>2. Before(l) \in Nat
      BY <1>13, OrderFacts
    <3> QED
      BY <1>13, <2>3, <3>1, <3>2 DEF Position
  <2>6. /\ Before(l + 1) = k + Len(ops)
        /\ \A i \in 1 .. Len(ops) : ops[i] = Order[k + i]
    <3>1. (l + 1) - 1 = l /\ l + 1 \in 1 .. Len(Net)
      BY <1>13
    <3>2. Before(l + 1) = Before((l + 1) - 1) + Len(Net[l + 1])
      BY <3>1, OrderFacts
    <3>3. \A i \in Nat : i \in 1 .. Len(Net[l + 1]) => Order[Before((l + 1) - 1) + i] = Net[l + 1][i]
      BY <3>1, OrderFacts
    <3>4. \A i \in 1 .. Len(ops) : i \in Nat
      OBVIOUS
    <3> QED
      BY <1>14, <2>5, <3>1, <3>2, <3>3, <3>4
  <2>7. Position(q) = k
    <3>1. Position(q) = Before(l + 1) - Len(ops)
      BY <1>17, <2>4 DEF Position
    <3> QED
      BY <1>18, <2>6, <3>1
  <2>8. q.at = {Entry(j) : j \in 1 .. k} /\ Follows(q.mFreeList, q.mAllocTimes, Canon[k])
    BY <1>1, <1>2, <1>17, <2>1, <2>2, <2>3 DEF CanonInv
  <2>9. \A i \in 1 .. Len(q.todo) : q.todo[i] = Order[k + i]
    BY <2>4, <2>6
  <2> QED
    BY <2>4, <2>7, <2>8, <2>9 DEF CanonInv
<1>27. ProcInv(q, disk, sync, sound')
  BY <1>20, <1>22, <1>23, <1>24, <1>25, <1>26 DEF ProcInv
<1>28. sound' \in BOOLEAN /\ (sound' /\ sync => MarkInv(layout, disk, resumed))
  BY <1>15 DEF IInv
<1> QED
  BY <1>3, <1>15, <1>27, <1>28 DEF IInv

\* Segments of the operators that were created.
Placed(p) == {e.seg : e \in InFile(p)}

\* They are used, and so is the one that is being filled.
LEMMA UsedFacts ==
    ASSUME NEW p
    PROVE  /\ p.pc # "fill" => Used(p) = Placed(p)
           /\ p.pc = "fill" => Used(p) = Placed(p) \union {p.seg}
BY DEF Used, Placed, InFile

\* The allocator does not change where a process is in its calls.
LEMMA SameControl ==
    ASSUME NEW p, NEW q, ControlInv(p), p.loaded # 0, DOMAIN q = Fields, q.mAllocTimes \in Nat,
           Others(q) = Others(p)
    PROVE  ControlInv(q)
<1>1. /\ q.pc = p.pc /\ q.user = p.user /\ q.loaded = p.loaded /\ q.todo = p.todo
      /\ q.late = p.late /\ q.allocator = p.allocator /\ q.mRemove = p.mRemove
  BY DEF Others
<1> QED
  BY <1>1 DEF ControlInv

\* The fields that Place leaves alone.
Besides(p) == <<p.user, p.useCachedMmap, p.allocator, p.mRemove, p.mAllocTimes, p.mFreeList,
                p.late, p.loaded>>

\* An operator has been created.
LEMMA PlaceFacts ==
    ASSUME NEW p, ControlInv(p), p.todo # << >>, NEW op, NEW seg, NEW mem,
           NEW q, q = Place(p, op, seg, mem)
    PROVE  /\ DOMAIN q = Fields /\ Besides(q) = Besides(p)
           /\ q.at = p.at \union {[op |-> op, seg |-> seg, mem |-> mem]}
           /\ q.todo = Tail(p.todo) /\ q.pc \in {"idle", "acquire"}
           /\ ControlInv(q)
<1>1. PICK b : b = [p EXCEPT !.at = @ \union {[op |-> op, seg |-> seg, mem |-> mem]}, !.seg = NoSeg]
  OBVIOUS
<1>2. q = [b EXCEPT !.todo = Tail(@), !.pc = IF Len(b.todo) = 1 THEN "idle" ELSE "acquire"]
  BY <1>1 DEF Place, Created
<1>3. DOMAIN p = Fields /\ p.todo \in Seq(OpType) /\ p.pc \in {"acquire", "fill"}
  BY DEF ControlInv
<1>4. /\ DOMAIN b = Fields /\ b.todo = p.todo /\ Besides(b) = Besides(p)
      /\ b.at = p.at \union {[op |-> op, seg |-> seg, mem |-> mem]}
  BY <1>1, <1>3 DEF Fields, Besides
<1>5. /\ DOMAIN q = Fields /\ q.todo = Tail(p.todo) /\ Besides(q) = Besides(b) /\ q.at = b.at
      /\ q.pc = IF Len(p.todo) = 1 THEN "idle" ELSE "acquire"
  BY <1>2, <1>4 DEF Fields, Besides
<1>6. q.todo \in Seq(OpType) /\ (Len(p.todo) = 1 <=> q.todo = << >>)
  <2>1. Len(p.todo) \in Nat /\ Len(p.todo) # 0
    BY <1>3
  <2>2. Tail(p.todo) \in Seq(OpType) /\ Len(Tail(p.todo)) = Len(p.todo) - 1
    BY <1>3, <2>1
  <2>3. Tail(p.todo) = << >> <=> Len(Tail(p.todo)) = 0
    BY <2>2, EmptySeq
  <2> QED
    BY <1>5, <2>1, <2>2, <2>3
<1>7. ControlInv(q)
  <2>1. /\ q.user = p.user /\ q.loaded = p.loaded /\ q.late = p.late /\ q.allocator = p.allocator
        /\ q.mRemove = p.mRemove /\ q.mAllocTimes = p.mAllocTimes
    BY <1>4, <1>5 DEF Besides
  <2>2. q.pc \in {"idle", "acquire"} /\ (q.pc = "acquire" <=> q.todo # << >>) /\ p.loaded # 0
    BY <1>3, <1>5, <1>6 DEF ControlInv
  <2> QED
    BY <1>5, <1>6, <2>1, <2>2 DEF ControlInv
<1> QED
  BY <1>4, <1>5, <1>7

\* The segment of a new operator is its own.
LEMMA EntryPlaced ==
    ASSUME NEW p, NEW q, NEW op \in OpType, NEW g \in Segment, g.size = op.size,
           q.at = p.at \union {[op |-> op, seg |-> g, mem |-> "file"]}, q.pc # "fill",
           EntryInv(p), g \notin Placed(p)
    PROVE  EntryInv(q) /\ Used(q) = Placed(p) \union {g}
<1>1. PICK x : x = [op |-> op, seg |-> g, mem |-> "file"]
  OBVIOUS
<1>2. x.op = op /\ x.seg = g /\ x.mem = "file"
  BY <1>1
<1>3. x \in [op : OpType, seg : Segment \union {NoSeg}, mem : {"file", "set", "unset"}]
  BY <1>1
<1>4. InFile(q) = InFile(p) \union {x}
  BY <1>1, <1>2 DEF InFile
<1>5. \A e \in InFile(p) : e.seg # g
  BY DEF Placed
<1>6. EntryInv(q)
  <2>1. q.at \subseteq [op : OpType, seg : Segment \union {NoSeg}, mem : {"file", "set", "unset"}]
    BY <1>1, <1>3 DEF EntryInv
  <2>2. \A e \in InFile(q) : e.seg \in Segment /\ e.seg.size = e.op.size
    BY <1>2, <1>4 DEF EntryInv
  <2>3. \A e, h \in InFile(q) : e.seg = h.seg => e = h
    BY <1>2, <1>4, <1>5 DEF EntryInv
  <2> QED
    BY <2>1, <2>2, <2>3 DEF EntryInv
<1>7. Used(q) = Placed(q)
  BY UsedFacts
<1>8. Placed(q) = Placed(p) \union {g}
  BY <1>2, <1>4 DEF Placed
<1> QED
  BY <1>6, <1>7, <1>8

\* The next operator of a process with the hint is the next one of the layout.
NextOp(p, k) ==
    /\ k = Position(p) /\ k + 1 \in 1 .. Len(Order)
    /\ Head(p.todo) = Order[k + 1]
    /\ Canon[k + 1] = NextFit(Canon[k], Head(p.todo).size)
    /\ {Entry(j) : j \in 1 .. k + 1} =
         p.at \union {[op |-> Head(p.todo), seg |-> Canon[k + 1].seg, mem |-> "file"]}
    /\ \A q : q.todo = Tail(p.todo) /\ q.loaded = p.loaded =>
         /\ Position(q) = k + 1
         /\ \A i \in 1 .. Len(q.todo) : q.todo[i] = Order[(k + 1) + i]

\* There is one while an operator is to be created.
LEMMA NextOpFacts ==
    ASSUME NEW p, ControlInv(p), CanonInv(p), p.allocator # "swapped", p.todo # << >>
    PROVE  \E k \in Nat : NextOp(p, k)
<1>1. PICK k \in Nat : k = Position(p)
  BY DEF CanonInv
<1>2. p.todo \in Seq(OpType) /\ Len(p.todo) \in Nat /\ Len(p.todo) >= 1
  BY DEF ControlInv
<1>3. PICK N \in Nat : N = Len(Order)
  BY OrderFacts
<1>4. Before(p.loaded) \in Nat /\ Before(p.loaded) <= N
  BY <1>3, OrderFacts DEF ControlInv
<1>5. k = Before(p.loaded) - Len(p.todo)
  BY <1>1 DEF Position
<1>6. k + 1 \in 1 .. N
  BY <1>2, <1>4, <1>5
<1>7. /\ \A i \in 1 .. Len(p.todo) : p.todo[i] = Order[k + i]
      /\ p.at = {Entry(j) : j \in 1 .. k}
  BY <1>1 DEF CanonInv
<1>8. Head(p.todo) = Order[k + 1]
  <2>1. 1 \in 1 .. Len(p.todo) /\ Head(p.todo) = p.todo[1]
    BY <1>2
  <2> QED
    BY <1>7, <2>1
<1>9. Canon[k + 1] = NextFit(Canon[k], Head(p.todo).size)
  <2>1. (k + 1) - 1 = k
    OBVIOUS
  <2>2. Canon[k + 1] = NextFit(Canon[(k + 1) - 1], Order[k + 1].size)
    BY <1>3, <1>6, CanonFacts
  <2> QED
    BY <1>8, <2>1, <2>2
<1>10. {Entry(j) : j \in 1 .. k + 1} =
         p.at \union {[op |-> Head(p.todo), seg |-> Canon[k + 1].seg, mem |-> "file"]}
  <2>1. Entry(k + 1) = [op |-> Head(p.todo), seg |-> Canon[k + 1].seg, mem |-> "file"]
    BY <1>8 DEF Entry
  <2>2. \A j : j \in 1 .. k + 1 <=> j \in 1 .. k \/ j = k + 1
    OBVIOUS
  <2> HIDE DEF Entry
  <2> QED
    BY <1>7, <2>1, <2>2
<1>11. ASSUME NEW q, q.todo = Tail(p.todo), q.loaded = p.loaded
       PROVE  /\ Position(q) = k + 1
              /\ \A i \in 1 .. Len(q.todo) : q.todo[i] = Order[(k + 1) + i]
  <2>1. /\ Len(q.todo) = Len(p.todo) - 1
        /\ \A i \in 1 .. Len(q.todo) : q.todo[i] = p.todo[i + 1]
    BY <1>2, <1>11
  <2>2. Position(q) = k + 1
    BY <1>2, <1>4, <1>5, <1>11, <2>1 DEF Position
  <2>3. ASSUME NEW i \in 1 .. Len(q.todo) PROVE q.todo[i] = Order[(k + 1) + i]
    <3>1. i + 1 \in 1 .. Len(p.todo) /\ k + (i + 1) = (k + 1) + i
      BY <1>2, <2>1
    <3> QED
      BY <1>7, <2>1, <3>1
  <2> QED
    BY <2>2, <2>3
<1>12. NextOp(p, k)
  BY <1>1, <1>3, <1>6, <1>8, <1>9, <1>10, <1>11 DEF NextOp
<1> QED
  BY <1>12

\* Files that stay as they are keep their weights.
LEMMA OpenedKeeps ==
    ASSUME NEW d, NEW e, \A f \in DOMAIN d : f \in DOMAIN e /\ e[f] = d[f]
    PROVE  /\ \A l, r : MarkInv(l, d, r) => MarkInv(l, e, r)
           /\ \A p : RightInv(p, d) /\ (\A s \in Placed(p) : s.file \in DOMAIN d) => RightInv(p, e)
<1>1. ASSUME NEW l, NEW r, MarkInv(l, d, r) PROVE MarkInv(l, e, r)
  <2>1. ASSUME NEW x \in l, x.op.skips PROVE Saved(x, e, r)
    <3>1. Saved(x, d, r)
      BY <1>1, <2>1 DEF MarkInv
    <3> QED
      BY <3>1 DEF Saved
  <2> QED
    BY <1>1, <2>1 DEF MarkInv
<1>2. ASSUME NEW p, RightInv(p, d), \A s \in Placed(p) : s.file \in DOMAIN d PROVE RightInv(p, e)
  <2>1. ASSUME NEW x \in p.at, x.mem = "file" PROVE e[x.seg.file] = d[x.seg.file]
    BY <1>2, <2>1 DEF Placed, InFile
  <2> QED
    BY <1>2, <2>1 DEF RightInv
<1> QED
  BY <1>1, <1>2

\* What an operator gets from the mapped files, or from the heap after the swap.
LEMMA AcquireWeightStep ==
    ASSUME IInv, AcquireWeight
    PROVE  IInv'
<1>1. proc.pc = "acquire"
  BY DEF AcquireWeight
<1>2. PICK p : p = proc
  OBVIOUS
<1>3. PICK q : q = proc'
  OBVIOUS
<1>4. PICK d : d = disk
  OBVIOUS
<1>5. ProcInv(p, d, sync, sound) /\ DiskInv(d)
  BY <1>1, <1>2, <1>4 DEF IInv, Stopped
<1>6. /\ ControlInv(p) /\ EntryInv(p) /\ BeliefInv(p, sync, sound)
      /\ FreeInv(p.mFreeList, p.mAllocTimes) /\ 1 .. p.mAllocTimes \subseteq DOMAIN d
      /\ UsedInv(Used(p), ToSet(p.mFreeList), p.mAllocTimes)
  BY <1>5 DEF ProcInv, FilesInv
<1>7. /\ p.todo # << >> /\ p.todo \in Seq(OpType) /\ p.user \in {0, 1} /\ p.loaded # 0
      /\ p.mAllocTimes \in Nat /\ DOMAIN p = Fields /\ p.pc # "fill"
  BY <1>1, <1>2, <1>6 DEF ControlInv
<1>8. PICK op \in OpType : op = Head(p.todo)
  BY <1>7
<1>9. UNCHANGED <<sync, layout, resumed>>
  BY DEF AcquireWeight
<1>10. CASE p.allocator = "swapped"
  <2>1. q = Place(p, op, NoSeg, HeapMem(p, op)) /\ UNCHANGED <<disk, sound>>
    BY <1>2, <1>3, <1>8, <1>10 DEF AcquireWeight
  <2>2. PICK x : x = [op |-> op, seg |-> NoSeg, mem |-> HeapMem(p, op)]
    OBVIOUS
  <2>3. /\ DOMAIN q = Fields /\ Besides(q) = Besides(p) /\ q.at = p.at \union {x}
        /\ q.todo = Tail(p.todo) /\ q.pc \in {"idle", "acquire"} /\ ControlInv(q)
    BY <1>6, <1>7, <2>1, <2>2, PlaceFacts
  <2>4. /\ q.user = p.user /\ q.useCachedMmap = p.useCachedMmap /\ q.allocator = p.allocator
        /\ q.mAllocTimes = p.mAllocTimes /\ q.mFreeList = p.mFreeList
    BY <2>3 DEF Besides
  <2>5. HeapMem(p, op) \in {"set", "unset"} /\ (p.user = 0 => HeapMem(p, op) = "set")
    BY <1>6, <1>7, HeapMemFacts
  <2>6. {x} \subseteq [op : OpType, seg : {NoSeg}, mem : {"set", "unset"}]
    BY <2>2, <2>5
  <2>7. /\ EntryInv(q) /\ FreeInv(q.mFreeList, q.mAllocTimes)
        /\ UsedInv(Used(q), ToSet(q.mFreeList), q.mAllocTimes)
    BY <1>6, <1>7, <2>3, <2>4, <2>6, HeapEntries
  <2>8. BeliefInv(q, sync, sound) /\ FilesInv(q, d)
    BY <1>6, <1>10, <2>3, <2>4 DEF BeliefInv, FilesInv
  <2>9. ASSUME sound PROVE RightInv(q, d) /\ (q.user = 1 => CanonInv(q))
    <3>1. RightInv(p, d) /\ (p.user = 1 => CanonInv(p))
      BY <1>5, <2>9 DEF ProcInv
    <3>2. p.user = 0
      BY <1>7, <1>10, <3>1 DEF CanonInv
    <3>3. x.mem = "set"
      BY <2>2, <2>5, <3>2
    <3> QED
      BY <2>3, <2>4, <3>1, <3>2, <3>3 DEF RightInv
  <2>10. ProcInv(q, d, sync, sound)
    BY <2>3, <2>7, <2>8, <2>9 DEF ProcInv
  <2> QED
    BY <1>3, <1>4, <1>9, <2>1, <2>10 DEF IInv
<1>11. CASE p.allocator = "mmap"
  <2>1. PICK a : a = Alloc(p, d, op.size)
    OBVIOUS
  <2>2. /\ disk' = a.d
        /\ q = (IF Skips(p, op) THEN Place(a.p, op, a.seg, "file")
                ELSE [a.p EXCEPT !.seg = a.seg, !.pc = "fill"])
        /\ sound' = (sound /\ Cardinality(Fitting(p, op.size)) <= 1)
    BY <1>2, <1>3, <1>4, <1>8, <1>11, <2>1 DEF AcquireWeight
  <2>3. op.size \in 1 .. mmapSize
    BY <1>8 DEF OpType
  <2>4. PICK s, out, m : Answers(a, p, d, op.size, s, out, m)
    BY <1>6, <1>7, <2>1, <2>3, AllocFacts
  <2>5. PICK n \in Nat : n = p.mAllocTimes
    BY <1>7
  <2>6. PICK list : list = p.mFreeList
    OBVIOUS
  <2>7. PICK g : g = Cut(s, op.size)
    OBVIOUS
  <2>8. PICK b : b = a.p
    OBVIOUS
  <2>9. PICK e : e = a.d
    OBVIOUS
  <2>10. /\ Taken(s, list, n, op.size, out, m) /\ a.seg = g /\ e = Opened(d, n, m)
         /\ DOMAIN b = Fields /\ b.mFreeList = After(out, s, op.size) /\ b.mAllocTimes = m
         /\ Others(b) = Others(p)
         /\ Cardinality(Fitting(p, op.size)) <= 1 => Only(s, list, op.size)
    BY <2>4, <2>5, <2>6, <2>7, <2>8, <2>9 DEF Answers
  <2>11. FreeInv(list, n) /\ UsedInv(Used(p), ToSet(list), n)
    BY <1>6, <2>5, <2>6
  <2>12. /\ m \in {n, n + 1} /\ FreeInv(out, m) /\ s \in SegmentIn(m)
         /\ s.off + s.size = mmapSize /\ op.size <= s.size
         /\ \A t \in ToSet(out) : t.file # s.file
    BY <2>3, <2>10, <2>11, TakenFacts
  <2>13. m \in Nat /\ op.size \in 1 .. s.size
    BY <2>3, <2>12, NetFacts DEF SegmentIn, Segment
  <2>14. FreeInv(b.mFreeList, m)
    BY <2>10, <2>12, <2>13, AfterFacts
  <2>15. Used(p) = Placed(p)
    BY <1>7, UsedFacts
  <2>16. /\ UsedInv(Placed(p) \union {g}, ToSet(b.mFreeList), m)
         /\ \A u \in Placed(p) : u # g /\ Apart(u, g)
    BY <2>3, <2>7, <2>10, <2>11, <2>15, CutUsed
  <2>17. g \in Segment /\ g.size = op.size /\ g \notin Placed(p)
    BY <2>7, <2>12, <2>13, <2>16, CutFacts DEF SegmentIn
  <2>18. /\ 1 .. m \subseteq DOMAIN e /\ DiskInv(e)
         /\ \A f \in DOMAIN d : f \in DOMAIN e /\ e[f] = d[f]
    <3>1. DOMAIN d \subseteq Nat \ {0} /\ (\A f \in DOMAIN d : d[f] \in FileType) /\ 1 .. n \subseteq DOMAIN d
      BY <1>5, <1>6, <2>5 DEF DiskInv
    <3>2. /\ 1 .. m \subseteq DOMAIN e /\ DOMAIN e \subseteq Nat \ {0}
          /\ \A f \in DOMAIN e : e[f] \in FileType
          /\ \A f \in DOMAIN d : f \in DOMAIN e /\ e[f] = d[f]
      BY <2>10, <2>12, <3>1, OpenedFacts
    <3> QED
      BY <3>2 DEF DiskInv
  <2>19. /\ b.pc = p.pc /\ b.user = p.user /\ b.useCachedMmap = p.useCachedMmap
         /\ b.allocator = p.allocator /\ b.at = p.at /\ b.todo = p.todo /\ b.late = p.late
         /\ b.loaded = p.loaded
    BY <2>10 DEF Others
  <2>20. ControlInv(b)
    BY <1>6, <1>7, <2>10, <2>13, SameControl
  <2>21. \A t \in Placed(p) : t.file \in DOMAIN d
    <3>1. ASSUME NEW t \in Placed(p) PROVE t.file \in 1 .. n
      BY <2>11, <2>15 DEF UsedInv, SegmentIn, Segment
    <3> QED
      BY <1>6, <2>5, <3>1
  <2>22. sound' => sound
    BY <2>2
  <2>23. sound' => RightInv(p, e)
    <3>1. sound => RightInv(p, d)
      BY <1>5 DEF ProcInv
    <3> QED
      BY <2>18, <2>21, <2>22, <3>1, OpenedKeeps
  <2>24. sound' /\ sync => MarkInv(layout, e, resumed)
    <3>1. sound /\ sync => MarkInv(layout, d, resumed)
      BY <1>4 DEF IInv
    <3> QED
      BY <2>18, <2>22, <3>1, OpenedKeeps
  <2>25. ASSUME sound', p.user = 1
         PROVE  /\ CanonInv(p) /\ \E k \in Nat : NextOp(p, k)
                /\ \A k \in Nat : NextOp(p, k) => Follows(b.mFreeList, m, Canon[k + 1]) /\ g = Canon[k + 1].seg
    <3>1. CanonInv(p)
      BY <1>5, <2>22, <2>25 DEF ProcInv
    <3>2. \E k \in Nat : NextOp(p, k)
      BY <1>6, <1>7, <1>11, <3>1, NextOpFacts
    <3>3. ASSUME NEW k \in Nat, NextOp(p, k)
          PROVE  Follows(b.mFreeList, m, Canon[k + 1]) /\ g = Canon[k + 1].seg
      <4>1. Canon[k + 1] = NextFit(Canon[k], op.size) /\ k = Position(p)
        BY <1>8, <3>3 DEF NextOp
      <4>2. Follows(list, n, Canon[k])
        BY <1>7, <1>11, <2>5, <2>6, <3>1, <4>1 DEF CanonInv
      <4>3. Only(s, list, op.size)
        BY <2>2, <2>10, <2>25
      <4>4. /\ Follows(After(out, s, op.size), m, NextFit(Canon[k], op.size))
            /\ NextFit(Canon[k], op.size).seg = Cut(s, op.size)
        BY <2>3, <2>10, <2>11, <4>2, <4>3, FollowCut
      <4> QED
        BY <2>7, <2>10, <4>1, <4>4
    <3> QED
      BY <3>1, <3>2, <3>3
  <2>26. CASE ~Skips(p, op)
    <3>1. q = [b EXCEPT !.seg = g, !.pc = "fill"]
      BY <2>2, <2>8, <2>10, <2>26
    <3>2. /\ DOMAIN q = Fields /\ q.pc = "fill" /\ q.seg = g /\ q.user = p.user /\ q.loaded = p.loaded
          /\ q.useCachedMmap = p.useCachedMmap /\ q.allocator = p.allocator /\ q.at = p.at
          /\ q.todo = p.todo /\ q.late = p.late /\ q.mAllocTimes = m /\ q.mFreeList = b.mFreeList
          /\ q.mRemove = b.mRemove
      BY <2>10, <2>19, <3>1 DEF Fields
    <3>3. ControlInv(q)
      BY <1>7, <1>11, <2>13, <2>19, <2>20, <3>2 DEF ControlInv
    <3>4. InFile(q) = InFile(p) /\ Used(q) = Placed(p) \union {g}
      <4>1. InFile(q) = InFile(p)
        BY <3>2 DEF InFile
      <4> QED
        BY <3>2, <4>1, UsedFacts DEF Placed
    <3>5. EntryInv(q)
      <4>1. \A x \in InFile(q) : x.seg # q.seg
        BY <2>17, <3>2, <3>4 DEF Placed
      <4>2. q.seg.size = Head(q.todo).size
        BY <1>8, <2>17, <3>2
      <4> QED
        BY <1>6, <3>2, <3>4, <4>1, <4>2 DEF EntryInv
    <3>6. FreeInv(q.mFreeList, q.mAllocTimes) /\ UsedInv(Used(q), ToSet(q.mFreeList), q.mAllocTimes)
      BY <2>14, <2>16, <3>2, <3>4
    <3>7. BeliefInv(q, sync, sound')
      <4>1. ~Skips(q, Head(q.todo))
        BY <1>8, <2>26, <3>2 DEF Skips
      <4> QED
        BY <1>6, <2>22, <3>2, <4>1 DEF BeliefInv
    <3>8. FilesInv(q, e)
      BY <2>18, <3>2 DEF FilesInv
    <3>9. sound' => RightInv(q, e)
      BY <2>23, <3>2 DEF RightInv
    <3>10. ASSUME sound', q.user = 1 PROVE CanonInv(q)
      <4>1. PICK k \in Nat : /\ NextOp(p, k) /\ CanonInv(p)
                             /\ Follows(b.mFreeList, m, Canon[k + 1]) /\ g = Canon[k + 1].seg
        BY <2>25, <3>2, <3>10
      <4>2. k = Position(p) /\ Position(q) = k
        BY <3>2, <4>1 DEF NextOp, Position
      <4>3. /\ p.late = << >> /\ \A i \in 1 .. Len(p.todo) : p.todo[i] = Order[k + i]
            /\ p.at = {Entry(j) : j \in 1 .. k}
        BY <1>11, <4>1, <4>2 DEF CanonInv
      <4> QED
        BY <1>11, <3>2, <4>1, <4>2, <4>3 DEF CanonInv
    <3> QED
      BY <3>3, <3>5, <3>6, <3>7, <3>8, <3>9, <3>10, <1>3, <1>9, <2>2, <2>9, <2>18, <2>24 DEF ProcInv, IInv
  <2>27. CASE Skips(p, op)
    <3>1. q = Place(b, op, g, "file")
      BY <2>2, <2>8, <2>10, <2>27
    <3>2. /\ DOMAIN q = Fields /\ Besides(q) = Besides(b)
          /\ q.at = b.at \union {[op |-> op, seg |-> g, mem |-> "file"]}
          /\ q.todo = Tail(b.todo) /\ q.pc \in {"idle", "acquire"} /\ ControlInv(q)
      BY <1>7, <2>19, <2>20, <3>1, PlaceFacts
    <3>3. /\ q.user = p.user /\ q.loaded = p.loaded /\ q.useCachedMmap = p.useCachedMmap
          /\ q.allocator = p.allocator /\ q.late = p.late /\ q.mAllocTimes = m
          /\ q.mFreeList = b.mFreeList
      BY <2>10, <2>19, <3>2 DEF Besides
    <3>4. EntryInv(q) /\ Used(q) = Placed(p) \union {g}
      BY <1>6, <2>17, <2>19, <3>2, EntryPlaced
    <3>5. FreeInv(q.mFreeList, q.mAllocTimes) /\ UsedInv(Used(q), ToSet(q.mFreeList), q.mAllocTimes)
      BY <2>14, <2>16, <3>3, <3>4
    <3>6. BeliefInv(q, sync, sound') /\ FilesInv(q, e)
      BY <1>6, <2>18, <2>22, <3>2, <3>3 DEF BeliefInv, FilesInv
    <3>7. p.user = 1 /\ sync /\ op.skips
      <4>1. p.useCachedMmap > 1 /\ op.skips
        BY <2>27 DEF Skips
      <4> QED
        BY <1>6, <1>7, <1>11, <4>1 DEF BeliefInv
    <3>8. ASSUME sound' PROVE RightInv(q, e) /\ CanonInv(q)
      <4>1. PICK k \in Nat : /\ NextOp(p, k) /\ CanonInv(p)
                             /\ Follows(b.mFreeList, m, Canon[k + 1]) /\ g = Canon[k + 1].seg
        BY <2>25, <3>7, <3>8
      <4>2. q.at = {Entry(j) : j \in 1 .. k + 1}
        BY <1>8, <2>19, <3>2, <4>1 DEF NextOp
      <4>3. /\ Position(q) = k + 1
            /\ \A i \in 1 .. Len(q.todo) : q.todo[i] = Order[(k + 1) + i]
        <5>1. q.todo = Tail(p.todo) /\ q.loaded = p.loaded
          BY <2>19, <3>2, <3>3
        <5>2. \A x : x.todo = Tail(p.todo) /\ x.loaded = p.loaded =>
                 /\ Position(x) = k + 1
                 /\ \A i \in 1 .. Len(x.todo) : x.todo[i] = Order[(k + 1) + i]
          BY <4>1 DEF NextOp
        <5> QED
          BY <5>1, <5>2, Zenon
      <4>4. p.late = << >>
        BY <4>1 DEF CanonInv
      <4>5. CanonInv(q)
        BY <1>11, <3>2, <3>3, <4>1, <4>2, <4>3, <4>4 DEF CanonInv
      <4>6. PICK x : x = Entry(k + 1)
        OBVIOUS
      <4>7. x \in layout /\ x.op = op /\ x.seg = g
        <5>1. MarkInv(layout, e, resumed)
          BY <2>24, <3>7, <3>8
        <5>2. k + 1 \in 1 .. Len(Order) /\ op = Order[k + 1]
          BY <1>8, <4>1 DEF NextOp
        <5>3. x \in layout
          BY <4>6, <5>1, <5>2 DEF MarkInv
        <5> QED
          BY <4>1, <4>6, <5>2, <5>3 DEF Entry
      <4>8. Holds(e[g.file].mem, g, op)
        BY <2>24, <3>7, <3>8, <4>7 DEF MarkInv, Saved
      <4>9. RightInv(q, e)
        BY <2>19, <2>23, <3>2, <3>8, <4>8 DEF RightInv
      <4> QED
        BY <4>5, <4>9
    <3>9. ProcInv(q, e, sync, sound')
      BY <3>2, <3>4, <3>5, <3>6, <3>8 DEF ProcInv
    <3> QED
      BY <1>3, <1>9, <2>2, <2>9, <2>18, <2>24, <3>9 DEF IInv
  <2> QED
    BY <2>26, <2>27
<1> QED
  BY <1>2, <1>10, <1>11 DEF AcquireWeight

\* What an operator's temporary leaves behind: process b and files e after p and d.
AfterTemp(p, d, b, e, temp) ==
    /\ DOMAIN b = Fields /\ Others(b) = Others(p) /\ b.mAllocTimes \in Nat
    /\ FreeInv(b.mFreeList, b.mAllocTimes)
    /\ UsedInv(Used(p), ToSet(b.mFreeList), b.mAllocTimes)
    /\ \A c : Follows(p.mFreeList, p.mAllocTimes, c) => Follows(b.mFreeList, b.mAllocTimes, c)
    /\ DiskInv(e) /\ 1 .. b.mAllocTimes \subseteq DOMAIN e
    /\ \A f \in DOMAIN d : f \in DOMAIN e /\ e[f].dur = d[f].dur
    /\ \A u \in Used(p) : \A op :
          op.size = u.size /\ Holds(d[u.file].mem, u, op) => Holds(e[u.file].mem, u, op)
    /\ temp = 0 => e = d

\* A temporary is written where nothing is in use, and freed.
LEMMA TempFacts ==
    ASSUME NEW p, ControlInv(p), NEW d, DiskInv(d), 1 .. p.mAllocTimes \subseteq DOMAIN d,
           FreeInv(p.mFreeList, p.mAllocTimes),
           UsedInv(Used(p), ToSet(p.mFreeList), p.mAllocTimes),
           NEW temp \in 1 .. mmapSize, NEW t, t = Alloc(p, d, temp),
           NEW b, b = Free(t.p, t.seg), NEW e, e = Write(t.d, t.seg, Junk(temp))
    PROVE  AfterTemp(p, d, b, e, temp)
<1>1. p.mAllocTimes \in Nat /\ DOMAIN p = Fields
  BY DEF ControlInv
<1>2. PICK s, out, m : Answers(t, p, d, temp, s, out, m)
  BY <1>1, AllocFacts
<1>3. PICK n \in Nat : n = p.mAllocTimes
  BY <1>1
<1>4. PICK list : list = p.mFreeList
  OBVIOUS
<1>5. PICK g : g = Cut(s, temp)
  OBVIOUS
<1>6. PICK h : h = t.d
  OBVIOUS
<1>7. /\ Taken(s, list, n, temp, out, m) /\ t.seg = g /\ h = Opened(d, n, m)
      /\ DOMAIN t.p = Fields /\ t.p.mFreeList = After(out, s, temp) /\ t.p.mAllocTimes = m
      /\ Others(t.p) = Others(p)
  BY <1>2, <1>3, <1>4, <1>5, <1>6 DEF Answers
<1>8. FreeInv(list, n) /\ UsedInv(Used(p), ToSet(list), n)
  BY <1>3, <1>4
<1>9. /\ m \in {n, n + 1} /\ FreeInv(out, m) /\ s \in SegmentIn(m)
      /\ s.off + s.size = mmapSize /\ temp <= s.size
      /\ \A x \in ToSet(out) : x.file # s.file
  BY <1>7, <1>8, TakenFacts
<1>10. m \in Nat /\ temp \in 1 .. s.size
  BY <1>9, NetFacts DEF SegmentIn, Segment
<1>11. PICK back : back = FreeList(After(out, s, temp), g)
  OBVIOUS
<1>12. b = [t.p EXCEPT !.mFreeList = back]
  BY <1>7, <1>11 DEF Free, FreeList
<1>13. DOMAIN b = Fields /\ Others(b) = Others(p) /\ b.mAllocTimes = m /\ b.mFreeList = back
  <2>1. PICK c : c = t.p
    OBVIOUS
  <2>2. b = [c EXCEPT !.mFreeList = back] /\ DOMAIN c = Fields /\ c.mAllocTimes = m /\ Others(c) = Others(p)
    BY <1>7, <1>12, <2>1
  <2>3. DOMAIN b = Fields /\ Others(b) = Others(c) /\ b.mAllocTimes = c.mAllocTimes /\ b.mFreeList = back
    BY <2>2 DEF Fields, Others
  <2> QED
    BY <2>2, <2>3
<1>14. FreeInv(back, m) /\ ToSet(back) = ToSet(out) \union {s}
  BY <1>5, <1>9, <1>10, <1>11, FreeListFacts
<1>15. /\ UsedInv(Used(p), ToSet(back), m)
       /\ \A u \in Used(p) : Apart(u, g)
  <2>1. PICK U : U = Used(p)
    OBVIOUS
  <2>2. UsedInv(U, ToSet(list), n)
    BY <1>8, <2>1
  <2>3. /\ UsedInv(U \union {Cut(s, temp)}, ToSet(After(out, s, temp)), m)
        /\ \A u \in U : u # Cut(s, temp) /\ Apart(u, Cut(s, temp))
        /\ UsedInv(U, ToSet(out) \union {s}, m)
    BY <1>7, <1>8, <2>2, CutUsed
  <2> QED
    BY <1>5, <1>14, <2>1, <2>3
<1>16. ASSUME NEW c, Follows(list, n, c) PROVE Follows(back, m, c)
  BY <1>7, <1>8, <1>14, <1>16, FollowTemp
<1>17. /\ 1 .. m \subseteq DOMAIN h /\ DiskInv(h)
       /\ \A f \in DOMAIN d : f \in DOMAIN h /\ h[f] = d[f]
  <2>1. DOMAIN d \subseteq Nat \ {0} /\ (\A f \in DOMAIN d : d[f] \in FileType) /\ 1 .. n \subseteq DOMAIN d
    BY <1>3 DEF DiskInv
  <2>2. /\ 1 .. m \subseteq DOMAIN h /\ DOMAIN h \subseteq Nat \ {0}
        /\ \A f \in DOMAIN h : h[f] \in FileType
        /\ \A f \in DOMAIN d : f \in DOMAIN h /\ h[f] = d[f]
    BY <1>7, <1>9, <2>1, OpenedFacts
  <2> QED
    BY <2>2 DEF DiskInv
<1>18. g \in Segment /\ g.size = temp /\ g.file \in DOMAIN h
  <2>1. g \in SegmentIn(m) /\ g.size = temp
    BY <1>5, <1>9, <1>10, CutFacts
  <2>2. g \in Segment /\ g.file \in 1 .. m
    BY <1>10, <2>1 DEF SegmentIn, Segment
  <2> QED
    BY <1>17, <2>1, <2>2
<1>19. \A i \in 1 .. g.size : Junk(temp)[i] \in Value
  BY <1>18 DEF Junk, Value
<1>20. e = Write(h, g, Junk(temp))
  BY <1>6, <1>7
<1>21. /\ DiskInv(e) /\ DOMAIN e = DOMAIN h
       /\ \A f \in DOMAIN h : e[f].dur = h[f].dur
       /\ \A f \in DOMAIN h, c \in Cells : ~Has(g, f, c) => e[f].mem[c] = h[f].mem[c]
  BY <1>17, <1>18, <1>19, <1>20, WriteFacts
<1>22. Keeps(e, d, g)
  BY <1>17, <1>21 DEF Keeps
<1>23. ASSUME NEW u \in Used(p), NEW op, op.size = u.size, Holds(d[u.file].mem, u, op)
       PROVE  Holds(e[u.file].mem, u, op)
  <2>1. u \in SegmentIn(n) /\ Apart(u, g)
    BY <1>8, <1>15 DEF UsedInv
  <2>2. u \in Segment /\ u.file \in 1 .. n
    BY <2>1 DEF SegmentIn, Segment
  <2>3. u.file \in DOMAIN d
    BY <1>3, <2>2
  <2> QED
    BY <1>18, <1>22, <1>23, <2>1, <2>2, <2>3, HoldsKept
<1>24. \A f \in DOMAIN d : f \in DOMAIN e /\ e[f].dur = d[f].dur
  BY <1>22 DEF Keeps
<1>25. temp # 0
  OBVIOUS
<1>26. 1 .. b.mAllocTimes \subseteq DOMAIN e
  BY <1>13, <1>17, <1>21
<1>27. \A c : Follows(p.mFreeList, p.mAllocTimes, c) => Follows(b.mFreeList, b.mAllocTimes, c)
  BY <1>3, <1>4, <1>13, <1>16
<1> QED
  BY <1>10, <1>13, <1>14, <1>15, <1>21, <1>23, <1>24, <1>25, <1>26, <1>27 DEF AfterTemp

\* An operator without a temporary leaves everything alone.
LEMMA NoTempFacts ==
    ASSUME NEW p, ControlInv(p), NEW d, DiskInv(d), 1 .. p.mAllocTimes \subseteq DOMAIN d,
           FreeInv(p.mFreeList, p.mAllocTimes),
           UsedInv(Used(p), ToSet(p.mFreeList), p.mAllocTimes)
    PROVE  AfterTemp(p, d, p, d, 0)
BY DEF AfterTemp, ControlInv

\* Weights are written over nothing that a process relies on.
LEMMA FillWeightStep ==
    ASSUME IInv, FillWeight
    PROVE  IInv'
<1>1. proc.pc = "fill"
  BY DEF FillWeight
<1>2. PICK p : p = proc
  OBVIOUS
<1>3. PICK q : q = proc'
  OBVIOUS
<1>4. PICK d : d = disk
  OBVIOUS
<1>5. PICK e : e = disk'
  OBVIOUS
<1>6. ProcInv(p, d, sync, sound) /\ DiskInv(d)
  BY <1>1, <1>2, <1>4 DEF IInv, Stopped
<1>7. /\ ControlInv(p) /\ EntryInv(p) /\ BeliefInv(p, sync, sound)
      /\ FreeInv(p.mFreeList, p.mAllocTimes) /\ 1 .. p.mAllocTimes \subseteq DOMAIN d
      /\ UsedInv(Used(p), ToSet(p.mFreeList), p.mAllocTimes)
  BY <1>6 DEF ProcInv, FilesInv
<1>8. /\ p.todo # << >> /\ p.todo \in Seq(OpType) /\ p.user \in {0, 1} /\ p.loaded # 0
      /\ p.mAllocTimes \in Nat /\ DOMAIN p = Fields /\ p.pc = "fill" /\ p.allocator = "mmap"
  BY <1>1, <1>2, <1>7 DEF ControlInv
<1>9. PICK op \in OpType : op = Head(p.todo)
  BY <1>8
<1>10. /\ UNCHANGED <<sync, layout, resumed>>
       /\ sound' = (sound /\ (op.temp > 0 => Cardinality(Fitting(p, op.temp)) <= 1))
  BY <1>2, <1>9 DEF FillWeight
<1>11. \E b, h : AfterTemp(p, d, b, h, op.temp) /\ q = Place(b, op, p.seg, "file") /\ e = Write(h, p.seg, Data(op))
  <2>1. op.temp \in 0 .. mmapSize
    BY <1>9 DEF OpType
  <2>2. CASE op.temp = 0
    <3>1. ~(op.temp > 0)
      BY <2>2
    <3>2. q = Place(p, op, p.seg, "file") /\ e = Write(d, p.seg, Data(op))
      BY <1>2, <1>3, <1>4, <1>5, <1>9, <3>1 DEF FillWeight
    <3>3. AfterTemp(p, d, p, d, op.temp)
      BY <1>6, <1>7, <2>2, NoTempFacts
    <3> QED
      BY <3>2, <3>3
  <2>3. CASE op.temp # 0
    <3>1. op.temp > 0 /\ op.temp \in 1 .. mmapSize
      BY <2>1, <2>3, NetFacts
    <3>2. PICK t : t = Alloc(p, d, op.temp)
      OBVIOUS
    <3>3. PICK b : b = Free(t.p, t.seg)
      OBVIOUS
    <3>4. PICK h : h = Write(t.d, t.seg, Junk(op.temp))
      OBVIOUS
    <3>5. q = Place(b, op, p.seg, "file") /\ e = Write(h, p.seg, Data(op))
      BY <1>2, <1>3, <1>4, <1>5, <1>9, <3>1, <3>2, <3>3, <3>4 DEF FillWeight
    <3>6. AfterTemp(p, d, b, h, op.temp)
      BY <1>6, <1>7, <3>1, <3>2, <3>3, <3>4, TempFacts
    <3> QED
      BY <3>5, <3>6
  <2> QED
    BY <2>2, <2>3
<1>12. PICK b, h : AfterTemp(p, d, b, h, op.temp) /\ q = Place(b, op, p.seg, "file") /\ e = Write(h, p.seg, Data(op))
  BY <1>11
<1>13. PICK g : g = p.seg
  OBVIOUS
<1>14. /\ DOMAIN b = Fields /\ Others(b) = Others(p) /\ b.mAllocTimes \in Nat
       /\ FreeInv(b.mFreeList, b.mAllocTimes)
       /\ UsedInv(Used(p), ToSet(b.mFreeList), b.mAllocTimes)
       /\ DiskInv(h) /\ 1 .. b.mAllocTimes \subseteq DOMAIN h
       /\ \A f \in DOMAIN d : f \in DOMAIN h /\ h[f].dur = d[f].dur
  BY <1>12 DEF AfterTemp
<1>15. \A u \in Used(p) : \A o :
         o.size = u.size /\ Holds(d[u.file].mem, u, o) => Holds(h[u.file].mem, u, o)
  BY <1>12 DEF AfterTemp
<1>16. /\ b.pc = p.pc /\ b.user = p.user /\ b.useCachedMmap = p.useCachedMmap
       /\ b.allocator = p.allocator /\ b.at = p.at /\ b.todo = p.todo /\ b.late = p.late
       /\ b.loaded = p.loaded
  BY <1>14 DEF Others
<1>17. ControlInv(b)
  BY <1>7, <1>8, <1>14, SameControl
<1>18. /\ DOMAIN q = Fields /\ Besides(q) = Besides(b)
       /\ q.at = b.at \union {[op |-> op, seg |-> g, mem |-> "file"]}
       /\ q.todo = Tail(b.todo) /\ q.pc \in {"idle", "acquire"} /\ ControlInv(q)
  BY <1>8, <1>12, <1>13, <1>16, <1>17, PlaceFacts
<1>19. /\ q.user = p.user /\ q.loaded = p.loaded /\ q.useCachedMmap = p.useCachedMmap
       /\ q.allocator = p.allocator /\ q.late = p.late /\ q.mAllocTimes = b.mAllocTimes
       /\ q.mFreeList = b.mFreeList
  BY <1>16, <1>18 DEF Besides
<1>20. Used(p) = Placed(p) \union {g}
  BY <1>8, <1>13, UsedFacts
<1>21. g \in Segment /\ g.size = op.size /\ g \notin Placed(p) /\ g.file \in DOMAIN h
  <2>1. g \in SegmentIn(b.mAllocTimes)
    BY <1>14, <1>20 DEF UsedInv
  <2>2. g \in Segment /\ g.file \in 1 .. b.mAllocTimes
    BY <1>14, <2>1 DEF SegmentIn, Segment
  <2>3. g.size = op.size /\ g \notin Placed(p)
    BY <1>7, <1>8, <1>9, <1>13 DEF EntryInv, Placed
  <2> QED
    BY <1>14, <2>2, <2>3
<1>22. EntryInv(q) /\ Used(q) = Used(p)
  BY <1>7, <1>16, <1>18, <1>20, <1>21, EntryPlaced
<1>23. FreeInv(q.mFreeList, q.mAllocTimes) /\ UsedInv(Used(q), ToSet(q.mFreeList), q.mAllocTimes)
  BY <1>14, <1>19, <1>22
<1>24. /\ DiskInv(e) /\ DOMAIN e = DOMAIN h
       /\ \A f \in DOMAIN h : e[f].dur = h[f].dur
       /\ \A f \in DOMAIN h, c \in Cells : ~Has(g, f, c) => e[f].mem[c] = h[f].mem[c]
       /\ \A i \in 1 .. g.size : e[g.file].mem[g.off + i] = Data(op)[i]
  <2>1. ASSUME NEW i \in 1 .. g.size PROVE Data(op)[i] \in Value
    <3>1. op.w \in Nat /\ i \in Cells /\ i \in 1 .. op.size
      BY <1>9, <1>21, NetFacts DEF OpType, Cells
    <3> QED
      BY <3>1 DEF Data, Value
  <2> QED
    BY <1>12, <1>13, <1>14, <1>21, <2>1, WriteFacts
<1>25. Keeps(e, h, g)
  BY <1>24 DEF Keeps
<1>26. FilesInv(q, e)
  BY <1>14, <1>18, <1>19, <1>24 DEF FilesInv
<1>27. sound' => sound
  BY <1>10
<1>28. BeliefInv(q, sync, sound')
  BY <1>7, <1>18, <1>19, <1>27 DEF BeliefInv
<1>29. ASSUME sound' PROVE RightInv(q, e)
  <2>1. RightInv(p, d)
    BY <1>6, <1>27, <1>29 DEF ProcInv
  <2>2. ASSUME NEW x \in p.at, x.mem = "file" PROVE Holds(e[x.seg.file].mem, x.seg, x.op)
    <3>1. x.seg \in Placed(p) /\ x \in InFile(p)
      BY <2>2 DEF Placed, InFile
    <3>2. x.seg \in Segment /\ x.op.size = x.seg.size
      BY <1>7, <3>1 DEF EntryInv
    <3>3. x.seg \in Used(p) /\ g \in Used(p) /\ x.seg # g
      BY <1>20, <1>21, <3>1
    <3>4. Apart(x.seg, g) /\ x.seg \in SegmentIn(b.mAllocTimes)
      BY <1>14, <3>3 DEF UsedInv
    <3>5. x.seg.file \in DOMAIN h
      <4>1. x.seg.file \in 1 .. b.mAllocTimes
        BY <1>14, <3>4 DEF SegmentIn, Segment
      <4> QED
        BY <1>14, <4>1
    <3>6. Holds(d[x.seg.file].mem, x.seg, x.op)
      BY <2>1, <2>2 DEF RightInv
    <3>7. Holds(h[x.seg.file].mem, x.seg, x.op)
      BY <1>15, <3>2, <3>3, <3>6
    <3> QED
      BY <1>21, <1>25, <3>2, <3>4, <3>5, <3>7, HoldsKept
  <2>3. Holds(e[g.file].mem, g, op)
    <3>1. \A i \in 1 .. op.size : Data(op)[i] = <<op.w, i>>
      BY DEF Data
    <3> QED
      BY <1>21, <1>24, <3>1 DEF Holds
  <2> QED
    BY <1>16, <1>18, <2>1, <2>2, <2>3 DEF RightInv
<1>30. ASSUME sound', p.user = 1 PROVE CanonInv(p) /\ \E k \in Nat : NextOp(p, k)
  <2>1. CanonInv(p)
    BY <1>6, <1>27, <1>30 DEF ProcInv
  <2> QED
    BY <1>7, <1>8, <2>1, NextOpFacts
<1>31. ASSUME sound', q.user = 1 PROVE CanonInv(q)
  <2>1. PICK k \in Nat : CanonInv(p) /\ NextOp(p, k)
    BY <1>19, <1>30, <1>31
  <2>2. /\ g = Canon[k + 1].seg /\ Follows(p.mFreeList, p.mAllocTimes, Canon[k + 1]) /\ p.late = << >>
    BY <1>8, <1>13, <2>1 DEF CanonInv, NextOp
  <2>3. Follows(q.mFreeList, q.mAllocTimes, Canon[k + 1])
    BY <1>12, <1>19, <2>2 DEF AfterTemp
  <2>4. q.at = {Entry(j) : j \in 1 .. k + 1}
    BY <1>9, <1>16, <1>18, <2>1, <2>2 DEF NextOp
  <2>5. /\ Position(q) = k + 1
        /\ \A i \in 1 .. Len(q.todo) : q.todo[i] = Order[(k + 1) + i]
    <3>1. q.todo = Tail(p.todo) /\ q.loaded = p.loaded
      BY <1>16, <1>18, <1>19
    <3>2. \A x : x.todo = Tail(p.todo) /\ x.loaded = p.loaded =>
             /\ Position(x) = k + 1
             /\ \A i \in 1 .. Len(x.todo) : x.todo[i] = Order[(k + 1) + i]
      BY <2>1 DEF NextOp
    <3> QED
      BY <3>1, <3>2, Zenon
  <2> QED
    BY <1>8, <1>18, <1>19, <2>2, <2>3, <2>4, <2>5 DEF CanonInv
<1>32. ProcInv(q, e, sync, sound')
  BY <1>18, <1>22, <1>23, <1>26, <1>28, <1>29, <1>31 DEF ProcInv
<1>33. ASSUME sound', sync PROVE MarkInv(layout, e, resumed)
  <2>1. MarkInv(layout, d, resumed) /\ p.user = 1
    <3>1. p.user # 0
      BY <1>7, <1>27, <1>33 DEF BeliefInv
    <3>2. MarkInv(layout, d, resumed)
      BY <1>4, <1>27, <1>33 DEF IInv
    <3> QED
      BY <1>8, <3>1, <3>2
  <2>2. PICK k \in Nat : CanonInv(p) /\ NextOp(p, k)
    BY <1>30, <1>33, <2>1
  <2>3. /\ g = Canon[k + 1].seg /\ p.at = {Entry(j) : j \in 1 .. k} /\ op = Order[k + 1]
        /\ k + 1 \in 1 .. Len(Order)
    BY <1>8, <1>9, <1>13, <2>2 DEF CanonInv, NextOp
  <2>4. ~op.skips
    <3>1. p.useCachedMmap = 3 /\ ~Skips(p, op)
      BY <1>7, <1>8, <1>9, <1>33, <2>1 DEF BeliefInv
    <3> QED
      BY <3>1 DEF Skips
  <2>5. Entry(k + 1).op = op /\ Entry(k + 1).seg = g /\ Entry(k + 1) \in layout
    <3>1. Entry(k + 1) \in layout
      BY <2>1, <2>3 DEF MarkInv
    <3> QED
      BY <2>3, <3>1 DEF Entry
  <2>6. ASSUME NEW x \in layout, x.op.skips PROVE Saved(x, e, resumed)
    <3>1. Saved(x, d, resumed) /\ x.seg \in Segment /\ x.op.size = x.seg.size
      BY <2>1, <2>6 DEF MarkInv
    <3>2. Apart(x.seg, g)
      <4>1. x # Entry(k + 1)
        BY <2>4, <2>5, <2>6
      <4> QED
        BY <2>1, <2>5, <4>1 DEF MarkInv
    <3>3. x.seg.file \in DOMAIN d /\ Holds(d[x.seg.file].mem, x.seg, x.op)
      BY <3>1 DEF Saved
    <3>4. Holds(h[x.seg.file].mem, x.seg, x.op)
      <4>1. CASE op.temp = 0
        <5>1. h = d
          BY <1>12, <4>1 DEF AfterTemp
        <5> QED
          BY <3>3, <5>1
      <4>2. CASE op.temp # 0
        <5>1. PICK j \in 1 .. Len(Order) : x = Entry(j)
          BY <2>1, <2>6 DEF MarkInv
        <5>2. x.op = Order[j] /\ x.mem = "file"
          BY <5>1 DEF Entry
        <5>3. DOMAIN Order = 1 .. Len(Order) /\ Len(Order) \in Nat
          BY OrderFacts
        <5>4. op.temp > 0
          BY <1>9, <4>2, NetFacts DEF OpType
        <5>5. ~(k + 1 < j)
          BY <2>3, <2>4, <2>6, <5>2, <5>3, <5>4, NetAssumption
        <5>6. j # k + 1
          BY <2>3, <2>4, <2>6, <5>2
        <5>7. j \in 1 .. k
          BY <5>3, <5>5, <5>6
        <5>8. x \in p.at
          BY <2>3, <5>1, <5>7
        <5>9. x.seg \in Used(p)
          BY <1>20, <5>2, <5>8 DEF Placed, InFile
        <5> QED
          BY <1>15, <3>1, <3>3, <5>9
      <4> QED
        BY <4>1, <4>2
    <3>5. x.seg.file \in DOMAIN h /\ h[x.seg.file].dur = d[x.seg.file].dur
      BY <1>14, <3>3
    <3>6. Holds(e[x.seg.file].mem, x.seg, x.op)
      BY <1>21, <1>25, <3>1, <3>2, <3>4, <3>5, HoldsKept
    <3>7. x.seg.file \in DOMAIN e /\ e[x.seg.file].dur = d[x.seg.file].dur
      BY <1>24, <3>5
    <3> QED
      BY <3>1, <3>6, <3>7 DEF Saved
  <2> QED
    BY <2>1, <2>6 DEF MarkInv
<1>34. sound' \in BOOLEAN
  BY <1>10
<1> QED
  BY <1>3, <1>5, <1>10, <1>24, <1>32, <1>33, <1>34 DEF IInv

-----------------------------------------------------------------------------
(* What follows.                                                           *)

\* The invariant of the cache holds in every reachable state: what a marker stands for,
\* and what a process has laid out, across crashes and power losses.
THEOREM Inductive == Spec => []IInv
<1>1. Init => IInv
  BY InitStep
<1>2. IInv /\ [Next]_vars => IInv'
  <2> SUFFICES ASSUME IInv, [Next]_vars PROVE IInv'
    OBVIOUS
  <2>1. CASE \E user \in {0, 1} : Start(user)
    BY <2>1, StartStep
  <2>2. CASE \E rearrange \in BOOLEAN : Load(rearrange)
    BY <2>2, LoadStep
  <2>3. CASE AcquireWeight
    BY <2>3, AcquireWeightStep
  <2>4. CASE FillWeight
    BY <2>4, FillWeightStep
  <2>5. CASE \E then \in {"idle", "exit"} : ClearBuffer(then)
    BY <2>5, ClearBufferStep
  <2>6. CASE SyncPages
    BY <2>6, SyncPagesStep
  <2>7. CASE SyncMark
    BY <2>7, SyncMarkStep
  <2>8. CASE CreateExecutions
    BY <2>8, CreateExecutionsStep
  <2>9. CASE Exit
    BY <2>9, ExitStep
  <2>10. CASE Crash
    BY <2>10, CrashStep
  <2>11. CASE \E lost \in SUBSET DOMAIN disk, markerLost \in BOOLEAN : PowerLoss(lost, markerLost)
    BY <2>11, PowerLossStep
  <2>12. CASE UNCHANGED vars
    BY <2>12 DEF IInv, vars
  <2> QED
    BY <2>1, <2>2, <2>3, <2>4, <2>5, <2>6, <2>7, <2>8, <2>9, <2>10, <2>11, <2>12 DEF Next
<1> QED
  BY <1>1, <1>2, PTL DEF Spec

\* The units of a segment.
LEMMA CellFacts ==
    ASSUME NEW s \in Segment, NEW f, NEW c
    PROVE  <<f, c>> \in SegCells(s) <=> c \in Cells /\ Has(s, f, c)
<1>1. PICK n \in Nat : n = mmapSize
  BY NetAssumption
<1>2. s.off \in 0 .. n - 1 /\ s.size \in 1 .. n /\ s.off + s.size <= n
  BY <1>1 DEF Segment
<1>3. ASSUME <<f, c>> \in SegCells(s) PROVE c \in Cells /\ Has(s, f, c)
  <2>1. PICK i \in 1 .. s.size : <<f, c>> = <<s.file, s.off + i>>
    BY <1>3 DEF SegCells
  <2>2. f = s.file /\ c = s.off + i
    BY <2>1
  <2> QED
    BY <1>1, <1>2, <2>2 DEF Has, Cells
<1>4. ASSUME c \in Cells, Has(s, f, c) PROVE <<f, c>> \in SegCells(s)
  <2>1. PICK i : i = c - s.off
    OBVIOUS
  <2>2. i \in 1 .. s.size /\ c = s.off + i /\ f = s.file
    BY <1>1, <1>2, <1>4, <2>1 DEF Has, Cells
  <2> QED
    BY <2>2 DEF SegCells
<1> QED
  BY <1>3, <1>4

\* Segments apart share no unit.
LEMMA ApartCells ==
    ASSUME NEW s \in Segment, NEW t \in Segment, Apart(s, t)
    PROVE  SegCells(s) \intersect SegCells(t) = {}
<1> SUFFICES ASSUME NEW x \in SegCells(s), x \in SegCells(t) PROVE FALSE
  OBVIOUS
<1>1. PICK i \in 1 .. s.size : x = <<s.file, s.off + i>>
  BY DEF SegCells
<1>2. /\ Has(s, s.file, s.off + i) /\ Has(t, s.file, s.off + i) /\ s.off + i \in Cells
  BY <1>1, CellFacts
<1>3. /\ s.off \in Nat /\ s.size \in Nat /\ t.off \in Nat /\ t.size \in Nat
  BY NetFacts DEF Segment
<1>4. /\ t.file = s.file /\ t.off < s.off + i /\ s.off + i <= t.off + t.size
      /\ s.off < s.off + i /\ s.off + i <= s.off + s.size
  BY <1>2 DEF Has
<1>5. s.off + s.size <= t.off \/ t.off + t.size <= s.off
  BY <1>4 DEF Apart
<1> QED
  BY <1>3, <1>4, <1>5

\* The segments in use and the free ones tile the files.
LEMMA Tiled ==
    ASSUME NEW n \in Nat, NEW list, FreeInv(list, n), NEW U, UsedInv(U, ToSet(list), n),
           NEW all, all = U \union ToSet(list)
    PROVE  /\ \A s, t \in all : s # t => SegCells(s) \intersect SegCells(t) = {}
           /\ UNION {SegCells(s) : s \in all} = (1 .. n) \X Cells
<1>1. PICK F : F = ToSet(list)
  OBVIOUS
<1>2. F \subseteq SegmentIn(n) /\ U \subseteq SegmentIn(n) /\ SegmentIn(n) \subseteq Segment
  BY <1>1, MoreFiles DEF UsedInv, SegmentIn
<1>3. \A s, t \in F : s # t => Apart(s, t)
  <2>1. ASSUME NEW s \in F, NEW t \in F, s # t PROVE s.file # t.file
    <3>1. F = {list[i] : i \in 1 .. Len(list)}
      BY <1>1 DEF FreeInv, ToSet
    <3>2. PICK i \in 1 .. Len(list), j \in 1 .. Len(list) : s = list[i] /\ t = list[j]
      BY <3>1
    <3> QED
      BY <2>1, <3>2 DEF FreeInv
  <2> QED
    BY <2>1 DEF Apart
<1>4. \A s \in U, t \in F : Apart(s, t) /\ Apart(t, s)
  BY <1>1 DEF UsedInv, Apart
<1>5. \A s, t \in U : s # t => Apart(s, t)
  BY DEF UsedInv
<1>6. ASSUME NEW s \in all, NEW t \in all, s # t PROVE SegCells(s) \intersect SegCells(t) = {}
  <2>1. Apart(s, t) /\ s \in Segment /\ t \in Segment
    BY <1>1, <1>2, <1>3, <1>4, <1>5, <1>6
  <2> QED
    BY <2>1, ApartCells
<1>7. ASSUME NEW x \in UNION {SegCells(s) : s \in all} PROVE x \in (1 .. n) \X Cells
  <2>1. PICK s \in all : x \in SegCells(s)
    OBVIOUS
  <2>2. s \in SegmentIn(n) /\ s \in Segment
    BY <1>1, <1>2
  <2>3. PICK i \in 1 .. s.size : x = <<s.file, s.off + i>>
    BY <2>1 DEF SegCells
  <2>4. s.off + i \in Cells
    BY <2>1, <2>2, <2>3, CellFacts
  <2>5. s.file \in 1 .. n
    BY <2>2 DEF SegmentIn, Segment
  <2> QED
    BY <2>3, <2>4, <2>5
<1>8. ASSUME NEW x \in (1 .. n) \X Cells PROVE x \in UNION {SegCells(s) : s \in all}
  <2>1. PICK f \in 1 .. n, c \in Cells : x = <<f, c>>
    OBVIOUS
  <2>2. PICK s \in all : Has(s, f, c)
    BY DEF UsedInv, Has
  <2>3. s \in Segment
    BY <1>1, <1>2
  <2>4. x \in SegCells(s)
    BY <2>1, <2>2, <2>3, CellFacts
  <2> QED
    BY <2>4
<1>9. UNION {SegCells(s) : s \in all} = (1 .. n) \X Cells
  BY <1>7, <1>8
<1> QED
  BY <1>6, <1>9

\* The segments of a process tile the files it has opened, whatever the modules, the sizes
\* of the weights and of the files are: EagerBufferAllocator over MmapAllocator hands out no
\* unit twice and loses none.
THEOREM TypeCorrect == Spec => []TypeOK
<1>1. IInv => TypeOK
  <2> SUFFICES ASSUME IInv PROVE TypeOK
    OBVIOUS
  <2>1. /\ DOMAIN disk \subseteq Nat
        /\ \A f \in DOMAIN disk : DOMAIN disk[f].mem = Cells /\ DOMAIN disk[f].dur = Cells
    BY DEF IInv, DiskInv, FileType
  <2>2. ASSUME proc # Stopped
        PROVE  LET all == Used(proc) \union ToSet(proc.mFreeList)
               IN  /\ \A s, t \in all : s # t => SegCells(s) \intersect SegCells(t) = {}
                   /\ UNION {SegCells(s) : s \in all} = (1 .. proc.mAllocTimes) \X Cells
                   /\ 1 .. proc.mAllocTimes \subseteq DOMAIN disk
    <3>1. ProcInv(proc, disk, sync, sound)
      BY <2>2 DEF IInv
    <3>2. /\ FreeInv(proc.mFreeList, proc.mAllocTimes) /\ proc.mAllocTimes \in Nat
          /\ UsedInv(Used(proc), ToSet(proc.mFreeList), proc.mAllocTimes)
          /\ 1 .. proc.mAllocTimes \subseteq DOMAIN disk
      BY <3>1 DEF ProcInv, ControlInv, FilesInv
    <3>3. PICK all : all = Used(proc) \union ToSet(proc.mFreeList)
      OBVIOUS
    <3>4. /\ \A s, t \in all : s # t => SegCells(s) \intersect SegCells(t) = {}
          /\ UNION {SegCells(s) : s \in all} = (1 .. proc.mAllocTimes) \X Cells
      BY <3>2, <3>3, Tiled
    <3> QED
      BY <3>2, <3>3, <3>4
  <2>3. sync \in BOOLEAN /\ resumed \in BOOLEAN /\ sound \in BOOLEAN
    BY DEF IInv
  <2> QED
    BY <2>1, <2>2, <2>3 DEF TypeOK
<1> QED
  BY <1>1, Inductive, PTL

\* Every operator of a process reads its own weights: what it filled, or what onCreate found
\* in the cache and let it skip, after any crashes of earlier processes.
THEOREM Right == Spec => []WeightsRight
<1>1. IInv => WeightsRight
  BY DEF IInv, ProcInv, RightInv, WeightsRight
<1> QED
  BY <1>1, Inductive, PTL

\* The marker of MmapAllocator::sync stands for weights that are in the files, and that a
\* power loss does not take away unless the process that made it had only resumed.
THEOREM Complete == Spec => []MarkerMeansComplete
<1>1. IInv => MarkerMeansComplete
  BY DEF IInv, MarkInv, Saved, MarkerMeansComplete
<1> QED
  BY <1>1, Inductive, PTL

=============================================================================
