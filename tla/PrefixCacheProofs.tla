------------------------- MODULE PrefixCacheProofs -------------------------
(***************************************************************************)
(* Proofs about PrefixCache, for any models, any length of the prefix and  *)
(* any way to cut it into passes.                                          *)
(*                                                                         *)
(* The invariant is stated of a model L, a process p, the files f, the     *)
(* markers m and the contract s, so that it can be used in the middle of a *)
(* step: d is the number of layers that the running pass has done, o the   *)
(* layer whose cache is open for the new tokens, and z the one whose file  *)
(* is being expanded (0: none).                                            *)
(***************************************************************************)
EXTENDS PrefixCache, SequenceTheorems, TLAPS

FullOf(L) == {l \in DOMAIN L : L[l] = "full"}

FileRec(L) == [by : 0 .. Len(L), toks : 0 .. MaxTokens, whole : BOOLEAN]

ProcRec(L) ==
    [pc : {"ready", "update", "zeroed", "mark"}, mPrefixCacheMode : BOOLEAN, mCallIndex : Nat,
     mIsPrefixFileExist : BOOLEAN, file_flag : {"NoChange", "PendingRead", "PendingWrite"},
     layer_index : 0 .. Len(L) - 1, previous : Nat, remove : Nat,
     status : {"RUNNING", "INTERNAL_ERROR"}, mapped : [DOMAIN L -> Nat],
     len : [DOMAIN L -> Int], todo : Seq(Nat), layer : DOMAIN L, right : BOOLEAN]

Running(p) == p.status = "RUNNING"
Reading(p) == p.file_flag = "PendingRead"
Writing(p) == p.file_flag = "PendingWrite"
Bare(p) == p.previous = p.remove
Passing(p) == p.todo # << >> /\ Head(p.todo) > 0

\* The first and the second call of a prefix cache; the first one makes the files.
First(p) == p.mPrefixCacheMode /\ p.mCallIndex = 1 /\ ~p.mIsPrefixFileExist
Second(p) == p.mPrefixCacheMode /\ p.mCallIndex = 2

TypeInv(L, p) ==
    /\ p \in ProcRec(L) /\ p.remove <= p.previous /\ p.previous <= MaxTokens
    /\ \A l \in DOMAIN L : p.mapped[l] \in {0, l}

\* completePrefixWrite is still to come.
Completes(todo) == \E i \in DOMAIN todo : todo[i] = 0

\* Where the process is.
CallInv(L, p) ==
    /\ p.pc \in {"update", "zeroed"} => Passing(p) /\ p.layer \in FullOf(L)
    /\ p.pc = "zeroed" => ~Bare(p) /\ p.mapped[p.layer] # 0
    /\ p.pc = "mark" => First(p) /\ p.todo # << >> /\ Head(p.todo) = 0
    /\ p.layer # 1 => p.pc = "mark" \/ Passing(p)

\* After an error only completePrefixWrite is left of a call.
ErrorInv(p) == Running(p) \/ p.todo = << >> \/ p.todo = <<0>>

\* What file_flag tells of the call, and layer_index of the layer.
FlagInv(L, p, d, o) ==
    Running(p) =>
        /\ Reading(p) => Passing(p) /\ Second(p) /\ p.mIsPrefixFileExist
        /\ Writing(p) => Completes(p.todo) /\ First(p) /\ p.pc # "mark"
        /\ p.mPrefixCacheMode => p.mCallIndex <= 2
        /\ Second(p) => Passing(p) /\ (p.mIsPrefixFileExist => Reading(p))
        /\ p.file_flag = "NoChange" => p.layer_index = 0
        /\ (p.file_flag # "NoChange" /\ Bare(p) /\ Passing(p)) =>
               p.layer_index = (IF o = 0 THEN d ELSE o) % Len(L)

\* Tokens in the cache before the pass, those it loads included.
Base(p) == p.previous - p.remove + IF Reading(p) THEN Prefix ELSE 0

\* at[i]: the tokens before pass i. completePrefixWrite comes after the prefix.
Counts(todo, start, at) ==
    /\ todo # << >> => at[1] = start
    /\ \A i, j \in DOMAIN todo : j = i + 1 => at[j] = at[i] + todo[i]
    /\ \A i \in DOMAIN todo : at[i] + todo[i] <= MaxTokens
    /\ \A i \in DOMAIN todo : todo[i] = 0 => at[i] >= Prefix

Ahead(todo, start) == \E at \in [DOMAIN todo -> 0 .. MaxTokens] : Counts(todo, start, at)

AheadInv(p) == Running(p) => Ahead(p.todo, Base(p))

\* The length of the cache of layer l.
Due(p, l, d, o) ==
    IF l <= d THEN Base(p) + Head(p.todo) ELSE IF l = o THEN Base(p) ELSE p.previous

LenInv(L, p, s, d, o) ==
    Running(p) =>
        /\ \A l \in FullOf(L) : /\ p.len[l] <= Due(p, l, d, o)
                                /\ s => p.len[l] = Due(p, l, d, o)
        /\ \A l \in DOMAIN L \ FullOf(L) : p.len[l] \in 0 .. MaxTokens

MarkInv(L, p, m) ==
    /\ p.mIsPrefixFileExist => m = DOMAIN L
    /\ (p.mPrefixCacheMode /\ p.mCallIndex = 0 /\ ~p.mIsPrefixFileExist) => m # DOMAIN L

\* What the contract gives.
SoundInv(L, p, m, s) ==
    s => /\ (Running(p) /\ Reading(p)) => Bare(p)
         /\ (p.remove > 0 /\ ~Bare(p)) => p.previous - p.remove >= Prefix
         /\ Writing(p) => /\ Running(p) /\ m # DOMAIN L /\ (~Bare(p) => p.remove = 0)
                          /\ (FullOf(L) # DOMAIN L /\ Passing(p)) => Bare(p) /\ p.todo = <<Prefix, 0>>
         /\ p.right

\* The file of layer l holds what has been written so far.
Written(L, p, f, l, o) ==
    /\ f[l].by = l /\ (f[l].whole \/ l = o)
    /\ l \in FullOf(L) => p.mapped[l] = l /\ f[l].toks >= p.len[l]
    /\ l \notin FullOf(L) => f[l].toks = Prefix

WriteInv(L, p, f, s, d, o) ==
    (s /\ Writing(p)) =>
        \A l \in DOMAIN L : (l <= d \/ l = o \/ ~Bare(p)) => Written(L, p, f, l, o)

\* The file of layer l is that of the prefix.
Good(L, f, l, z) ==
    /\ f[l].by = l /\ (f[l].whole \/ l = z)
    /\ IF l \in FullOf(L) THEN f[l].toks >= Prefix ELSE f[l].toks = Prefix

GoodInv(L, p, f, m, s, z) ==
    s => /\ m = DOMAIN L => \A l \in DOMAIN L : Good(L, f, l, z)
         /\ p.pc = "mark" => /\ \A l \in DOMAIN L : Good(L, f, l, z)
                             /\ \A l \in DOMAIN L : l < p.layer => l \in m
         /\ (First(p) /\ ~Writing(p) /\ p.pc # "mark") => m = DOMAIN L

Core(L, p, f, m, s, d, o, z) ==
    /\ TypeInv(L, p) /\ ErrorInv(p) /\ FlagInv(L, p, d, o) /\ AheadInv(p)
    /\ LenInv(L, p, s, d, o) /\ MarkInv(L, p, m) /\ SoundInv(L, p, m, s)
    /\ WriteInv(L, p, f, s, d, o) /\ GoodInv(L, p, f, m, s, z)

DoneOf(p) == IF p.pc = "mark" THEN 0 ELSE p.layer - 1
OpenOf(p) == IF p.pc \in {"update", "zeroed"} THEN p.layer ELSE 0
ZeroedOf(p) == IF p.pc = "zeroed" THEN p.layer ELSE 0

ProcInv(L, p, f, m, s) ==
    CallInv(L, p) /\ Core(L, p, f, m, s, DoneOf(p), OpenOf(p), ZeroedOf(p))

DiskInv(L, f, m, s) ==
    /\ L \in Seq({"full", "linear"}) /\ L # << >>
    /\ f \in [DOMAIN L -> FileRec(L)] /\ m \in SUBSET DOMAIN L /\ s \in BOOLEAN

IInv ==
    /\ Layer \in Models /\ DiskInv(Layer, file, mark, sound)
    /\ (proc = Stopped /\ sound /\ mark = DOMAIN Layer) =>
           \A l \in DOMAIN Layer : Good(Layer, file, l, 0)
    /\ proc # Stopped => ProcInv(Layer, proc, file, mark, sound)

-----------------------------------------------------------------------------
(* The steps between calls.                                                *)

\* The types the invariant gives, in the form the steps use.
LEMMA ProcTypes ==
    ASSUME NEW L, NEW p, NEW f, NEW m, NEW s, DiskInv(L, f, m, s), TypeInv(L, p)
    PROVE  /\ Len(L) \in Nat \ {0} /\ DOMAIN L = 1 .. Len(L)
           /\ MaxTokens \in Nat /\ Prefix \in Nat \ {0}
           /\ p \in ProcRec(L) /\ p.layer \in 1 .. Len(L) /\ p.layer_index \in 0 .. Len(L) - 1
           /\ p.previous \in Nat /\ p.remove \in Nat /\ p.remove <= p.previous
           /\ p.previous <= MaxTokens /\ p.mCallIndex \in Nat /\ p.todo \in Seq(Nat)
           /\ p.len \in [DOMAIN L -> Int] /\ p.mapped \in [DOMAIN L -> Nat]
           /\ \A l \in DOMAIN L : p.mapped[l] \in {0, l}
           /\ p.pc \in {"ready", "update", "zeroed", "mark"}
           /\ p.file_flag \in {"NoChange", "PendingRead", "PendingWrite"}
<1>1. Len(L) \in Nat \ {0} /\ DOMAIN L = 1 .. Len(L)
  BY DEF DiskInv
<1>2. MaxTokens \in Nat /\ Prefix \in Nat \ {0}
  BY PrefixAssumption
<1>3. p \in ProcRec(L) /\ p.layer \in 1 .. Len(L) /\ p.layer_index \in 0 .. Len(L) - 1
  BY <1>1 DEF TypeInv, ProcRec
<1>4. /\ p.previous \in Nat /\ p.remove \in Nat /\ p.remove <= p.previous
      /\ p.previous <= MaxTokens /\ p.mCallIndex \in Nat /\ p.todo \in Seq(Nat)
  BY DEF TypeInv, ProcRec
<1>5. /\ p.len \in [DOMAIN L -> Int] /\ p.mapped \in [DOMAIN L -> Nat]
      /\ \A l \in DOMAIN L : p.mapped[l] \in {0, l}
  BY DEF TypeInv, ProcRec
<1>6. /\ p.pc \in {"ready", "update", "zeroed", "mark"}
      /\ p.file_flag \in {"NoChange", "PendingRead", "PendingWrite"}
  BY DEF TypeInv, ProcRec
<1> QED
  BY <1>1, <1>2, <1>3, <1>4, <1>5, <1>6

\* setPrefixCacheFile begins a prefix cache between two calls.
LEMMA SetStep ==
    ASSUME NEW L, NEW p, NEW f, NEW m, NEW s, NEW q,
           DiskInv(L, f, m, s), ProcInv(L, p, f, m, s), p.pc = "ready", p.todo = << >>,
           q = [p EXCEPT !.mPrefixCacheMode = TRUE, !.mCallIndex = 0,
                         !.mIsPrefixFileExist = (m = DOMAIN L)]
    PROVE  ProcInv(L, q, f, m, s)
<1>1. /\ q \in ProcRec(L) /\ p \in ProcRec(L)
      /\ q.pc = p.pc /\ q.mPrefixCacheMode = TRUE /\ q.mCallIndex = 0
      /\ q.mIsPrefixFileExist = (m = DOMAIN L) /\ q.file_flag = p.file_flag
      /\ q.layer_index = p.layer_index /\ q.previous = p.previous /\ q.remove = p.remove
      /\ q.status = p.status /\ q.mapped = p.mapped /\ q.len = p.len /\ q.todo = p.todo
      /\ q.layer = p.layer /\ q.right = p.right
  BY DEF ProcInv, Core, TypeInv, ProcRec
<1>2. CallInv(L, q)
  BY <1>1 DEF ProcInv, CallInv, Passing, Bare, First
<1>3. TypeInv(L, q) /\ ErrorInv(q)
  BY <1>1 DEF ProcInv, Core, TypeInv, ErrorInv, Running
<1>4. DoneOf(q) = DoneOf(p) /\ OpenOf(q) = 0 /\ OpenOf(p) = 0 /\ ZeroedOf(p) = 0 /\ ZeroedOf(q) = 0
  BY <1>1 DEF DoneOf, OpenOf, ZeroedOf
<1>5. FlagInv(L, q, DoneOf(q), 0)
  BY <1>1, <1>4 DEF ProcInv, Core, FlagInv, Running, Reading, Writing, Passing, Second, First, Bare,
                   Completes
<1>6. AheadInv(q)
  BY <1>1 DEF ProcInv, Core, AheadInv, Running, Base, Reading
<1>7. LenInv(L, q, s, DoneOf(q), 0)
  BY <1>1, <1>4 DEF ProcInv, Core, LenInv, Running, Due, Base, Reading
<1>8. MarkInv(L, q, m)
  BY <1>1 DEF MarkInv
<1>9. SoundInv(L, q, m, s)
  BY <1>1 DEF ProcInv, Core, SoundInv, Running, Reading, Writing, Bare, Passing
<1>10. WriteInv(L, q, f, s, DoneOf(q), 0)
  BY <1>1, <1>4 DEF ProcInv, Core, WriteInv, Writing, Bare, Written
<1>11. GoodInv(L, q, f, m, s, 0)
  BY <1>1, <1>4 DEF ProcInv, Core, GoodInv, Writing, First
<1> QED
  BY <1>2, <1>3, <1>4, <1>5, <1>6, <1>7, <1>8, <1>9, <1>10, <1>11 DEF ProcInv, Core

\* With no pass left, any number of tokens in the cache is right.
LEMMA AheadEmpty == \A start : Ahead(<< >>, start)
<1> TAKE start
<1>1. [i \in {} |-> 0] \in [DOMAIN << >> -> 0 .. MaxTokens]
  OBVIOUS
<1>2. Counts(<< >>, start, [i \in {} |-> 0])
  BY DEF Counts
<1> QED
  BY <1>1, <1>2 DEF Ahead

\* What is ahead after a pass, or after completePrefixWrite.
LEMMA AheadTail ==
    ASSUME NEW todo \in Seq(Nat), NEW start \in Int, todo # << >>, Ahead(todo, start)
    PROVE  /\ Ahead(Tail(todo), start + Head(todo))
           /\ start \in Nat /\ start + Head(todo) <= MaxTokens
           /\ Head(todo) = 0 => start >= Prefix
           /\ Completes(todo) /\ Head(todo) # 0 => Completes(Tail(todo))
<1>0. MaxTokens \in Nat /\ Prefix \in Nat
  BY PrefixAssumption
<1>1. PICK at \in [DOMAIN todo -> 0 .. MaxTokens] : Counts(todo, start, at)
  BY DEF Ahead
<1> DEFINE n == Len(todo)
           rest == Tail(todo)
           bt == [i \in DOMAIN rest |-> at[i + 1]]
<1>2. /\ n \in Nat \ {0} /\ DOMAIN todo = 1 .. n /\ Head(todo) = todo[1]
      /\ rest \in Seq(Nat) /\ DOMAIN rest = 1 .. n - 1 /\ Len(rest) = n - 1
      /\ \A i \in 1 .. n - 1 : rest[i] = todo[i + 1]
      /\ \A i \in 1 .. n - 1 : i + 1 \in 1 .. n
      /\ rest # << >> => 1 \in DOMAIN rest
      /\ \A i \in DOMAIN todo : todo[i] \in Nat
  OBVIOUS
<1>3. at[1] = start /\ at[1] + todo[1] <= MaxTokens /\ (todo[1] = 0 => at[1] >= Prefix)
  BY <1>1, <1>2 DEF Counts
<1>4. bt \in [DOMAIN rest -> 0 .. MaxTokens]
  BY <1>2
<1>5. Counts(rest, start + todo[1], bt)
  <2>1. rest # << >> => bt[1] = start + todo[1]
    <3> SUFFICES ASSUME rest # << >> PROVE bt[1] = start + todo[1]
      OBVIOUS
    <3>2. 1 \in 1 .. n - 1 /\ 1 \in DOMAIN todo /\ 2 \in DOMAIN todo
      BY <1>2
    <3>3. at[2] = at[1] + todo[1]
      BY <3>2, <1>1 DEF Counts
    <3>4. bt[1] = at[2]
      BY <3>2, <1>2
    <3> QED
      BY <3>3, <3>4, <1>3
  <2>2. \A i, j \in DOMAIN rest : j = i + 1 => bt[j] = bt[i] + rest[i]
    <3> TAKE i, j \in DOMAIN rest
    <3>1. i \in 1 .. n - 1 /\ j \in 1 .. n - 1
      BY <1>2
    <3>2. i + 1 \in DOMAIN todo /\ j + 1 \in DOMAIN todo
      BY <3>1, <1>2
    <3>3. j + 1 = (i + 1) + 1 => at[j + 1] = at[i + 1] + todo[i + 1]
      BY <3>2, <1>1 DEF Counts
    <3>4. bt[i] = at[i + 1] /\ bt[j] = at[j + 1] /\ rest[i] = todo[i + 1]
      BY <1>2
    <3> QED
      BY <3>3, <3>4
  <2>3. \A i \in DOMAIN rest : /\ bt[i] + rest[i] <= MaxTokens
                               /\ rest[i] = 0 => bt[i] >= Prefix
    <3> TAKE i \in DOMAIN rest
    <3>2. i + 1 \in DOMAIN todo
      BY <1>2
    <3>3. /\ at[i + 1] + todo[i + 1] <= MaxTokens
          /\ todo[i + 1] = 0 => at[i + 1] >= Prefix
      BY <3>2, <1>1 DEF Counts
    <3>4. bt[i] = at[i + 1] /\ rest[i] = todo[i + 1]
      BY <1>2
    <3> QED
      BY <3>3, <3>4
  <2> QED
    BY <2>1, <2>2, <2>3 DEF Counts
<1>6. Ahead(rest, start + todo[1])
  BY <1>4, <1>5 DEF Ahead
<1>7. start \in Nat
  BY <1>1, <1>2, <1>3
<1>8. ASSUME Completes(todo), Head(todo) # 0 PROVE Completes(rest)
  <2>1. PICK i \in DOMAIN todo : todo[i] = 0
    BY <1>8 DEF Completes
  <2>2. i # 1 /\ i - 1 \in DOMAIN rest
    BY <1>2, <1>8, <2>1
  <2>3. rest[i - 1] = 0
    BY <1>2, <2>1, <2>2
  <2> QED
    BY <2>2, <2>3 DEF Completes
<1> HIDE DEF rest
<1> QED
  BY <1>2, <1>3, <1>6, <1>7, <1>8 DEF rest

\* A process starts; it finds the files as they were left.
LEMMA StartStep ==
    ASSUME NEW L, NEW f, NEW m, NEW s, NEW q, DiskInv(L, f, m, s),
           s /\ m = DOMAIN L => \A l \in DOMAIN L : Good(L, f, l, 0),
           q = [pc |-> "ready", mPrefixCacheMode |-> FALSE, mCallIndex |-> 0,
                mIsPrefixFileExist |-> FALSE, file_flag |-> "NoChange", layer_index |-> 0,
                previous |-> 0, remove |-> 0, status |-> "RUNNING",
                mapped |-> [l \in DOMAIN L |-> 0], len |-> [l \in DOMAIN L |-> 0],
                todo |-> << >>, layer |-> 1, right |-> TRUE]
    PROVE  ProcInv(L, q, f, m, s)
<1>0. MaxTokens \in Nat /\ Len(L) \in Nat \ {0} /\ DOMAIN L = 1 .. Len(L)
  BY PrefixAssumption DEF DiskInv
<1>1. q \in ProcRec(L)
  BY <1>0 DEF ProcRec
<1>2. TypeInv(L, q) /\ ErrorInv(q) /\ CallInv(L, q) /\ MarkInv(L, q, m)
  BY <1>0, <1>1 DEF TypeInv, ErrorInv, CallInv, MarkInv, Passing, Bare, First
<1>3. FlagInv(L, q, 0, 0)
  BY DEF FlagInv, Reading, Writing, Second
<1>4. AheadInv(q)
  BY AheadEmpty DEF AheadInv
<1>5. LenInv(L, q, s, 0, 0)
  BY <1>0 DEF LenInv, Due, FullOf
<1>6. SoundInv(L, q, m, s) /\ WriteInv(L, q, f, s, 0, 0) /\ GoodInv(L, q, f, m, s, 0)
  BY DEF SoundInv, WriteInv, GoodInv, Reading, Writing, First
<1>7. DoneOf(q) = 0 /\ OpenOf(q) = 0 /\ ZeroedOf(q) = 0
  BY DEF DoneOf, OpenOf, ZeroedOf
<1> QED
  BY <1>2, <1>3, <1>4, <1>5, <1>6, <1>7 DEF ProcInv, Core

\* eraseHistory notes what the next pass has to remove.
LEMMA EraseStep ==
    ASSUME NEW L, NEW p, NEW f, NEW m, NEW s, NEW q, NEW t \in BOOLEAN, NEW keep \in 0 .. MaxTokens,
           DiskInv(L, f, m, s), ProcInv(L, p, f, m, s), p.pc = "ready", p.todo = << >>,
           keep < p.previous, t => s /\ (keep # 0 => keep >= Prefix),
           q = [p EXCEPT !.remove = p.previous - keep]
    PROVE  ProcInv(L, q, f, m, t)
<1>0. /\ MaxTokens \in Nat /\ Prefix \in Nat \ {0}
      /\ p \in ProcRec(L) /\ p.previous \in Nat /\ p.previous - keep \in Nat
  BY ProcTypes DEF ProcInv, Core
<1>1. /\ q \in ProcRec(L) /\ p \in ProcRec(L) /\ q.pc = p.pc
      /\ q.mPrefixCacheMode = p.mPrefixCacheMode /\ q.mCallIndex = p.mCallIndex
      /\ q.mIsPrefixFileExist = p.mIsPrefixFileExist /\ q.file_flag = p.file_flag
      /\ q.layer_index = p.layer_index /\ q.previous = p.previous
      /\ q.remove = p.previous - keep /\ q.status = p.status /\ q.mapped = p.mapped
      /\ q.len = p.len /\ q.todo = p.todo /\ q.layer = p.layer /\ q.right = p.right
  BY <1>0 DEF ProcRec
<1>2. CallInv(L, q) /\ q.layer = 1
  BY <1>1 DEF ProcInv, CallInv, Passing, Bare, First
<1>3. TypeInv(L, q) /\ ErrorInv(q)
  BY <1>0, <1>1 DEF ProcInv, Core, TypeInv, ErrorInv
<1>4. /\ DoneOf(q) = 0 /\ OpenOf(q) = 0 /\ ZeroedOf(q) = 0
      /\ DoneOf(p) = 0 /\ OpenOf(p) = 0 /\ ZeroedOf(p) = 0
  BY <1>1, <1>2 DEF DoneOf, OpenOf, ZeroedOf
<1>5. FlagInv(L, q, 0, 0)
  BY <1>1, <1>4 DEF ProcInv, Core, FlagInv, Running, Reading, Writing, Passing, Second, First, Bare,
                    Completes
<1>6. AheadInv(q)
  BY <1>1, AheadEmpty DEF AheadInv
<1>7. LenInv(L, q, t, 0, 0)
  BY <1>1, <1>4 DEF ProcInv, Core, LenInv, Running, Due, FullOf, DiskInv
<1>8. MarkInv(L, q, m)
  BY <1>1 DEF MarkInv, ProcInv, Core
<1>9. t => ~Writing(q) /\ ~(Running(q) /\ Reading(q)) /\ q.right
  BY <1>1, <1>4 DEF ProcInv, Core, SoundInv, FlagInv, Running, Reading, Writing, Passing, Completes
<1>12. SoundInv(L, q, m, t)
  BY <1>0, <1>1, <1>9 DEF SoundInv, Bare
<1>10. WriteInv(L, q, f, t, 0, 0)
  BY <1>9 DEF WriteInv
<1>11. GoodInv(L, q, f, m, t, 0)
  BY <1>1, <1>4 DEF ProcInv, Core, GoodInv, Writing, First
<1> QED
  BY <1>2, <1>3, <1>4, <1>5, <1>6, <1>7, <1>8, <1>10, <1>11, <1>12 DEF ProcInv, Core

\* What a forward that fails does to the process.
Failed(p, q) ==
    /\ q = [p EXCEPT !.status = "INTERNAL_ERROR", !.todo = <<0>>]

\* A pass fails at its first layer; only completePrefixWrite is left of the call.
LEMMA ErrorStep ==
    ASSUME NEW L, NEW p, NEW f, NEW m, NEW s, NEW q, NEW t \in BOOLEAN,
           DiskInv(L, f, m, s), ProcInv(L, p, f, m, s), p.pc = "ready", p.layer = 1,
           t => s /\ p.file_flag # "PendingWrite",
           Failed(p, q)
    PROVE  ProcInv(L, q, f, m, t)
<1> q = [p EXCEPT !.status = "INTERNAL_ERROR", !.todo = <<0>>]
  BY DEF Failed
<1>0. p \in ProcRec(L) /\ <<0>> \in Seq(Nat)
  BY DEF ProcInv, Core, TypeInv
<1>1. /\ q \in ProcRec(L) /\ p \in ProcRec(L) /\ q.pc = p.pc
      /\ q.mPrefixCacheMode = p.mPrefixCacheMode /\ q.mCallIndex = p.mCallIndex
      /\ q.mIsPrefixFileExist = p.mIsPrefixFileExist /\ q.file_flag = p.file_flag
      /\ q.layer_index = p.layer_index /\ q.previous = p.previous /\ q.remove = p.remove
      /\ q.status = "INTERNAL_ERROR" /\ q.mapped = p.mapped /\ q.len = p.len
      /\ q.todo = <<0>> /\ q.layer = p.layer /\ q.right = p.right
  BY <1>0 DEF ProcRec
<1>2. CallInv(L, q)
  BY <1>1 DEF CallInv
<1>3. TypeInv(L, q) /\ ErrorInv(q)
  BY <1>1 DEF ProcInv, Core, TypeInv, ErrorInv
<1>4. DoneOf(q) = 0 /\ OpenOf(q) = 0 /\ ZeroedOf(q) = 0 /\ ZeroedOf(p) = 0
  BY <1>1 DEF DoneOf, OpenOf, ZeroedOf
<1>5. FlagInv(L, q, 0, 0) /\ AheadInv(q) /\ LenInv(L, q, t, 0, 0)
  BY <1>1 DEF FlagInv, AheadInv, LenInv, Running
<1>8. MarkInv(L, q, m)
  BY <1>1 DEF MarkInv, ProcInv, Core
<1>9. SoundInv(L, q, m, t) /\ WriteInv(L, q, f, t, 0, 0)
  BY <1>1 DEF ProcInv, Core, SoundInv, WriteInv, Running, Writing, Bare
<1>11. GoodInv(L, q, f, m, t, 0)
  BY <1>1, <1>4 DEF ProcInv, Core, GoodInv, Writing, First
<1> QED
  BY <1>2, <1>3, <1>4, <1>5, <1>8, <1>9, <1>11 DEF ProcInv, Core

\* What the end of expandKVCacheInDisk does to the process and the files.
Expanded(p, f, q, g) ==
    /\ q = [p EXCEPT !.pc = "update"]
    /\ g = [f EXCEPT ![p.mapped[p.layer]].whole = TRUE]

\* The copy back at the end of expandKVCacheInDisk.
LEMMA ExpandStep ==
    ASSUME NEW L, NEW p, NEW f, NEW m, NEW s, NEW q, NEW g,
           DiskInv(L, f, m, s), ProcInv(L, p, f, m, s), p.pc = "zeroed",
           Expanded(p, f, q, g)
    PROVE  ProcInv(L, q, g, m, s) /\ DiskInv(L, g, m, s)
<1> q = [p EXCEPT !.pc = "update"]
  BY DEF Expanded
<1> g = [f EXCEPT ![p.mapped[p.layer]].whole = TRUE]
  BY DEF Expanded
<1>1. /\ q \in ProcRec(L) /\ p \in ProcRec(L) /\ q.pc = "update"
      /\ q.mPrefixCacheMode = p.mPrefixCacheMode /\ q.mCallIndex = p.mCallIndex
      /\ q.mIsPrefixFileExist = p.mIsPrefixFileExist /\ q.file_flag = p.file_flag
      /\ q.layer_index = p.layer_index /\ q.previous = p.previous /\ q.remove = p.remove
      /\ q.status = p.status /\ q.mapped = p.mapped /\ q.len = p.len /\ q.todo = p.todo
      /\ q.layer = p.layer /\ q.right = p.right
  BY DEF ProcInv, Core, TypeInv, ProcRec
<1>2. CallInv(L, q)
  BY <1>1 DEF ProcInv, CallInv, Passing
<1>3. p.layer \in DOMAIN L /\ p.mapped[p.layer] = p.layer
  BY <1>1 DEF ProcInv, Core, TypeInv, CallInv, ProcRec
<1>4. /\ g \in [DOMAIN L -> FileRec(L)] /\ f \in [DOMAIN L -> FileRec(L)]
      /\ \A l \in DOMAIN L :
            /\ g[l].by = f[l].by /\ g[l].toks = f[l].toks
            /\ g[l].whole = (IF l = p.layer THEN TRUE ELSE f[l].whole)
  BY <1>3 DEF DiskInv, FileRec
<1>5. TypeInv(L, q) /\ ErrorInv(q)
  BY <1>1 DEF ProcInv, Core, TypeInv, ErrorInv, Running
<1>6. /\ DoneOf(q) = DoneOf(p) /\ OpenOf(q) = OpenOf(p) /\ ZeroedOf(q) = 0
      /\ OpenOf(p) = p.layer /\ ZeroedOf(p) = p.layer
  BY <1>1 DEF DoneOf, OpenOf, ZeroedOf
<1>7. FlagInv(L, q, DoneOf(p), OpenOf(p)) /\ AheadInv(q)
  BY <1>1 DEF ProcInv, Core, FlagInv, AheadInv, Running, Reading, Writing, Passing, Second, First, Bare,
              Base
<1>8. LenInv(L, q, s, DoneOf(p), OpenOf(p))
  BY <1>1 DEF ProcInv, Core, LenInv, Running, Due, Base, Reading
<1>9. MarkInv(L, q, m) /\ SoundInv(L, q, m, s)
  BY <1>1 DEF MarkInv, SoundInv, ProcInv, Core, Running, Reading, Writing, Bare, Passing
<1>10. WriteInv(L, q, g, s, DoneOf(p), OpenOf(p))
  BY <1>1, <1>4 DEF ProcInv, Core, WriteInv, Writing, Bare, Written
<1>11. GoodInv(L, q, g, m, s, 0)
  <2>1. \A l \in DOMAIN L : Good(L, f, l, p.layer) => Good(L, g, l, 0)
    BY <1>4 DEF Good
  <2> QED
    BY <1>1, <1>6, <2>1 DEF ProcInv, Core, GoodInv, Writing, First
<1>12. DiskInv(L, g, m, s)
  BY <1>4 DEF DiskInv
<1> QED
  BY <1>2, <1>5, <1>6, <1>7, <1>8, <1>9, <1>10, <1>11, <1>12 DEF ProcInv, Core

\* completePrefixWrite, when it has files to complete.
LEMMA CompleteStep ==
    ASSUME NEW L, NEW p, NEW f, NEW m, NEW s, NEW q,
           DiskInv(L, f, m, s), ProcInv(L, p, f, m, s), p.pc = "ready", p.todo # << >>,
           Head(p.todo) = 0, First(p),
           q = [p EXCEPT !.pc = "mark", !.file_flag = "NoChange", !.layer_index = 0]
    PROVE  ProcInv(L, q, f, m, s)
<1>0. /\ Len(L) \in Nat \ {0} /\ DOMAIN L = 1 .. Len(L) /\ 0 \in 0 .. Len(L) - 1
      /\ Prefix \in Nat \ {0} /\ p \in ProcRec(L) /\ p.previous \in Nat /\ p.remove \in Nat
      /\ p.todo \in Seq(Nat) /\ p.len \in [DOMAIN L -> Int] /\ TypeInv(L, p)
  BY ProcTypes DEF ProcInv, Core
<1>1. /\ q \in ProcRec(L) /\ p \in ProcRec(L) /\ q.pc = "mark"
      /\ q.mPrefixCacheMode = p.mPrefixCacheMode /\ q.mCallIndex = p.mCallIndex
      /\ q.mIsPrefixFileExist = p.mIsPrefixFileExist /\ q.file_flag = "NoChange"
      /\ q.layer_index = 0 /\ q.previous = p.previous /\ q.remove = p.remove
      /\ q.status = p.status /\ q.mapped = p.mapped /\ q.len = p.len /\ q.todo = p.todo
      /\ q.layer = p.layer /\ q.right = p.right
  BY <1>0 DEF ProcRec
<1>2. p.layer = 1 /\ CallInv(L, q)
  BY <1>1 DEF ProcInv, CallInv, Passing, First
<1>3. TypeInv(L, q) /\ ErrorInv(q)
  BY <1>0, <1>1 DEF ProcInv, Core, TypeInv, ErrorInv, Running
<1>4. /\ DoneOf(q) = 0 /\ OpenOf(q) = 0 /\ ZeroedOf(q) = 0
      /\ DoneOf(p) = 0 /\ OpenOf(p) = 0 /\ ZeroedOf(p) = 0
  BY <1>1, <1>2 DEF DoneOf, OpenOf, ZeroedOf
<1>5. FlagInv(L, q, 0, 0)
  BY <1>1 DEF FlagInv, Running, Reading, Writing, Second, First
<1>6. Running(p) => ~Reading(p)
  BY DEF ProcInv, Core, FlagInv, First, Second
<1>7. AheadInv(q) /\ LenInv(L, q, s, 0, 0)
  BY <1>1, <1>4, <1>6 DEF ProcInv, Core, AheadInv, LenInv, Running, Base, Due, Reading
<1>8. MarkInv(L, q, m) /\ SoundInv(L, q, m, s) /\ WriteInv(L, q, f, s, 0, 0)
  BY <1>1 DEF ProcInv, Core, MarkInv, SoundInv, WriteInv, Running, Reading, Writing, Bare
\* The files are complete: all of the prefix has gone through them.
<1>9. ASSUME s, Writing(p) PROVE \A l \in DOMAIN L : Good(L, f, l, 0)
  <2>1. Running(p) /\ Ahead(p.todo, Base(p))
    BY <1>9 DEF ProcInv, Core, SoundInv, AheadInv
  <2>2. Base(p) = p.previous - p.remove /\ Base(p) \in Int
    BY <1>0, <1>6, <2>1 DEF Base
  <2>3. p.previous - p.remove >= Prefix
    BY <1>0, <2>1, <2>2, AheadTail
  <2>4. ~Bare(p)
    BY <1>0, <2>3 DEF Bare
  <2>5. \A l \in DOMAIN L : Written(L, p, f, l, 0)
    BY <1>4, <1>9, <2>4 DEF ProcInv, Core, WriteInv
  <2>6. \A l \in FullOf(L) : p.len[l] = p.previous
    BY <1>0, <1>4, <1>9, <2>1 DEF ProcInv, Core, LenInv, Due, FullOf
  <2>7. p.previous >= Prefix
    BY <1>0, <2>3
  <2>8. TAKE l \in DOMAIN L
  <2>9. f[l].by = l /\ (f[l].whole \/ l = 0)
    BY <2>5 DEF Written
  <2>10. CASE l \in FullOf(L)
    <3>1. f[l].toks >= p.previous
      BY <2>5, <2>6, <2>10 DEF Written
    <3>2. f[l].toks \in Nat
      BY DEF DiskInv, FileRec
    <3> QED
      BY <1>0, <2>7, <2>9, <2>10, <3>1, <3>2 DEF Good
  <2>11. CASE l \notin FullOf(L)
    BY <2>5, <2>9, <2>11 DEF Written, Good
  <2> QED
    BY <2>10, <2>11
<1>10. ASSUME s PROVE \A l \in DOMAIN L : Good(L, f, l, 0)
  BY <1>4, <1>9, <1>10 DEF ProcInv, Core, GoodInv
<1>11. GoodInv(L, q, f, m, s, 0)
  BY <1>0, <1>1, <1>2, <1>10 DEF GoodInv
<1> QED
  BY <1>2, <1>3, <1>4, <1>5, <1>7, <1>8, <1>11 DEF ProcInv, Core

\* completePrefixWrite, when it has nothing to do.
LEMMA SkipStep ==
    ASSUME NEW L, NEW p, NEW f, NEW m, NEW s, NEW q,
           DiskInv(L, f, m, s), ProcInv(L, p, f, m, s), p.pc = "ready", p.todo # << >>,
           Head(p.todo) = 0, ~First(p), q = [p EXCEPT !.todo = Tail(p.todo)]
    PROVE  ProcInv(L, q, f, m, s)
<1>0. /\ p \in ProcRec(L) /\ p.previous \in Nat /\ p.remove \in Nat /\ Prefix \in Nat
      /\ p.todo \in Seq(Nat) /\ TypeInv(L, p)
      /\ p.file_flag \in {"NoChange", "PendingRead", "PendingWrite"}
  BY ProcTypes DEF ProcInv, Core
<1>00. Tail(p.todo) \in Seq(Nat)
  BY <1>0
<1>1. /\ q \in ProcRec(L) /\ p \in ProcRec(L) /\ q.pc = p.pc
      /\ q.mPrefixCacheMode = p.mPrefixCacheMode /\ q.mCallIndex = p.mCallIndex
      /\ q.mIsPrefixFileExist = p.mIsPrefixFileExist /\ q.file_flag = p.file_flag
      /\ q.layer_index = p.layer_index /\ q.previous = p.previous /\ q.remove = p.remove
      /\ q.status = p.status /\ q.mapped = p.mapped /\ q.len = p.len
      /\ q.todo = Tail(p.todo) /\ q.layer = p.layer /\ q.right = p.right
  BY <1>0, <1>00 DEF ProcRec
<1>2. p.layer = 1 /\ CallInv(L, q)
  BY <1>1 DEF ProcInv, CallInv, Passing, First
<1>3. TypeInv(L, q)
  BY <1>0, <1>1 DEF TypeInv
<1>4. /\ DoneOf(q) = 0 /\ OpenOf(q) = 0 /\ ZeroedOf(q) = 0
      /\ DoneOf(p) = 0 /\ OpenOf(p) = 0 /\ ZeroedOf(p) = 0
  BY <1>1, <1>2 DEF DoneOf, OpenOf, ZeroedOf
<1>5. Running(p) => /\ ~Reading(p) /\ ~Writing(p) /\ ~Second(p)
                    /\ p.file_flag = "NoChange" /\ p.layer_index = 0
  BY <1>0 DEF ProcInv, Core, FlagInv, Passing, Reading, Writing
<1>6. FlagInv(L, q, 0, 0)
  BY <1>1, <1>4, <1>5 DEF ProcInv, Core, FlagInv, Running, Reading, Writing, Second
<1>12. Tail(<<0>>) = << >>
  OBVIOUS
<1>13. ErrorInv(q)
  BY <1>1, <1>12 DEF ProcInv, Core, ErrorInv, Running
<1>7. AheadInv(q)
  <2> SUFFICES ASSUME Running(p) PROVE Ahead(Tail(p.todo), Base(p))
    BY <1>1, <1>5 DEF AheadInv, Running, Base, Reading
  <2>2. Ahead(p.todo, Base(p)) /\ Base(p) \in Int
    BY <1>0 DEF ProcInv, Core, AheadInv, Base
  <2>3. Ahead(Tail(p.todo), Base(p) + 0)
    BY <1>0, <2>2, AheadTail
  <2> QED
    BY <2>2, <2>3
<1>8. LenInv(L, q, s, 0, 0)
  BY <1>1, <1>4, <1>5 DEF ProcInv, Core, LenInv, Running, Due, FullOf, DiskInv
<1>9. s => ~Writing(p) /\ p.right
  BY <1>5 DEF ProcInv, Core, SoundInv
<1>10. MarkInv(L, q, m) /\ SoundInv(L, q, m, s) /\ WriteInv(L, q, f, s, 0, 0)
  BY <1>1, <1>5, <1>9 DEF ProcInv, Core, MarkInv, SoundInv, WriteInv, Running, Reading, Writing, Bare
<1>11. GoodInv(L, q, f, m, s, 0)
  BY <1>1, <1>4 DEF ProcInv, Core, GoodInv, First
<1> QED
  BY <1>2, <1>3, <1>4, <1>6, <1>7, <1>8, <1>10, <1>11, <1>13 DEF ProcInv, Core

\* A layer gets its marker, and there is a next one.
LEMMA MarkStep ==
    ASSUME NEW L, NEW p, NEW f, NEW m, NEW s, NEW q, NEW n,
           DiskInv(L, f, m, s), ProcInv(L, p, f, m, s), p.pc = "mark", p.layer < Len(L),
           n = IF f[p.layer] = NoFile THEN m ELSE m \union {p.layer},
           q = [p EXCEPT !.layer = p.layer + 1]
    PROVE  ProcInv(L, q, f, n, s)
<1>0. /\ Len(L) \in Nat \ {0} /\ DOMAIN L = 1 .. Len(L) /\ p \in ProcRec(L)
      /\ p.layer \in 1 .. Len(L) /\ p.layer + 1 \in DOMAIN L /\ TypeInv(L, p)
  BY ProcTypes DEF ProcInv, Core
<1>1. /\ q \in ProcRec(L) /\ p \in ProcRec(L) /\ q.pc = p.pc
      /\ q.mPrefixCacheMode = p.mPrefixCacheMode /\ q.mCallIndex = p.mCallIndex
      /\ q.mIsPrefixFileExist = p.mIsPrefixFileExist /\ q.file_flag = p.file_flag
      /\ q.layer_index = p.layer_index /\ q.previous = p.previous /\ q.remove = p.remove
      /\ q.status = p.status /\ q.mapped = p.mapped /\ q.len = p.len /\ q.todo = p.todo
      /\ q.layer = p.layer + 1 /\ q.right = p.right
  BY <1>0 DEF ProcRec
<1>2. CallInv(L, q) /\ First(p)
  BY <1>1 DEF ProcInv, CallInv, First
<1>3. TypeInv(L, q) /\ ErrorInv(q)
  BY <1>0, <1>1 DEF ProcInv, Core, TypeInv, ErrorInv, Running
<1>4. /\ DoneOf(q) = 0 /\ OpenOf(q) = 0 /\ ZeroedOf(q) = 0
      /\ DoneOf(p) = 0 /\ OpenOf(p) = 0 /\ ZeroedOf(p) = 0
  BY <1>1 DEF DoneOf, OpenOf, ZeroedOf
<1>5. FlagInv(L, q, 0, 0)
  BY <1>1, <1>4 DEF ProcInv, Core, FlagInv, Running, Reading, Writing, Second, First, Passing, Bare
<1>6. AheadInv(q) /\ LenInv(L, q, s, 0, 0)
  BY <1>1, <1>4 DEF ProcInv, Core, AheadInv, LenInv, Running, Base, Due, Reading
<1>7. s => ~Writing(p) /\ p.right
  BY DEF ProcInv, Core, SoundInv, FlagInv
<1>8. MarkInv(L, q, n) /\ SoundInv(L, q, n, s) /\ WriteInv(L, q, f, s, 0, 0)
  BY <1>1, <1>2, <1>7 DEF ProcInv, Core, MarkInv, SoundInv, WriteInv, First, Running, Reading, Writing,
                          Bare
<1>9. ASSUME s PROVE n = m \union {p.layer} /\ \A l \in DOMAIN L : Good(L, f, l, 0)
  <2>1. \A l \in DOMAIN L : Good(L, f, l, 0)
    BY <1>4, <1>9 DEF ProcInv, Core, GoodInv
  <2>2. f[p.layer].by = p.layer
    BY <1>0, <2>1 DEF Good
  <2>3. NoFile.by = 0
    BY DEF NoFile, Content
  <2> QED
    BY <1>0, <2>1, <2>2, <2>3
<1>10. s => \A l \in DOMAIN L : l < p.layer + 1 => l \in n
  <2> SUFFICES ASSUME s, NEW l \in DOMAIN L, l < p.layer + 1 PROVE l \in n
    OBVIOUS
  <2>2. l < p.layer \/ l = p.layer
    BY <1>0
  <2> QED
    BY <1>4, <1>9, <2>2 DEF ProcInv, Core, GoodInv
<1>11. GoodInv(L, q, f, n, s, 0)
  BY <1>1, <1>9, <1>10 DEF GoodInv
<1> QED
  BY <1>2, <1>3, <1>4, <1>5, <1>6, <1>8, <1>11 DEF ProcInv, Core

\* The last layer gets its marker.
LEMMA MarkedStep ==
    ASSUME NEW L, NEW p, NEW f, NEW m, NEW s, NEW q, NEW n,
           DiskInv(L, f, m, s), ProcInv(L, p, f, m, s), p.pc = "mark", ~(p.layer < Len(L)),
           n = IF f[p.layer] = NoFile THEN m ELSE m \union {p.layer},
           q = [p EXCEPT !.layer = 1, !.pc = "ready", !.todo = Tail(p.todo)]
    PROVE  ProcInv(L, q, f, n, s)
<1>0. /\ Len(L) \in Nat \ {0} /\ DOMAIN L = 1 .. Len(L) /\ p \in ProcRec(L)
      /\ p.layer \in 1 .. Len(L) /\ p.layer = Len(L) /\ TypeInv(L, p) /\ 1 \in DOMAIN L
      /\ p.todo \in Seq(Nat) /\ p.previous \in Nat /\ p.remove \in Nat /\ Prefix \in Nat
      /\ p.file_flag \in {"NoChange", "PendingRead", "PendingWrite"}
  BY ProcTypes DEF ProcInv, Core
<1>00. First(p) /\ p.todo # << >> /\ Head(p.todo) = 0
  BY DEF ProcInv, CallInv
<1>01. Tail(p.todo) \in Seq(Nat)
  BY <1>0, <1>00
<1>1. /\ q \in ProcRec(L) /\ p \in ProcRec(L) /\ q.pc = "ready"
      /\ q.mPrefixCacheMode = p.mPrefixCacheMode /\ q.mCallIndex = p.mCallIndex
      /\ q.mIsPrefixFileExist = p.mIsPrefixFileExist /\ q.file_flag = p.file_flag
      /\ q.layer_index = p.layer_index /\ q.previous = p.previous /\ q.remove = p.remove
      /\ q.status = p.status /\ q.mapped = p.mapped /\ q.len = p.len
      /\ q.todo = Tail(p.todo) /\ q.layer = 1 /\ q.right = p.right
  BY <1>0, <1>01 DEF ProcRec
<1>2. CallInv(L, q)
  BY <1>1 DEF CallInv
<1>3. TypeInv(L, q)
  BY <1>0, <1>1 DEF TypeInv
<1>4. /\ DoneOf(q) = 0 /\ OpenOf(q) = 0 /\ ZeroedOf(q) = 0
      /\ DoneOf(p) = 0 /\ OpenOf(p) = 0 /\ ZeroedOf(p) = 0
  BY <1>1 DEF DoneOf, OpenOf, ZeroedOf
<1>5. Running(p) => /\ ~Reading(p) /\ ~Writing(p) /\ ~Second(p)
                    /\ p.file_flag = "NoChange" /\ p.layer_index = 0
  BY <1>0, <1>00 DEF ProcInv, Core, FlagInv, Passing, Reading, Writing
<1>6. FlagInv(L, q, 0, 0)
  BY <1>1, <1>4, <1>5 DEF ProcInv, Core, FlagInv, Running, Reading, Writing, Second
<1>12. Tail(<<0>>) = << >>
  OBVIOUS
<1>13. ErrorInv(q)
  BY <1>00, <1>1, <1>12 DEF ProcInv, Core, ErrorInv, Running
<1>7. AheadInv(q)
  <2> SUFFICES ASSUME Running(p) PROVE Ahead(Tail(p.todo), Base(p))
    BY <1>1, <1>5 DEF AheadInv, Running, Base, Reading
  <2>2. Ahead(p.todo, Base(p)) /\ Base(p) \in Int
    BY <1>0 DEF ProcInv, Core, AheadInv, Base
  <2>3. Ahead(Tail(p.todo), Base(p) + 0)
    BY <1>0, <1>00, <2>2, AheadTail
  <2> QED
    BY <2>2, <2>3
<1>8. LenInv(L, q, s, 0, 0)
  BY <1>1, <1>4, <1>5 DEF ProcInv, Core, LenInv, Running, Due, FullOf, DiskInv
<1>9. s => ~Writing(p) /\ p.right
  BY <1>5 DEF ProcInv, Core, SoundInv
<1>10. MarkInv(L, q, n) /\ SoundInv(L, q, n, s) /\ WriteInv(L, q, f, s, 0, 0)
  BY <1>00, <1>1, <1>5, <1>9 DEF ProcInv, Core, MarkInv, SoundInv, WriteInv, First, Running, Reading,
                                 Writing, Bare
<1>11. ASSUME s PROVE n = DOMAIN L /\ \A l \in DOMAIN L : Good(L, f, l, 0)
  <2>1. /\ \A l \in DOMAIN L : Good(L, f, l, 0)
        /\ \A l \in DOMAIN L : l < p.layer => l \in m
    BY <1>4, <1>11 DEF ProcInv, Core, GoodInv
  <2>2. f[p.layer].by = p.layer
    BY <1>0, <2>1 DEF Good
  <2>3. NoFile.by = 0
    BY DEF NoFile, Content
  <2>4. n = m \union {p.layer}
    BY <1>0, <2>2, <2>3
  <2>5. m \subseteq DOMAIN L
    BY DEF DiskInv
  <2>6. \A l \in DOMAIN L : l < p.layer \/ l = p.layer
    BY <1>0
  <2>7. p.layer \in DOMAIN L
    BY <1>0
  <2> QED
    BY <2>1, <2>4, <2>5, <2>6, <2>7
<1>14. GoodInv(L, q, f, n, s, 0)
  BY <1>1, <1>11 DEF GoodInv
<1> QED
  BY <1>2, <1>3, <1>4, <1>6, <1>7, <1>8, <1>10, <1>13, <1>14 DEF ProcInv, Core

-----------------------------------------------------------------------------
(* The steps of a pass.                                                    *)

\* The files are found in the order of the layers, as long as a layer that opens one
\* comes after all the others have.
LEMMA PassFacts ==
    ASSUME NEW L, NEW p, NEW f, NEW m, NEW s,
           DiskInv(L, f, m, s), ProcInv(L, p, f, m, s), p.pc = "ready", Passing(p)
    PROVE  /\ Running(p)
           /\ DoneOf(p) = p.layer - 1 /\ OpenOf(p) = 0 /\ ZeroedOf(p) = 0
           /\ p.layer_index + 1 \in DOMAIN L /\ (p.layer_index + 1) % Len(L) \in 0 .. Len(L) - 1
           /\ (p.file_flag # "NoChange" /\ Bare(p)) =>
                 p.layer_index + 1 = p.layer /\ (p.layer_index + 1) % Len(L) = p.layer % Len(L)
           /\ Reading(p) => m = DOMAIN L /\ Second(p)
           /\ (s /\ Reading(p)) => /\ Bare(p) /\ p.layer_index + 1 = p.layer
                                   /\ Good(L, f, p.layer, 0)
<1>0. /\ Len(L) \in Nat \ {0} /\ DOMAIN L = 1 .. Len(L)
      /\ p.layer \in 1 .. Len(L) /\ p.layer_index \in 0 .. Len(L) - 1
  BY ProcTypes DEF ProcInv, Core
<1>1. DoneOf(p) = p.layer - 1 /\ OpenOf(p) = 0 /\ ZeroedOf(p) = 0
  BY DEF DoneOf, OpenOf, ZeroedOf
<1>2. p.todo # <<0>>
  BY DEF Passing
<1>3. Running(p)
  BY <1>2 DEF ProcInv, Core, ErrorInv, Passing
<1>4. p.layer_index + 1 \in DOMAIN L /\ (p.layer_index + 1) % Len(L) \in 0 .. Len(L) - 1
  BY <1>0
<1>5. (p.layer - 1) % Len(L) = p.layer - 1
  BY <1>0
<1>6. (p.file_flag # "NoChange" /\ Bare(p)) => p.layer_index = p.layer - 1
  BY <1>1, <1>3, <1>5 DEF ProcInv, Core, FlagInv
<1>7. p.layer_index = p.layer - 1 => p.layer_index + 1 = p.layer
  BY <1>0
<1>8. Reading(p) => m = DOMAIN L /\ Second(p) /\ p.file_flag # "NoChange"
  BY <1>3 DEF ProcInv, Core, FlagInv, MarkInv, Reading
<1>9. (s /\ Reading(p)) => Bare(p) /\ \A l \in DOMAIN L : Good(L, f, l, 0)
  BY <1>1, <1>3, <1>8 DEF ProcInv, Core, SoundInv, GoodInv
<1>10. p.layer \in DOMAIN L
  BY <1>0
<1> QED
  BY <1>1, <1>3, <1>4, <1>6, <1>7, <1>8, <1>9, <1>10

\* A step within a pass leaves the call as it is.
SameCall(p, q) ==
    /\ q.status = p.status /\ q.file_flag = p.file_flag /\ q.todo = p.todo
    /\ q.mPrefixCacheMode = p.mPrefixCacheMode /\ q.mCallIndex = p.mCallIndex
    /\ q.mIsPrefixFileExist = p.mIsPrefixFileExist
    /\ q.previous = p.previous /\ q.remove = p.remove

IndexOf(L, q, e, n) ==
    /\ q.file_flag = "NoChange" => q.layer_index = 0
    /\ (q.file_flag # "NoChange" /\ Bare(q)) => q.layer_index = (IF n = 0 THEN e ELSE n) % Len(L)

\* file_flag goes on telling the truth while layer_index keeps step with the layers.
LEMMA FlagKept ==
    ASSUME NEW L, NEW p, NEW q, NEW d, NEW o, NEW e, NEW n, FlagInv(L, p, d, o),
           SameCall(p, q), q.pc # "mark", IndexOf(L, q, e, n)
    PROVE  FlagInv(L, q, e, n)
  BY DEF FlagInv, IndexOf, SameCall, Running, Reading, Writing, Second, First, Passing, Bare

\* onAlloc loads the prefix.
LEMMA AllocReadStep ==
    ASSUME NEW L, NEW p, NEW f, NEW m, NEW s, NEW q, NEW r \in BOOLEAN,
           DiskInv(L, f, m, s), ProcInv(L, p, f, m, s), p.pc = "ready", Passing(p),
           p.layer \in FullOf(L), Bare(p), Reading(p),
           (s /\ p.right /\ p.layer_index + 1 = p.layer /\ Good(L, f, p.layer, 0)) => r,
           q = [p EXCEPT !.layer_index = (p.layer_index + 1) % Len(L), !.mapped[p.layer] = 0,
                         !.len[p.layer] = Prefix, !.pc = "update", !.right = r]
    PROVE  ProcInv(L, q, f, m, s)
<1>0. /\ Len(L) \in Nat \ {0} /\ DOMAIN L = 1 .. Len(L) /\ p \in ProcRec(L) /\ TypeInv(L, p)
      /\ p.layer \in DOMAIN L /\ Prefix \in Nat /\ p.mapped \in [DOMAIN L -> Nat]
      /\ p.len \in [DOMAIN L -> Int] /\ p.previous \in Nat /\ p.remove = p.previous
  BY ProcTypes DEF ProcInv, Core, Bare
<1>00. /\ Running(p) /\ DoneOf(p) = p.layer - 1 /\ OpenOf(p) = 0 /\ ZeroedOf(p) = 0
       /\ (p.layer_index + 1) % Len(L) \in 0 .. Len(L) - 1
       /\ p.layer_index + 1 = p.layer /\ (p.layer_index + 1) % Len(L) = p.layer % Len(L)
       /\ s => Good(L, f, p.layer, 0)
  BY PassFacts DEF Reading
<1>a. PICK ix : ix = (p.layer_index + 1) % Len(L)
  OBVIOUS
<1>b. PICK mapped : mapped = [p.mapped EXCEPT ![p.layer] = 0]
  OBVIOUS
<1>c. PICK len : len = [p.len EXCEPT ![p.layer] = Prefix]
  OBVIOUS
<1>d. ix \in 0 .. Len(L) - 1 /\ mapped \in [DOMAIN L -> Nat] /\ len \in [DOMAIN L -> Int]
  BY <1>0, <1>00, <1>a, <1>b, <1>c
<1>e. q = [p EXCEPT !.layer_index = ix, !.mapped = mapped, !.len = len, !.pc = "update",
                    !.right = r]
  BY <1>a, <1>b, <1>c
<1>1. /\ q \in ProcRec(L) /\ p \in ProcRec(L) /\ q.pc = "update"
      /\ q.mPrefixCacheMode = p.mPrefixCacheMode /\ q.mCallIndex = p.mCallIndex
      /\ q.mIsPrefixFileExist = p.mIsPrefixFileExist /\ q.file_flag = p.file_flag
      /\ q.layer_index = ix /\ q.previous = p.previous
      /\ q.remove = p.remove /\ q.status = p.status /\ q.mapped = mapped /\ q.len = len
      /\ q.todo = p.todo /\ q.layer = p.layer /\ q.right = r
  BY <1>0, <1>d, <1>e DEF ProcRec
<1>2. CallInv(L, q)
  BY <1>1 DEF CallInv, Passing
<1>3. /\ \A l \in DOMAIN L : q.mapped[l] = (IF l = p.layer THEN 0 ELSE p.mapped[l])
      /\ \A l \in DOMAIN L : q.len[l] = (IF l = p.layer THEN Prefix ELSE p.len[l])
  BY <1>0, <1>1, <1>b, <1>c
<1>4. TypeInv(L, q) /\ ErrorInv(q)
  BY <1>0, <1>1, <1>3 DEF ProcInv, Core, TypeInv, ErrorInv, Running
<1>5. DoneOf(q) = p.layer - 1 /\ OpenOf(q) = p.layer /\ ZeroedOf(q) = 0
  BY <1>1 DEF DoneOf, OpenOf, ZeroedOf
<1>6. FlagInv(L, q, DoneOf(q), OpenOf(q))
  <2>1. FlagInv(L, p, DoneOf(p), OpenOf(p))
    BY DEF ProcInv, Core
  <2>2. SameCall(p, q) /\ q.pc # "mark" /\ p.file_flag # "NoChange" /\ p.layer # 0
    BY <1>0, <1>1 DEF SameCall, Reading
  <2>3. IndexOf(L, q, DoneOf(q), OpenOf(q))
    BY <1>00, <1>1, <1>5, <1>a, <2>2 DEF IndexOf
  <2> QED
    BY <2>1, <2>2, <2>3, FlagKept
<1>7. AheadInv(q)
  BY <1>1 DEF ProcInv, Core, AheadInv, Running, Base, Reading
<1>8. LenInv(L, q, s, p.layer - 1, p.layer)
  <2>1. Base(q) = Prefix /\ Base(p) = Prefix
    BY <1>0, <1>1 DEF Base, Reading
  <2>2. /\ \A l \in FullOf(L) : /\ p.len[l] <= Due(p, l, p.layer - 1, 0)
                                /\ s => p.len[l] = Due(p, l, p.layer - 1, 0)
        /\ \A l \in DOMAIN L \ FullOf(L) : p.len[l] \in 0 .. MaxTokens
    BY <1>00 DEF ProcInv, Core, LenInv
  <2>3. \A l \in DOMAIN L : l # p.layer => Due(q, l, p.layer - 1, p.layer) = Due(p, l, p.layer - 1, 0)
    BY <1>0, <1>1, <2>1 DEF Due
  <2>4. Due(q, p.layer, p.layer - 1, p.layer) = Prefix
    BY <1>0, <2>1 DEF Due
  <2>5. \A l \in FullOf(L) : l \in DOMAIN L
    BY DEF FullOf
  <2> QED
    BY <1>0, <1>3, <2>2, <2>3, <2>4, <2>5 DEF LenInv
<1>9. SoundInv(L, q, m, s)
  BY <1>00, <1>1 DEF ProcInv, Core, SoundInv, Running, Reading, Writing, Bare, Passing
<1>10. MarkInv(L, q, m) /\ WriteInv(L, q, f, s, p.layer - 1, p.layer)
  BY <1>1 DEF ProcInv, Core, MarkInv, WriteInv, Reading, Writing
<1>11. GoodInv(L, q, f, m, s, 0)
  BY <1>00, <1>1 DEF ProcInv, Core, GoodInv, Writing, First
<1> QED
  BY <1>2, <1>4, <1>5, <1>6, <1>7, <1>8, <1>9, <1>10, <1>11 DEF ProcInv, Core

\* What onAlloc does to the process and the files when it writes.
Wrote(L, p, f, q, g) ==
    /\ g = [f EXCEPT ![p.layer_index + 1] = Content(p.layer, 0, FALSE)]
    /\ q = [p EXCEPT !.layer_index = (p.layer_index + 1) % Len(L),
                !.mapped[p.layer] = p.layer_index + 1,
                !.len[p.layer] = 0, !.pc = "update"]

\* onAlloc opens the file of its layer for writing.
LEMMA AllocWriteStep ==
    ASSUME NEW L, NEW p, NEW f, NEW m, NEW s, NEW q, NEW g,
           DiskInv(L, f, m, s), ProcInv(L, p, f, m, s), p.pc = "ready", Passing(p),
           p.layer \in FullOf(L), Bare(p), Writing(p),
           Wrote(L, p, f, q, g)
    PROVE  ProcInv(L, q, g, m, s) /\ DiskInv(L, g, m, s)
<1> g = [f EXCEPT ![p.layer_index + 1] = Content(p.layer, 0, FALSE)]
  BY DEF Wrote
<1> q = [p EXCEPT !.layer_index = (p.layer_index + 1) % Len(L),
               !.mapped[p.layer] = p.layer_index + 1,
               !.len[p.layer] = 0, !.pc = "update"]
  BY DEF Wrote
<1>0. /\ Len(L) \in Nat \ {0} /\ DOMAIN L = 1 .. Len(L) /\ p \in ProcRec(L) /\ TypeInv(L, p)
      /\ p.layer \in DOMAIN L /\ Prefix \in Nat /\ p.mapped \in [DOMAIN L -> Nat]
      /\ p.len \in [DOMAIN L -> Int] /\ p.previous \in Nat /\ p.remove = p.previous
      /\ MaxTokens \in Nat
  BY ProcTypes DEF ProcInv, Core, Bare
<1>00. /\ Running(p) /\ DoneOf(p) = p.layer - 1 /\ OpenOf(p) = 0 /\ ZeroedOf(p) = 0
       /\ (p.layer_index + 1) % Len(L) \in 0 .. Len(L) - 1
       /\ p.layer_index + 1 = p.layer /\ (p.layer_index + 1) % Len(L) = p.layer % Len(L)
  BY PassFacts DEF Writing
<1>a. PICK ix : ix = (p.layer_index + 1) % Len(L)
  OBVIOUS
<1>b. PICK mapped : mapped = [p.mapped EXCEPT ![p.layer] = p.layer]
  OBVIOUS
<1>c. PICK len : len = [p.len EXCEPT ![p.layer] = 0]
  OBVIOUS
<1>d. ix \in 0 .. Len(L) - 1 /\ mapped \in [DOMAIN L -> Nat] /\ len \in [DOMAIN L -> Int]
  <2>1. ix \in 0 .. Len(L) - 1
    BY <1>00, <1>a
  <2>2. p.layer \in Nat /\ mapped \in [DOMAIN L -> Nat]
    BY <1>0, <1>b
  <2>3. len \in [DOMAIN L -> Int]
    BY <1>0, <1>c
  <2> QED
    BY <2>1, <2>2, <2>3
<1>e. q = [p EXCEPT !.layer_index = ix, !.mapped = mapped, !.len = len, !.pc = "update"]
  BY <1>00, <1>a, <1>b, <1>c
<1>1. /\ q \in ProcRec(L) /\ p \in ProcRec(L) /\ q.pc = "update"
      /\ q.mPrefixCacheMode = p.mPrefixCacheMode /\ q.mCallIndex = p.mCallIndex
      /\ q.mIsPrefixFileExist = p.mIsPrefixFileExist /\ q.file_flag = p.file_flag
      /\ q.layer_index = ix /\ q.previous = p.previous /\ q.remove = p.remove
      /\ q.status = p.status /\ q.mapped = mapped /\ q.len = len /\ q.todo = p.todo
      /\ q.layer = p.layer /\ q.right = p.right
  BY <1>0, <1>d, <1>e DEF ProcRec
<1>2. CallInv(L, q)
  BY <1>1 DEF CallInv, Passing
<1>3. /\ \A l \in DOMAIN L : q.mapped[l] = (IF l = p.layer THEN l ELSE p.mapped[l])
      /\ \A l \in DOMAIN L : q.len[l] = (IF l = p.layer THEN 0 ELSE p.len[l])
  BY <1>0, <1>1, <1>b, <1>c
<1>f. PICK r : r = Content(p.layer, 0, FALSE)
  OBVIOUS
<1>g. r \in FileRec(L) /\ r.by = p.layer /\ r.toks = 0
  BY <1>0, <1>f DEF Content, FileRec
<1>h. /\ g \in [DOMAIN L -> FileRec(L)]
      /\ \A l \in DOMAIN L : g[l] = (IF l = p.layer THEN r ELSE f[l])
  BY <1>0, <1>00, <1>f, <1>g DEF DiskInv
<1>4. TypeInv(L, q) /\ ErrorInv(q)
  BY <1>0, <1>1, <1>3 DEF ProcInv, Core, TypeInv, ErrorInv, Running
<1>5. DoneOf(q) = p.layer - 1 /\ OpenOf(q) = p.layer /\ ZeroedOf(q) = 0
  BY <1>1 DEF DoneOf, OpenOf, ZeroedOf
<1>6. FlagInv(L, q, DoneOf(q), OpenOf(q))
  <2>1. FlagInv(L, p, DoneOf(p), OpenOf(p))
    BY DEF ProcInv, Core
  <2>2. SameCall(p, q) /\ q.pc # "mark" /\ p.file_flag # "NoChange" /\ p.layer # 0
    BY <1>0, <1>1 DEF SameCall, Writing
  <2>3. IndexOf(L, q, DoneOf(q), OpenOf(q))
    BY <1>00, <1>1, <1>5, <1>a, <2>2 DEF IndexOf
  <2> QED
    BY <2>1, <2>2, <2>3, FlagKept
<1>7. AheadInv(q)
  BY <1>1 DEF ProcInv, Core, AheadInv, Running, Base, Reading
<1>8. LenInv(L, q, s, p.layer - 1, p.layer)
  <2>1. Base(q) = 0 /\ Base(p) = 0
    BY <1>0, <1>1 DEF Base, Reading, Writing
  <2>2. /\ \A l \in FullOf(L) : /\ p.len[l] <= Due(p, l, p.layer - 1, 0)
                                /\ s => p.len[l] = Due(p, l, p.layer - 1, 0)
        /\ \A l \in DOMAIN L \ FullOf(L) : p.len[l] \in 0 .. MaxTokens
    BY <1>00 DEF ProcInv, Core, LenInv
  <2>3. \A l \in DOMAIN L : l # p.layer => Due(q, l, p.layer - 1, p.layer) = Due(p, l, p.layer - 1, 0)
    BY <1>0, <1>1, <2>1 DEF Due
  <2>4. Due(q, p.layer, p.layer - 1, p.layer) = 0
    BY <1>0, <2>1 DEF Due
  <2>5. \A l \in FullOf(L) : l \in DOMAIN L
    BY DEF FullOf
  <2> QED
    BY <1>0, <1>3, <2>2, <2>3, <2>4, <2>5 DEF LenInv
<1>9. MarkInv(L, q, m) /\ SoundInv(L, q, m, s)
  BY <1>00, <1>1 DEF ProcInv, Core, MarkInv, SoundInv, Running, Reading, Writing, Bare, Passing
<1>10. WriteInv(L, q, g, s, p.layer - 1, p.layer)
  <2> SUFFICES ASSUME s, NEW l \in DOMAIN L, l <= p.layer - 1 \/ l = p.layer
               PROVE  Written(L, q, g, l, p.layer)
    BY <1>0, <1>1 DEF WriteInv, Bare
  <2>2. CASE l = p.layer
    <3>1. g[l].by = l /\ g[l].toks = 0 /\ q.mapped[l] = l /\ q.len[l] = 0 /\ l \in FullOf(L)
      BY <1>3, <1>g, <1>h, <2>2
    <3>2. \A a, b : a = 0 /\ b = 0 => a >= b
      OBVIOUS
    <3> QED
      BY <2>2, <3>1, <3>2, Zenon DEF Written
  <2>3. CASE l # p.layer
    <3>1. Written(L, p, f, l, 0) /\ l # 0
      BY <1>0, <1>00, <2>3 DEF ProcInv, Core, WriteInv
    <3> QED
      BY <1>3, <1>h, <2>3, <3>1 DEF Written
  <2> QED
    BY <2>2, <2>3
<1>11. GoodInv(L, q, g, m, s, 0)
  BY <1>1 DEF ProcInv, Core, GoodInv, SoundInv, Writing, First
<1>12. DiskInv(L, g, m, s)
  BY <1>h DEF DiskInv
<1> QED
  BY <1>2, <1>4, <1>5, <1>6, <1>7, <1>8, <1>9, <1>10, <1>11, <1>12 DEF ProcInv, Core

\* onAlloc starts a cache in memory.
LEMMA AllocStep ==
    ASSUME NEW L, NEW p, NEW f, NEW m, NEW s, NEW q,
           DiskInv(L, f, m, s), ProcInv(L, p, f, m, s), p.pc = "ready", Passing(p),
           p.layer \in FullOf(L), Bare(p), p.file_flag = "NoChange",
           q = [p EXCEPT !.mapped[p.layer] = 0, !.len[p.layer] = 0, !.pc = "update"]
    PROVE  ProcInv(L, q, f, m, s)
<1>0. /\ Len(L) \in Nat \ {0} /\ DOMAIN L = 1 .. Len(L) /\ p \in ProcRec(L) /\ TypeInv(L, p)
      /\ p.layer \in DOMAIN L /\ Prefix \in Nat /\ p.mapped \in [DOMAIN L -> Nat]
      /\ p.len \in [DOMAIN L -> Int] /\ p.previous \in Nat /\ p.remove = p.previous
  BY ProcTypes DEF ProcInv, Core, Bare
<1>00. Running(p) /\ DoneOf(p) = p.layer - 1 /\ OpenOf(p) = 0 /\ ZeroedOf(p) = 0
  BY PassFacts
<1>b. PICK mapped : mapped = [p.mapped EXCEPT ![p.layer] = 0]
  OBVIOUS
<1>c. PICK len : len = [p.len EXCEPT ![p.layer] = 0]
  OBVIOUS
<1>d. mapped \in [DOMAIN L -> Nat] /\ len \in [DOMAIN L -> Int]
  BY <1>0, <1>b, <1>c
<1>e. q = [p EXCEPT !.mapped = mapped, !.len = len, !.pc = "update"]
  BY <1>b, <1>c
<1>1. /\ q \in ProcRec(L) /\ p \in ProcRec(L) /\ q.pc = "update"
      /\ q.mPrefixCacheMode = p.mPrefixCacheMode /\ q.mCallIndex = p.mCallIndex
      /\ q.mIsPrefixFileExist = p.mIsPrefixFileExist /\ q.file_flag = p.file_flag
      /\ q.layer_index = p.layer_index /\ q.previous = p.previous /\ q.remove = p.remove
      /\ q.status = p.status /\ q.mapped = mapped /\ q.len = len /\ q.todo = p.todo
      /\ q.layer = p.layer /\ q.right = p.right
  BY <1>0, <1>d, <1>e DEF ProcRec
<1>2. CallInv(L, q)
  BY <1>1 DEF CallInv, Passing
<1>3. /\ \A l \in DOMAIN L : q.mapped[l] = (IF l = p.layer THEN 0 ELSE p.mapped[l])
      /\ \A l \in DOMAIN L : q.len[l] = (IF l = p.layer THEN 0 ELSE p.len[l])
  BY <1>0, <1>1, <1>b, <1>c
<1>4. TypeInv(L, q) /\ ErrorInv(q)
  BY <1>0, <1>1, <1>3 DEF ProcInv, Core, TypeInv, ErrorInv, Running
<1>5. DoneOf(q) = p.layer - 1 /\ OpenOf(q) = p.layer /\ ZeroedOf(q) = 0
  BY <1>1 DEF DoneOf, OpenOf, ZeroedOf
<1>6. FlagInv(L, q, DoneOf(q), OpenOf(q))
  <2>1. FlagInv(L, p, DoneOf(p), OpenOf(p))
    BY DEF ProcInv, Core
  <2>2. SameCall(p, q) /\ q.pc # "mark"
    BY <1>1 DEF SameCall
  <2>3. IndexOf(L, q, DoneOf(q), OpenOf(q))
    BY <1>00, <1>1, <2>1 DEF IndexOf, FlagInv
  <2> QED
    BY <2>1, <2>2, <2>3, FlagKept
<1>7. AheadInv(q)
  BY <1>1 DEF ProcInv, Core, AheadInv, Running, Base, Reading
<1>8. LenInv(L, q, s, p.layer - 1, p.layer)
  <2>1. Base(q) = 0 /\ Base(p) = 0
    BY <1>0, <1>1 DEF Base, Reading
  <2>2. /\ \A l \in FullOf(L) : /\ p.len[l] <= Due(p, l, p.layer - 1, 0)
                                /\ s => p.len[l] = Due(p, l, p.layer - 1, 0)
        /\ \A l \in DOMAIN L \ FullOf(L) : p.len[l] \in 0 .. MaxTokens
    BY <1>00 DEF ProcInv, Core, LenInv
  <2>3. \A l \in DOMAIN L : l # p.layer => Due(q, l, p.layer - 1, p.layer) = Due(p, l, p.layer - 1, 0)
    BY <1>0, <1>1, <2>1 DEF Due
  <2>4. Due(q, p.layer, p.layer - 1, p.layer) = 0
    BY <1>0, <2>1 DEF Due
  <2>5. \A l \in FullOf(L) : l \in DOMAIN L
    BY DEF FullOf
  <2> QED
    BY <1>0, <1>3, <2>2, <2>3, <2>4, <2>5 DEF LenInv
<1>9. MarkInv(L, q, m) /\ SoundInv(L, q, m, s) /\ WriteInv(L, q, f, s, p.layer - 1, p.layer)
  BY <1>00, <1>1 DEF ProcInv, Core, MarkInv, SoundInv, WriteInv, Running, Reading, Writing, Bare,
                     Passing
<1>11. GoodInv(L, q, f, m, s, 0)
  BY <1>00, <1>1 DEF ProcInv, Core, GoodInv, Writing, First
<1> QED
  BY <1>2, <1>4, <1>5, <1>6, <1>7, <1>8, <1>9, <1>11 DEF ProcInv, Core

\* What onRealloc does to the process and the files.
Reallocated(p, f, q, g, grows) ==
    /\ g = IF p.mapped[p.layer] = 0 THEN f
        ELSE [f EXCEPT ![p.mapped[p.layer]] =
                 Content(IF p.remove > 0 /\ p.len[p.layer] - p.remove < Prefix THEN 0 ELSE @.by,
                         @.toks, @.whole /\ ~grows)]
    /\ q = [p EXCEPT !.len[p.layer] = p.len[p.layer] - p.remove,
                !.pc = IF grows /\ p.mapped[p.layer] # 0 THEN "zeroed" ELSE "update"]

\* onRealloc drops what was removed.
LEMMA ReallocStep ==
    ASSUME NEW L, NEW p, NEW f, NEW m, NEW s, NEW q, NEW g, NEW grows \in BOOLEAN,
           DiskInv(L, f, m, s), ProcInv(L, p, f, m, s), p.pc = "ready", Passing(p),
           p.layer \in FullOf(L), ~Bare(p),
           Reallocated(p, f, q, g, grows)
    PROVE  ProcInv(L, q, g, m, s) /\ DiskInv(L, g, m, s)
<1> g = IF p.mapped[p.layer] = 0 THEN f
       ELSE [f EXCEPT ![p.mapped[p.layer]] =
                Content(IF p.remove > 0 /\ p.len[p.layer] - p.remove < Prefix THEN 0 ELSE @.by,
                        @.toks, @.whole /\ ~grows)]
  BY DEF Reallocated
<1> q = [p EXCEPT !.len[p.layer] = p.len[p.layer] - p.remove,
               !.pc = IF grows /\ p.mapped[p.layer] # 0 THEN "zeroed" ELSE "update"]
  BY DEF Reallocated
<1>0. /\ Len(L) \in Nat \ {0} /\ DOMAIN L = 1 .. Len(L) /\ p \in ProcRec(L) /\ TypeInv(L, p)
      /\ p.layer \in DOMAIN L /\ Prefix \in Nat /\ p.mapped[p.layer] \in {0, p.layer}
      /\ p.len \in [DOMAIN L -> Int] /\ p.previous \in Nat /\ p.remove \in Nat
      /\ p.remove <= p.previous
  BY ProcTypes DEF ProcInv, Core
<1>00. Running(p) /\ DoneOf(p) = p.layer - 1 /\ OpenOf(p) = 0 /\ ZeroedOf(p) = 0
  BY PassFacts
<1>a. PICK len : len = [p.len EXCEPT ![p.layer] = p.len[p.layer] - p.remove]
  OBVIOUS
<1>b. PICK pc : pc = IF grows /\ p.mapped[p.layer] # 0 THEN "zeroed" ELSE "update"
  OBVIOUS
<1>c. len \in [DOMAIN L -> Int] /\ pc \in {"ready", "update", "zeroed", "mark"}
  BY <1>0, <1>a, <1>b
<1>d. q = [p EXCEPT !.len = len, !.pc = pc]
  BY <1>a, <1>b
<1>1. /\ q \in ProcRec(L) /\ p \in ProcRec(L) /\ q.pc = pc
      /\ q.mPrefixCacheMode = p.mPrefixCacheMode /\ q.mCallIndex = p.mCallIndex
      /\ q.mIsPrefixFileExist = p.mIsPrefixFileExist /\ q.file_flag = p.file_flag
      /\ q.layer_index = p.layer_index /\ q.previous = p.previous /\ q.remove = p.remove
      /\ q.status = p.status /\ q.mapped = p.mapped /\ q.len = len /\ q.todo = p.todo
      /\ q.layer = p.layer /\ q.right = p.right
  BY <1>0, <1>c, <1>d DEF ProcRec
<1>2. CallInv(L, q)
  BY <1>1, <1>b DEF CallInv, Passing, Bare
<1>3. \A l \in DOMAIN L : q.len[l] = (IF l = p.layer THEN p.len[l] - p.remove ELSE p.len[l])
  BY <1>0, <1>1, <1>a
<1>4. TypeInv(L, q) /\ ErrorInv(q)
  BY <1>0, <1>1, <1>3 DEF ProcInv, Core, TypeInv, ErrorInv, Running
<1>5. /\ DoneOf(q) = p.layer - 1 /\ OpenOf(q) = p.layer
      /\ ZeroedOf(q) = (IF pc = "zeroed" THEN p.layer ELSE 0)
  BY <1>1, <1>b DEF DoneOf, OpenOf, ZeroedOf
<1>6. FlagInv(L, q, DoneOf(q), OpenOf(q))
  <2>1. FlagInv(L, p, DoneOf(p), OpenOf(p))
    BY DEF ProcInv, Core
  <2>2. SameCall(p, q) /\ q.pc # "mark"
    BY <1>1, <1>b DEF SameCall
  <2>3. IndexOf(L, q, DoneOf(q), OpenOf(q))
    BY <1>00, <1>1, <2>1 DEF IndexOf, FlagInv, Bare
  <2> QED
    BY <2>1, <2>2, <2>3, FlagKept
<1>7. AheadInv(q)
  BY <1>1 DEF ProcInv, Core, AheadInv, Running, Base, Reading
<1>8. LenInv(L, q, s, p.layer - 1, p.layer)
  <2>1. /\ Base(q) = Base(p) /\ Base(p) \in Int /\ Base(p) >= p.previous - p.remove
        /\ s => Base(p) = p.previous - p.remove
    <3>1. s => ~Reading(p)
      BY <1>00 DEF ProcInv, Core, SoundInv
    <3> QED
      BY <1>0, <1>1, <3>1 DEF Base, Reading
  <2>2. /\ \A l \in FullOf(L) : /\ p.len[l] <= Due(p, l, p.layer - 1, 0)
                                /\ s => p.len[l] = Due(p, l, p.layer - 1, 0)
        /\ \A l \in DOMAIN L \ FullOf(L) : p.len[l] \in 0 .. MaxTokens
    BY <1>00 DEF ProcInv, Core, LenInv
  <2>3. \A l \in DOMAIN L : l # p.layer => Due(q, l, p.layer - 1, p.layer) = Due(p, l, p.layer - 1, 0)
    BY <1>0, <1>1, <2>1 DEF Due
  <2>4. /\ Due(q, p.layer, p.layer - 1, p.layer) = Base(p)
        /\ Due(p, p.layer, p.layer - 1, 0) = p.previous
    BY <1>0, <2>1 DEF Due
  <2>5. \A l \in FullOf(L) : l \in DOMAIN L
    BY DEF FullOf
  <2>6. /\ p.len[p.layer] \in Int /\ p.len[p.layer] <= p.previous
        /\ s => p.len[p.layer] = p.previous
    BY <1>0, <2>2, <2>4
  <2>7. /\ q.len[p.layer] <= Due(q, p.layer, p.layer - 1, p.layer)
        /\ s => q.len[p.layer] = Due(q, p.layer, p.layer - 1, p.layer)
    BY <1>0, <1>3, <2>1, <2>4, <2>6
  <2> QED
    BY <1>3, <2>2, <2>3, <2>5, <2>7 DEF LenInv
<1>9. MarkInv(L, q, m) /\ SoundInv(L, q, m, s)
  BY <1>00, <1>1 DEF ProcInv, Core, MarkInv, SoundInv, Running, Reading, Writing, Bare, Passing
\* What is left is at least the prefix, or nothing was removed.
<1>10. s => /\ ~(p.remove > 0 /\ p.len[p.layer] - p.remove < Prefix)
            /\ Writing(p) => p.remove = 0
  <2>1. s => p.len[p.layer] = Due(p, p.layer, p.layer - 1, 0)
    BY <1>00 DEF ProcInv, Core, LenInv
  <2>2. Due(p, p.layer, p.layer - 1, 0) = p.previous
    BY <1>0 DEF Due
  <2>3. s => (p.remove > 0 => p.previous - p.remove >= Prefix) /\ (Writing(p) => p.remove = 0)
    BY DEF ProcInv, Core, SoundInv
  <2> QED
    BY <1>0, <2>1, <2>2, <2>3
<1>11. PICK r : r = Content(IF p.remove > 0 /\ p.len[p.layer] - p.remove < Prefix
                            THEN 0 ELSE f[p.layer].by,
                            f[p.layer].toks, f[p.layer].whole /\ ~grows)
  OBVIOUS
<1>12. /\ f \in [DOMAIN L -> FileRec(L)] /\ f[p.layer] \in FileRec(L)
       /\ f[p.layer].by \in 0 .. Len(L) /\ f[p.layer].toks \in 0 .. MaxTokens
       /\ f[p.layer].whole \in BOOLEAN
  BY <1>0 DEF DiskInv, FileRec
<1>13. /\ r \in FileRec(L) /\ r.toks = f[p.layer].toks
       /\ r.by = IF p.remove > 0 /\ p.len[p.layer] - p.remove < Prefix THEN 0 ELSE f[p.layer].by
       /\ r.whole = (f[p.layer].whole /\ ~grows)
  BY <1>0, <1>11, <1>12 DEF Content, FileRec
<1>14. p.mapped[p.layer] # 0 => g = [f EXCEPT ![p.layer] = r]
  BY <1>0, <1>11
<1>15. /\ g \in [DOMAIN L -> FileRec(L)]
       /\ \A l \in DOMAIN L : g[l] = (IF l = p.layer /\ p.mapped[l] # 0 THEN r ELSE f[l])
  BY <1>0, <1>12, <1>13, <1>14
<1>16. WriteInv(L, q, g, s, p.layer - 1, p.layer)
  <2> SUFFICES ASSUME s, Writing(p), NEW l \in DOMAIN L PROVE Written(L, q, g, l, p.layer)
    BY <1>1 DEF WriteInv, Writing
  <2>2. Written(L, p, f, l, 0) /\ l # 0
    BY <1>0, <1>00 DEF ProcInv, Core, WriteInv
  <2>3. CASE l = p.layer
    <3>1. f[l].by = l /\ p.mapped[l] = l /\ f[l].toks >= p.len[l] /\ p.remove = 0
      BY <1>10, <2>2, <2>3 DEF Written
    <3>2. g[l].by = l /\ g[l].toks = f[l].toks /\ q.len[l] = p.len[l] /\ q.mapped[l] = l
      BY <1>0, <1>1, <1>3, <1>10, <1>13, <1>15, <2>2, <2>3, <3>1
    <3> QED
      BY <2>3, <3>1, <3>2 DEF Written
  <2>4. CASE l # p.layer
    BY <1>1, <1>3, <1>15, <2>2, <2>4 DEF Written
  <2> QED
    BY <2>3, <2>4
<1>17. GoodInv(L, q, g, m, s, ZeroedOf(q))
  <2> SUFFICES ASSUME s, m = DOMAIN L, NEW l \in DOMAIN L PROVE Good(L, g, l, ZeroedOf(q))
    BY <1>1, <1>b DEF ProcInv, Core, GoodInv, Writing, First
  <2>2. Good(L, f, l, 0) /\ l # 0
    BY <1>0, <1>00 DEF ProcInv, Core, GoodInv
  <2>3. CASE l = p.layer /\ p.mapped[l] # 0
    <3>1. g[l].by = f[l].by /\ g[l].toks = f[l].toks /\ g[l].whole = (f[l].whole /\ ~grows)
      BY <1>10, <1>13, <1>15, <2>3
    <3>2. grows => ZeroedOf(q) = l
      BY <1>5, <1>b, <2>3
    <3> QED
      BY <2>2, <3>1, <3>2 DEF Good
  <2>4. CASE ~(l = p.layer /\ p.mapped[l] # 0)
    BY <1>15, <2>2, <2>4 DEF Good
  <2> QED
    BY <2>3, <2>4
<1>18. DiskInv(L, g, m, s)
  BY <1>15 DEF DiskInv
<1> QED
  BY <1>2, <1>4, <1>5, <1>6, <1>7, <1>8, <1>9, <1>16, <1>17, <1>18 DEF ProcInv, Core

\* The pass goes on with the next layer.
LEMMA NextLayer ==
    ASSUME NEW L, NEW p, NEW f, NEW m, NEW s, NEW q,
           DiskInv(L, f, m, s), Core(L, p, f, m, s, p.layer, 0, 0), Running(p), Passing(p),
           p.pc \in {"ready", "update"}, p.layer < Len(L),
           q = [p EXCEPT !.layer = p.layer + 1, !.pc = "ready"]
    PROVE  ProcInv(L, q, f, m, s)
<1>0. /\ Len(L) \in Nat \ {0} /\ DOMAIN L = 1 .. Len(L) /\ p \in ProcRec(L)
      /\ p.layer \in 1 .. Len(L) /\ p.layer + 1 \in DOMAIN L /\ TypeInv(L, p)
      /\ (p.layer + 1) - 1 = p.layer
  BY ProcTypes DEF Core
<1>1. /\ q \in ProcRec(L) /\ p \in ProcRec(L) /\ q.pc = "ready"
      /\ q.mPrefixCacheMode = p.mPrefixCacheMode /\ q.mCallIndex = p.mCallIndex
      /\ q.mIsPrefixFileExist = p.mIsPrefixFileExist /\ q.file_flag = p.file_flag
      /\ q.layer_index = p.layer_index /\ q.previous = p.previous /\ q.remove = p.remove
      /\ q.status = p.status /\ q.mapped = p.mapped /\ q.len = p.len /\ q.todo = p.todo
      /\ q.layer = p.layer + 1 /\ q.right = p.right
  BY <1>0 DEF ProcRec
<1>2. CallInv(L, q)
  BY <1>1 DEF CallInv, Passing
<1>3. TypeInv(L, q) /\ ErrorInv(q)
  BY <1>0, <1>1 DEF Core, TypeInv, ErrorInv, Running
<1>4. DoneOf(q) = p.layer /\ OpenOf(q) = 0 /\ ZeroedOf(q) = 0
  BY <1>0, <1>1 DEF DoneOf, OpenOf, ZeroedOf
<1>5. FlagInv(L, q, p.layer, 0)
  BY <1>1 DEF Core, FlagInv, Running, Reading, Writing, Second, First, Passing, Bare
<1>6. AheadInv(q) /\ LenInv(L, q, s, p.layer, 0)
  BY <1>1 DEF Core, AheadInv, LenInv, Running, Base, Due, Reading
<1>7. MarkInv(L, q, m) /\ SoundInv(L, q, m, s) /\ WriteInv(L, q, f, s, p.layer, 0)
  BY <1>1 DEF Core, MarkInv, SoundInv, WriteInv, Written, Running, Reading, Writing, Bare, Passing
<1>8. GoodInv(L, q, f, m, s, 0)
  BY <1>1 DEF Core, GoodInv, Writing, First
<1> QED
  BY <1>2, <1>3, <1>4, <1>5, <1>6, <1>7, <1>8 DEF ProcInv, Core

\* What the end of a pass, with all of the layers done, is about.
LEMMA PassEnd ==
    ASSUME NEW L, NEW p, NEW f, NEW m, NEW s,
           DiskInv(L, f, m, s), Core(L, p, f, m, s, p.layer, 0, 0), Running(p), Passing(p),
           p.pc \in {"ready", "update"}, p.layer = Len(L)
    PROVE  /\ Base(p) \in Nat /\ Head(p.todo) \in Nat \ {0} /\ Base(p) + Head(p.todo) <= MaxTokens
           /\ Tail(p.todo) \in Seq(Nat) /\ Ahead(Tail(p.todo), Base(p) + Head(p.todo))
           /\ Completes(p.todo) => Completes(Tail(p.todo))
           /\ \A l \in FullOf(L) : /\ p.len[l] <= Base(p) + Head(p.todo)
                                   /\ s => p.len[l] = Base(p) + Head(p.todo)
           /\ \A l \in DOMAIN L \ FullOf(L) : p.len[l] \in 0 .. MaxTokens
           /\ (s /\ Writing(p)) => \A l \in DOMAIN L : Written(L, p, f, l, 0)
<1>0. /\ Len(L) \in Nat \ {0} /\ DOMAIN L = 1 .. Len(L) /\ p.todo \in Seq(Nat) /\ p.todo # << >>
      /\ p.previous \in Nat /\ p.remove \in Nat /\ Prefix \in Nat
  BY ProcTypes DEF Core, Passing
<1>1. Head(p.todo) \in Nat \ {0} /\ Tail(p.todo) \in Seq(Nat)
  BY <1>0 DEF Passing
<1>2. Ahead(p.todo, Base(p)) /\ Base(p) \in Int
  BY <1>0 DEF Core, AheadInv, Base
<1>3. \A l \in DOMAIN L : l <= p.layer
  BY <1>0
<1>4. \A l \in FullOf(L) : Due(p, l, p.layer, 0) = Base(p) + Head(p.todo)
  BY <1>3 DEF Due, FullOf
<1>5. /\ Ahead(Tail(p.todo), Base(p) + Head(p.todo)) /\ Base(p) \in Nat
      /\ Base(p) + Head(p.todo) <= MaxTokens
      /\ Completes(p.todo) => Completes(Tail(p.todo))
  BY <1>0, <1>1, <1>2, AheadTail
<1>6. /\ \A l \in FullOf(L) : /\ p.len[l] <= Base(p) + Head(p.todo)
                              /\ s => p.len[l] = Base(p) + Head(p.todo)
      /\ \A l \in DOMAIN L \ FullOf(L) : p.len[l] \in 0 .. MaxTokens
  BY <1>4 DEF Core, LenInv
<1>7. (s /\ Writing(p)) => \A l \in DOMAIN L : Written(L, p, f, l, 0)
  BY <1>3 DEF Core, WriteInv
<1> QED
  BY <1>1, <1>5, <1>6, <1>7

\* meta.sync after the last layer.
LEMMA Synced ==
    ASSUME NEW L, NEW p, NEW f, NEW m, NEW s, NEW q,
           DiskInv(L, f, m, s), Core(L, p, f, m, s, p.layer, 0, 0), Running(p), Passing(p),
           p.pc \in {"ready", "update"}, p.layer = Len(L), ~Second(p),
           q = [p EXCEPT !.previous = p.previous - p.remove + Head(p.todo), !.remove = 0,
                         !.todo = Tail(p.todo), !.layer = 1, !.pc = "ready"]
    PROVE  ProcInv(L, q, f, m, s)
<1>0. /\ Len(L) \in Nat \ {0} /\ DOMAIN L = 1 .. Len(L) /\ p \in ProcRec(L) /\ 1 \in DOMAIN L
      /\ TypeInv(L, p) /\ p.previous \in Nat /\ p.remove \in Nat
      /\ p.file_flag \in {"NoChange", "PendingRead", "PendingWrite"}
  BY ProcTypes DEF Core
<1>a. /\ Base(p) \in Nat /\ Head(p.todo) \in Nat \ {0} /\ Base(p) + Head(p.todo) <= MaxTokens
      /\ Tail(p.todo) \in Seq(Nat) /\ Ahead(Tail(p.todo), Base(p) + Head(p.todo))
      /\ Completes(p.todo) => Completes(Tail(p.todo))
      /\ \A l \in FullOf(L) : /\ p.len[l] <= Base(p) + Head(p.todo)
                              /\ s => p.len[l] = Base(p) + Head(p.todo)
      /\ \A l \in DOMAIN L \ FullOf(L) : p.len[l] \in 0 .. MaxTokens
      /\ (s /\ Writing(p)) => \A l \in DOMAIN L : Written(L, p, f, l, 0)
  BY PassEnd
<1>b. ~Reading(p) /\ Base(p) = p.previous - p.remove
  BY <1>0 DEF Core, FlagInv, Base
<1>c. PICK n : n = p.previous - p.remove + Head(p.todo)
  OBVIOUS
<1>d. n = Base(p) + Head(p.todo) /\ n \in Nat \ {0} /\ n <= MaxTokens
  BY <1>a, <1>b, <1>c
<1>1. /\ q \in ProcRec(L) /\ p \in ProcRec(L) /\ q.pc = "ready"
      /\ q.mPrefixCacheMode = p.mPrefixCacheMode /\ q.mCallIndex = p.mCallIndex
      /\ q.mIsPrefixFileExist = p.mIsPrefixFileExist /\ q.file_flag = p.file_flag
      /\ q.layer_index = p.layer_index /\ q.previous = n /\ q.remove = 0
      /\ q.status = p.status /\ q.mapped = p.mapped /\ q.len = p.len
      /\ q.todo = Tail(p.todo) /\ q.layer = 1 /\ q.right = p.right
  BY <1>0, <1>a, <1>c, <1>d DEF ProcRec
<1>2. CallInv(L, q)
  BY <1>1 DEF CallInv
<1>3. TypeInv(L, q) /\ ErrorInv(q) /\ ~Bare(q) /\ Base(q) = n
  BY <1>0, <1>1, <1>b, <1>d DEF Core, TypeInv, ErrorInv, Running, Bare, Base, Reading
<1>4. DoneOf(q) = 0 /\ OpenOf(q) = 0 /\ ZeroedOf(q) = 0
  BY <1>1 DEF DoneOf, OpenOf, ZeroedOf
<1>5. FlagInv(L, q, 0, 0)
  BY <1>1, <1>3, <1>a, <1>b DEF Core, FlagInv, Running, Reading, Writing, Second, First
<1>6. AheadInv(q)
  BY <1>1, <1>3, <1>a, <1>d DEF AheadInv
<1>7. LenInv(L, q, s, 0, 0)
  <2>1. \A l \in FullOf(L) : Due(q, l, 0, 0) = n
    BY <1>0, <1>1 DEF Due, FullOf
  <2> QED
    BY <1>1, <1>a, <1>d, <2>1 DEF LenInv
<1>8. MarkInv(L, q, m)
  BY <1>1 DEF Core, MarkInv
<1>9. SoundInv(L, q, m, s)
  <2>1. Tail(<<Prefix, 0>>) = <<0>> /\ Head(<<0>>) = 0 /\ ~(0 > 0)
    OBVIOUS
  <2>2. s /\ Writing(p) /\ FullOf(L) # DOMAIN L => Tail(p.todo) = <<0>>
    BY <2>1 DEF Core, SoundInv
  <2>3. s /\ Writing(q) /\ FullOf(L) # DOMAIN L => ~Passing(q)
    BY <1>1, <2>1, <2>2, Zenon DEF Passing, Writing
  <2> QED
    BY <1>1, <1>b, <2>3 DEF Core, SoundInv, Running, Reading, Writing
<1>10. WriteInv(L, q, f, s, 0, 0)
  BY <1>1, <1>a DEF WriteInv, Written, Writing
<1>11. GoodInv(L, q, f, m, s, 0)
  BY <1>1 DEF Core, GoodInv, Writing, First
<1> QED
  BY <1>2, <1>3, <1>4, <1>5, <1>6, <1>7, <1>8, <1>9, <1>10, <1>11 DEF ProcInv, Core

\* The end of the second call: what was loaded counts from now on.
LEMMA LoadedEnd ==
    ASSUME NEW L, NEW p, NEW f, NEW m, NEW s, NEW q, NEW n,
           DiskInv(L, f, m, s), Core(L, p, f, m, s, p.layer, 0, 0), Running(p), Passing(p),
           p.pc \in {"ready", "update"}, p.layer = Len(L), Second(p),
           p.mIsPrefixFileExist => n = p.previous - p.remove + Head(p.todo) + Prefix,
           ~p.mIsPrefixFileExist => n = p.previous - p.remove + Head(p.todo),
           q = [p EXCEPT !.previous = n, !.remove = 0, !.todo = Tail(p.todo), !.layer = 1,
                         !.pc = "ready", !.file_flag = "NoChange", !.layer_index = 0,
                         !.mPrefixCacheMode = FALSE]
    PROVE  ProcInv(L, q, f, m, s)
<1>0. /\ Len(L) \in Nat \ {0} /\ DOMAIN L = 1 .. Len(L) /\ p \in ProcRec(L) /\ 1 \in DOMAIN L
      /\ TypeInv(L, p) /\ p.previous \in Nat /\ p.remove \in Nat /\ 0 \in 0 .. Len(L) - 1
      /\ Prefix \in Nat
  BY ProcTypes DEF Core
<1>a. /\ Base(p) \in Nat /\ Head(p.todo) \in Nat \ {0} /\ Base(p) + Head(p.todo) <= MaxTokens
      /\ Tail(p.todo) \in Seq(Nat) /\ Ahead(Tail(p.todo), Base(p) + Head(p.todo))
      /\ \A l \in FullOf(L) : /\ p.len[l] <= Base(p) + Head(p.todo)
                              /\ s => p.len[l] = Base(p) + Head(p.todo)
      /\ \A l \in DOMAIN L \ FullOf(L) : p.len[l] \in 0 .. MaxTokens
  BY PassEnd
<1>b. ~Writing(p) /\ (Reading(p) <=> p.mIsPrefixFileExist)
  BY DEF Core, FlagInv, First, Second
<1>d. n = Base(p) + Head(p.todo) /\ n \in Nat \ {0} /\ n <= MaxTokens
  <2>1. CASE p.mIsPrefixFileExist
    <3>1. n = p.previous - p.remove + Head(p.todo) + Prefix
      BY <2>1
    <3>2. Reading(p)
      BY <1>b, <2>1
    <3>3. Base(p) = p.previous - p.remove + Prefix
      BY <3>2 DEF Base
    <3>4. \A a, b, c, d \in Nat : a - b + d + c = (a - b + c) + d
      OBVIOUS
    <3>5. p.previous \in Nat /\ p.remove \in Nat /\ Prefix \in Nat /\ Head(p.todo) \in Nat
      BY <1>0, <1>a
    <3>6. p.previous - p.remove + Head(p.todo) + Prefix = (p.previous - p.remove + Prefix) + Head(p.todo)
      BY <3>4, <3>5
    <3>7. n = Base(p) + Head(p.todo)
      BY <3>1, <3>3, <3>6, Zenon
    <3> QED
      BY <1>a, <3>7
  <2>2. CASE ~p.mIsPrefixFileExist
    <3>1. n = p.previous - p.remove + Head(p.todo)
      BY <2>2
    <3>2. ~Reading(p)
      BY <1>b, <2>2
    <3>3. Base(p) = p.previous - p.remove
      BY <1>0, <3>2 DEF Base
    <3> QED
      BY <1>0, <1>a, <3>1, <3>3
  <2> QED
    BY <2>1, <2>2
<1>1. /\ q \in ProcRec(L) /\ p \in ProcRec(L) /\ q.pc = "ready"
      /\ q.mPrefixCacheMode = FALSE /\ q.mCallIndex = p.mCallIndex
      /\ q.mIsPrefixFileExist = p.mIsPrefixFileExist /\ q.file_flag = "NoChange"
      /\ q.layer_index = 0 /\ q.previous = n /\ q.remove = 0 /\ q.status = p.status
      /\ q.mapped = p.mapped /\ q.len = p.len /\ q.todo = Tail(p.todo) /\ q.layer = 1
      /\ q.right = p.right
  BY <1>0, <1>a, <1>d DEF ProcRec
<1>2. CallInv(L, q)
  BY <1>1 DEF CallInv
<1>3. TypeInv(L, q) /\ ErrorInv(q) /\ ~Bare(q) /\ Base(q) = n
  BY <1>0, <1>1, <1>d DEF Core, TypeInv, ErrorInv, Running, Bare, Base, Reading
<1>4. DoneOf(q) = 0 /\ OpenOf(q) = 0 /\ ZeroedOf(q) = 0
  BY <1>1 DEF DoneOf, OpenOf, ZeroedOf
<1>5. FlagInv(L, q, 0, 0)
  BY <1>1 DEF FlagInv, Reading, Writing, Second
<1>6. AheadInv(q)
  BY <1>1, <1>3, <1>a, <1>d DEF AheadInv
<1>7. LenInv(L, q, s, 0, 0)
  <2>1. \A l \in FullOf(L) : Due(q, l, 0, 0) = n
    BY <1>0, <1>1 DEF Due, FullOf
  <2> QED
    BY <1>1, <1>a, <1>d, <2>1 DEF LenInv
<1>8. MarkInv(L, q, m) /\ SoundInv(L, q, m, s) /\ WriteInv(L, q, f, s, 0, 0)
  BY <1>1 DEF Core, MarkInv, SoundInv, WriteInv, Reading, Writing
<1>11. GoodInv(L, q, f, m, s, 0)
  BY <1>1 DEF Core, GoodInv, First
<1> QED
  BY <1>2, <1>3, <1>4, <1>5, <1>6, <1>7, <1>8, <1>11 DEF ProcInv, Core

\* What onUpdateKV does to the process and the files, before the layer is done.
Updated(p, f, q, g, n) ==
    /\ n = p.len[p.layer] + Head(p.todo)
    /\ g = IF p.mapped[p.layer] = 0 THEN f
        ELSE [f EXCEPT ![p.mapped[p.layer]] =
                 Content(@.by, IF @.toks < n THEN n ELSE @.toks, TRUE)]
    /\ q = [p EXCEPT !.len[p.layer] = n]

\* onUpdateKV writes the new tokens of its layer.
LEMMA UpdateStep ==
    ASSUME NEW L, NEW p, NEW f, NEW m, NEW s, NEW q, NEW g, NEW n,
           DiskInv(L, f, m, s), ProcInv(L, p, f, m, s), p.pc = "update",
           Updated(p, f, q, g, n)
    PROVE  /\ Core(L, q, g, m, s, q.layer, 0, 0) /\ DiskInv(L, g, m, s)
           /\ Running(q) /\ Passing(q) /\ q.pc = "update"
           /\ q.layer = p.layer /\ q.todo = p.todo
<1> n = p.len[p.layer] + Head(p.todo)
  BY DEF Updated
<1> g = IF p.mapped[p.layer] = 0 THEN f
       ELSE [f EXCEPT ![p.mapped[p.layer]] =
                Content(@.by, IF @.toks < n THEN n ELSE @.toks, TRUE)]
  BY DEF Updated
<1> q = [p EXCEPT !.len[p.layer] = n]
  BY DEF Updated
<1>0. /\ Len(L) \in Nat \ {0} /\ DOMAIN L = 1 .. Len(L) /\ p \in ProcRec(L) /\ TypeInv(L, p)
      /\ p.layer \in DOMAIN L /\ Prefix \in Nat /\ p.mapped[p.layer] \in {0, p.layer}
      /\ p.len \in [DOMAIN L -> Int] /\ p.previous \in Nat /\ p.remove \in Nat
      /\ p.todo \in Seq(Nat) /\ MaxTokens \in Nat
  BY ProcTypes DEF ProcInv, Core
<1>00. Passing(p) /\ p.layer \in FullOf(L) /\ p.todo # << >> /\ Head(p.todo) \in Nat \ {0}
  BY <1>0 DEF ProcInv, CallInv, Passing
<1>01. p.todo # <<0>>
  BY <1>00 DEF Passing
<1>02. Running(p) /\ DoneOf(p) = p.layer - 1 /\ OpenOf(p) = p.layer /\ ZeroedOf(p) = 0
  BY <1>00, <1>01 DEF ProcInv, Core, ErrorInv, DoneOf, OpenOf, ZeroedOf
<1>a. PICK len : len = [p.len EXCEPT ![p.layer] = n]
  OBVIOUS
<1>b. n \in Int /\ len \in [DOMAIN L -> Int] /\ q = [p EXCEPT !.len = len]
  BY <1>0, <1>00, <1>a
<1>1. /\ q \in ProcRec(L) /\ p \in ProcRec(L) /\ q.pc = p.pc
      /\ q.mPrefixCacheMode = p.mPrefixCacheMode /\ q.mCallIndex = p.mCallIndex
      /\ q.mIsPrefixFileExist = p.mIsPrefixFileExist /\ q.file_flag = p.file_flag
      /\ q.layer_index = p.layer_index /\ q.previous = p.previous /\ q.remove = p.remove
      /\ q.status = p.status /\ q.mapped = p.mapped /\ q.len = len /\ q.todo = p.todo
      /\ q.layer = p.layer /\ q.right = p.right
  BY <1>0, <1>b DEF ProcRec
<1>2. \A l \in DOMAIN L : q.len[l] = (IF l = p.layer THEN n ELSE p.len[l])
  BY <1>0, <1>1, <1>a, <1>b
<1>3. TypeInv(L, q) /\ ErrorInv(q) /\ Running(q) /\ Passing(q)
  BY <1>0, <1>00, <1>02, <1>1 DEF ProcInv, Core, TypeInv, ErrorInv, Running, Passing
<1>4. Base(q) = Base(p) /\ Base(p) \in Int
  BY <1>0, <1>1 DEF Base, Reading
<1>5. FlagInv(L, q, q.layer, 0)
  <2>1. FlagInv(L, p, DoneOf(p), OpenOf(p))
    BY DEF ProcInv, Core
  <2>2. SameCall(p, q) /\ q.pc # "mark" /\ p.layer # 0
    BY <1>0, <1>1 DEF SameCall
  <2>3. IndexOf(L, q, q.layer, 0)
    BY <1>00, <1>02, <1>1, <2>1, <2>2 DEF IndexOf, FlagInv, Bare
  <2> QED
    BY <2>1, <2>2, <2>3, FlagKept
<1>6. AheadInv(q)
  BY <1>1, <1>4 DEF ProcInv, Core, AheadInv, Running
<1>7. Base(p) + Head(p.todo) <= MaxTokens
  <2>1. Ahead(p.todo, Base(p))
    BY <1>02 DEF ProcInv, Core, AheadInv
  <2> QED
    BY <1>0, <1>00, <1>4, <2>1, AheadTail
<1>8. n <= Base(p) + Head(p.todo) /\ (s => n = Base(p) + Head(p.todo)) /\ p.len[p.layer] \in Int
  <2>1. Due(p, p.layer, p.layer - 1, p.layer) = Base(p)
    BY <1>0 DEF Due
  <2>2. /\ p.len[p.layer] <= Due(p, p.layer, p.layer - 1, p.layer)
        /\ s => p.len[p.layer] = Due(p, p.layer, p.layer - 1, p.layer)
    BY <1>00, <1>02 DEF ProcInv, Core, LenInv
  <2>3. p.len[p.layer] \in Int
    BY <1>0
  <2> QED
    BY <1>00, <1>4, <2>1, <2>2, <2>3
<1>9. LenInv(L, q, s, q.layer, 0)
  <2>2. /\ \A l \in FullOf(L) : /\ p.len[l] <= Due(p, l, p.layer - 1, p.layer)
                                /\ s => p.len[l] = Due(p, l, p.layer - 1, p.layer)
        /\ \A l \in DOMAIN L \ FullOf(L) : p.len[l] \in 0 .. MaxTokens
    BY <1>02 DEF ProcInv, Core, LenInv
  <2>3. \A l \in DOMAIN L : l # p.layer => Due(q, l, q.layer, 0) = Due(p, l, p.layer - 1, p.layer)
    BY <1>0, <1>1, <1>4 DEF Due
  <2>4. Due(q, p.layer, q.layer, 0) = Base(p) + Head(p.todo)
    BY <1>0, <1>1, <1>4 DEF Due
  <2>5. \A l \in FullOf(L) : l \in DOMAIN L
    BY DEF FullOf
  <2> QED
    BY <1>00, <1>2, <1>8, <2>2, <2>3, <2>4, <2>5 DEF LenInv
<1>10. MarkInv(L, q, m) /\ SoundInv(L, q, m, s)
  BY <1>02, <1>1 DEF ProcInv, Core, MarkInv, SoundInv, Running, Reading, Writing, Bare, Passing
<1>11. PICK r : r = Content(f[p.layer].by, IF f[p.layer].toks < n THEN n ELSE f[p.layer].toks, TRUE)
  OBVIOUS
<1>12. /\ f \in [DOMAIN L -> FileRec(L)]
       /\ f[p.layer].by \in 0 .. Len(L) /\ f[p.layer].toks \in 0 .. MaxTokens
  BY <1>0 DEF DiskInv, FileRec
<1>13. /\ (IF f[p.layer].toks < n THEN n ELSE f[p.layer].toks) \in 0 .. MaxTokens
       /\ (IF f[p.layer].toks < n THEN n ELSE f[p.layer].toks) >= n
       /\ (IF f[p.layer].toks < n THEN n ELSE f[p.layer].toks) >= f[p.layer].toks
  <2>1. n \in Int /\ n <= MaxTokens
    BY <1>0, <1>00, <1>4, <1>7, <1>8, <1>b
  <2>2. \A x \in 0 .. MaxTokens, y \in Int :
            y <= MaxTokens => /\ (IF x < y THEN y ELSE x) \in 0 .. MaxTokens
                              /\ (IF x < y THEN y ELSE x) >= y /\ (IF x < y THEN y ELSE x) >= x
    BY <1>0
  <2> QED
    BY <1>12, <2>1, <2>2
<1>14. /\ r \in FileRec(L) /\ r.toks >= n /\ r.toks >= f[p.layer].toks
       /\ r.by = f[p.layer].by /\ r.whole = TRUE /\ r.toks \in Int
  BY <1>11, <1>12, <1>13 DEF Content, FileRec
<1>15. p.mapped[p.layer] # 0 => g = [f EXCEPT ![p.layer] = r]
  BY <1>0, <1>11
<1>16. /\ g \in [DOMAIN L -> FileRec(L)]
       /\ \A l \in DOMAIN L : g[l] = (IF l = p.layer /\ p.mapped[l] # 0 THEN r ELSE f[l])
  BY <1>0, <1>12, <1>14, <1>15
<1>17. WriteInv(L, q, g, s, q.layer, 0)
  <2> SUFFICES ASSUME s, Writing(p), NEW l \in DOMAIN L, l <= p.layer \/ ~Bare(p)
               PROVE  Written(L, q, g, l, 0)
    <3>1. \A l \in DOMAIN L : l # 0
      BY <1>0
    <3> QED
      BY <1>1, <3>1, Zenon DEF WriteInv, Writing, Bare
  <2>2. l <= p.layer - 1 \/ l = p.layer \/ ~Bare(p)
    BY <1>0
  <2>3. Written(L, p, f, l, p.layer)
    BY <1>02, <2>2 DEF ProcInv, Core, WriteInv
  <2>4. CASE l = p.layer
    <3>1. f[l].by = l /\ p.mapped[l] = l /\ l # 0
      BY <1>0, <1>00, <2>3, <2>4 DEF Written
    <3>2. g[l].by = l /\ g[l].toks >= q.len[l] /\ g[l].whole = TRUE /\ q.mapped[l] = l
      BY <1>1, <1>2, <1>14, <1>16, <2>4, <3>1
    <3> QED
      BY <1>00, <2>4, <3>2 DEF Written
  <2>5. CASE l # p.layer
    BY <1>1, <1>2, <1>16, <2>3, <2>5 DEF Written
  <2> QED
    BY <2>4, <2>5
<1>18. GoodInv(L, q, g, m, s, 0)
  <2> SUFFICES ASSUME s, m = DOMAIN L, NEW l \in DOMAIN L PROVE Good(L, g, l, 0)
    BY <1>1 DEF ProcInv, Core, GoodInv, Writing, First
  <2>2. Good(L, f, l, 0)
    BY <1>02 DEF ProcInv, Core, GoodInv
  <2>3. CASE l = p.layer /\ p.mapped[l] # 0
    <3>1. g[l].by = f[l].by /\ g[l].toks >= f[l].toks /\ g[l].whole = TRUE /\ g[l].toks \in Int
      BY <1>14, <1>16, <2>3
    <3>2. f[l].toks >= Prefix /\ f[l].toks \in Int /\ f[l].by = l
      BY <1>00, <1>12, <2>2, <2>3 DEF Good
    <3>3. g[l].toks >= Prefix
      <4>1. \A x, y, z \in Int : x >= y /\ y >= z => x >= z
        OBVIOUS
      <4>2. Prefix \in Int
        BY <1>0
      <4> QED
        BY <3>1, <3>2, <4>1, <4>2, Zenon
    <3> QED
      BY <1>00, <2>3, <3>1, <3>2, <3>3 DEF Good
  <2>4. CASE ~(l = p.layer /\ p.mapped[l] # 0)
    BY <1>16, <2>2, <2>4 DEF Good
  <2> QED
    BY <2>3, <2>4
<1>19. DiskInv(L, g, m, s)
  BY <1>16 DEF DiskInv
<1> QED
  BY <1>1, <1>3, <1>5, <1>6, <1>9, <1>10, <1>17, <1>18, <1>19 DEF Core

\* The minimum of two numbers.
LEMMA MinOfTwo == \A x, y \in Int : Min({x, y}) = IF x <= y THEN x ELSE y
<1> TAKE x, y \in Int
<1>1. PICK z : z = IF x <= y THEN x ELSE y
  OBVIOUS
<1>2. z \in {x, y} /\ \A w \in {x, y} : z <= w
  BY <1>1
<1>3. \A v \in {x, y} : (\A w \in {x, y} : v <= w) => v = z
  BY <1>1, <1>2
<1>4. Min({x, y}) = z
  BY <1>2, <1>3 DEF Min
<1> QED
  BY <1>1, <1>4

\* The tokens of a pass fit, and so do those in the state of a linear layer.
LEMMA PassTokens ==
    ASSUME NEW L, NEW p, NEW f, NEW m, NEW s,
           DiskInv(L, f, m, s), ProcInv(L, p, f, m, s), p.pc = "ready", Passing(p)
    PROVE  /\ p.todo # << >> /\ Head(p.todo) \in Nat \ {0} /\ Head(p.todo) <= MaxTokens
           /\ p.layer \notin FullOf(L) => p.len[p.layer] \in 0 .. MaxTokens
<1>0. /\ p.todo \in Seq(Nat) /\ MaxTokens \in Nat /\ Prefix \in Nat
      /\ p.previous \in Nat /\ p.remove \in Nat /\ DOMAIN L = 1 .. Len(L) /\ p.layer \in DOMAIN L
  BY ProcTypes DEF ProcInv, Core
<1>1. Running(p)
  BY PassFacts
<1>2. p.todo # << >> /\ Head(p.todo) \in Nat \ {0}
  BY <1>0 DEF Passing
<1>3. Ahead(p.todo, Base(p)) /\ Base(p) \in Int
  BY <1>0, <1>1 DEF ProcInv, Core, AheadInv, Base
<1>4. Base(p) \in Nat /\ Base(p) + Head(p.todo) <= MaxTokens
  BY <1>0, <1>2, <1>3, AheadTail
<1>5. Head(p.todo) <= MaxTokens
  BY <1>0, <1>2, <1>4
<1>6. p.layer \notin FullOf(L) => p.len[p.layer] \in 0 .. MaxTokens
  BY <1>0, <1>1 DEF ProcInv, Core, LenInv
<1> QED
  BY <1>2, <1>5, <1>6

\* The tokens in the state of a linear layer after a pass.
LEMMA AfterFacts ==
    ASSUME NEW add \in Nat, NEW len \in 0 .. MaxTokens, NEW before, NEW after, add <= MaxTokens,
           before \in {0, Prefix, len}, after = Min({before + add, MaxTokens})
    PROVE  after \in 0 .. MaxTokens /\ (before = 0 => after = add)
<1>0. MaxTokens \in Nat /\ Prefix \in Nat
  BY PrefixAssumption
<1>1. before \in Nat /\ before + add \in Int /\ MaxTokens \in Int
  BY <1>0
<1>2. PICK sum : sum = before + add
  OBVIOUS
<1>3. after = IF sum <= MaxTokens THEN sum ELSE MaxTokens
  BY <1>1, <1>2, MinOfTwo
<1> QED
  BY <1>0, <1>1, <1>2, <1>3

\* What a linear attention layer does to the process and the files, before it is done.
Advanced(L, p, f, s, q, g, after, ix, r) ==
    /\ after \in 0 .. MaxTokens
    /\ r \in BOOLEAN
    /\ s /\ Writing(p) /\ Bare(p) => after = Head(p.todo)
    /\ Reading(p) \/ Writing(p) => ix = (p.layer_index + 1) % Len(L)
    /\ ~Reading(p) /\ ~Writing(p) => ix = p.layer_index
    /\ (p.right /\ (Reading(p) => p.layer_index + 1 = p.layer /\ Good(L, f, p.layer, 0))) => r
    /\ Writing(p) => g = [f EXCEPT ![p.layer_index + 1] = Content(p.layer, after, TRUE)]
    /\ ~Writing(p) => g = f
    /\ q = [p EXCEPT !.len[p.layer] = after, !.layer_index = ix, !.right = r]

\* A cache that is no longer used as the code expects has less to hold.
LEMMA Unsound ==
    ASSUME NEW L, NEW p, NEW f, NEW m, NEW s, NEW t \in BOOLEAN, t => s,
           DiskInv(L, f, m, s), ProcInv(L, p, f, m, s)
    PROVE  DiskInv(L, f, m, t) /\ ProcInv(L, p, f, m, t)
<1> DEFINE d == DoneOf(p) o == OpenOf(p) z == ZeroedOf(p)
<1> HIDE DEF d, o, z
<1>1. CallInv(L, p) /\ Core(L, p, f, m, s, d, o, z)
  BY DEF ProcInv, d, o, z
<1>2. LenInv(L, p, t, d, o)
  BY <1>1 DEF Core, LenInv
<1>3. SoundInv(L, p, m, t)
  BY <1>1 DEF Core, SoundInv
<1>4. WriteInv(L, p, f, t, d, o)
  BY <1>1 DEF Core, WriteInv
<1>5. GoodInv(L, p, f, m, t, z)
  BY <1>1 DEF Core, GoodInv
<1>6. Core(L, p, f, m, t, d, o, z)
  BY <1>1, <1>2, <1>3, <1>4, <1>5 DEF Core
<1>7. DiskInv(L, f, m, t)
  BY DEF DiskInv
<1> QED
  BY <1>1, <1>6, <1>7 DEF ProcInv, d, o, z

\* A linear attention layer loads, computes and saves its state.
LEMMA LinearStep ==
    ASSUME NEW L, NEW p, NEW f, NEW m, NEW s, NEW q, NEW g, NEW after, NEW ix, NEW r,
           DiskInv(L, f, m, s), ProcInv(L, p, f, m, s), p.pc = "ready", Passing(p),
           p.layer \notin FullOf(L),
           Advanced(L, p, f, s, q, g, after, ix, r)
    PROVE  /\ Core(L, q, g, m, s, q.layer, 0, 0) /\ DiskInv(L, g, m, s)
           /\ Running(q) /\ Passing(q) /\ q.pc = "ready"
           /\ q.layer = p.layer /\ q.todo = p.todo
<1> after \in 0 .. MaxTokens
  BY DEF Advanced
<1> r \in BOOLEAN
  BY DEF Advanced
<1> s /\ Writing(p) /\ Bare(p) => after = Head(p.todo)
  BY DEF Advanced
<1> Reading(p) \/ Writing(p) => ix = (p.layer_index + 1) % Len(L)
  BY DEF Advanced
<1> ~Reading(p) /\ ~Writing(p) => ix = p.layer_index
  BY DEF Advanced
<1> (p.right /\ (Reading(p) => p.layer_index + 1 = p.layer /\ Good(L, f, p.layer, 0))) => r
  BY DEF Advanced
<1> Writing(p) => g = [f EXCEPT ![p.layer_index + 1] = Content(p.layer, after, TRUE)]
  BY DEF Advanced
<1> ~Writing(p) => g = f
  BY DEF Advanced
<1> q = [p EXCEPT !.len[p.layer] = after, !.layer_index = ix, !.right = r]
  BY DEF Advanced
<1>0. /\ Len(L) \in Nat \ {0} /\ DOMAIN L = 1 .. Len(L) /\ p \in ProcRec(L) /\ TypeInv(L, p)
      /\ p.layer \in DOMAIN L /\ Prefix \in Nat /\ p.layer_index \in 0 .. Len(L) - 1
      /\ p.len \in [DOMAIN L -> Int] /\ p.previous \in Nat /\ p.remove \in Nat
      /\ p.todo \in Seq(Nat) /\ MaxTokens \in Nat /\ p.layer # 0
      /\ p.file_flag \in {"NoChange", "PendingRead", "PendingWrite"}
  BY ProcTypes DEF ProcInv, Core
<1>00. /\ Running(p) /\ DoneOf(p) = p.layer - 1 /\ OpenOf(p) = 0 /\ ZeroedOf(p) = 0
       /\ p.layer_index + 1 \in DOMAIN L /\ (p.layer_index + 1) % Len(L) \in 0 .. Len(L) - 1
       /\ (p.file_flag # "NoChange" /\ Bare(p)) =>
             p.layer_index + 1 = p.layer /\ (p.layer_index + 1) % Len(L) = p.layer % Len(L)
       /\ (s /\ Reading(p)) => p.layer_index + 1 = p.layer /\ Good(L, f, p.layer, 0)
  BY PassFacts
<1>a. PICK len : len = [p.len EXCEPT ![p.layer] = after]
  OBVIOUS
<1>b. /\ len \in [DOMAIN L -> Int] /\ q = [p EXCEPT !.len = len, !.layer_index = ix, !.right = r]
      /\ ix \in 0 .. Len(L) - 1
  <2>1. p.layer_index \in 0 .. Len(L) - 1 /\ after \in Int
    BY <1>0 DEF ProcRec
  <2>2. ix = p.layer_index \/ ix = (p.layer_index + 1) % Len(L)
    OBVIOUS
  <2>3. ix \in 0 .. Len(L) - 1
    BY <1>00, <2>1, <2>2
  <2>4. len \in [DOMAIN L -> Int]
    BY <1>0, <1>a, <2>1
  <2>5. q = [p EXCEPT !.len = len, !.layer_index = ix, !.right = r]
    BY <1>a
  <2> QED
    BY <2>3, <2>4, <2>5
<1>1. /\ q \in ProcRec(L) /\ p \in ProcRec(L) /\ q.pc = p.pc
      /\ q.mPrefixCacheMode = p.mPrefixCacheMode /\ q.mCallIndex = p.mCallIndex
      /\ q.mIsPrefixFileExist = p.mIsPrefixFileExist /\ q.file_flag = p.file_flag
      /\ q.layer_index = ix /\ q.previous = p.previous /\ q.remove = p.remove
      /\ q.status = p.status /\ q.mapped = p.mapped /\ q.len = len /\ q.todo = p.todo
      /\ q.layer = p.layer /\ q.right = r
  BY <1>0, <1>b DEF ProcRec
<1>2. \A l \in DOMAIN L : q.len[l] = (IF l = p.layer THEN after ELSE p.len[l])
  BY <1>0, <1>1, <1>a, <1>b
<1>3. TypeInv(L, q) /\ ErrorInv(q) /\ Running(q) /\ Passing(q)
  BY <1>0, <1>00, <1>1 DEF ProcInv, Core, TypeInv, ErrorInv, Running, Passing
<1>4. Base(q) = Base(p) /\ Base(p) \in Int
  BY <1>0, <1>1 DEF Base, Reading
<1>5. FlagInv(L, q, q.layer, 0)
  <2>1. FlagInv(L, p, DoneOf(p), OpenOf(p))
    BY DEF ProcInv, Core
  <2>2. SameCall(p, q) /\ q.pc # "mark"
    BY <1>1 DEF SameCall
  <2>3. p.file_flag = "NoChange" => q.layer_index = 0
    BY <1>00, <1>1, <2>1 DEF FlagInv, Reading, Writing
  <2>4. (p.file_flag # "NoChange" /\ Bare(p)) => q.layer_index = p.layer % Len(L)
    BY <1>0, <1>00, <1>1 DEF Reading, Writing
  <2>5. IndexOf(L, q, q.layer, 0)
    BY <1>1, <2>3, <2>4 DEF IndexOf, Bare
  <2> QED
    BY <2>1, <2>2, <2>5, FlagKept
<1>6. AheadInv(q)
  BY <1>1, <1>4 DEF ProcInv, Core, AheadInv, Running
<1>9. LenInv(L, q, s, q.layer, 0)
  <2>2. /\ \A l \in FullOf(L) : /\ p.len[l] <= Due(p, l, p.layer - 1, 0)
                                /\ s => p.len[l] = Due(p, l, p.layer - 1, 0)
        /\ \A l \in DOMAIN L \ FullOf(L) : p.len[l] \in 0 .. MaxTokens
    BY <1>00 DEF ProcInv, Core, LenInv
  <2>3. \A l \in DOMAIN L : l # p.layer => Due(q, l, q.layer, 0) = Due(p, l, p.layer - 1, 0)
    BY <1>0, <1>1, <1>4 DEF Due
  <2>5. \A l \in FullOf(L) : l \in DOMAIN L /\ l # p.layer
    BY DEF FullOf
  <2>6. \A l \in FullOf(L) : q.len[l] = p.len[l] /\ Due(q, l, q.layer, 0) = Due(p, l, p.layer - 1, 0)
    BY <1>2, <2>3, <2>5
  <2>7. \A l \in DOMAIN L \ FullOf(L) : q.len[l] \in 0 .. MaxTokens
    BY <1>2, <2>2
  <2> QED
    BY <2>2, <2>6, <2>7 DEF LenInv
<1>10. MarkInv(L, q, m) /\ SoundInv(L, q, m, s)
  <2>1. s => r
    BY <1>00 DEF ProcInv, Core, SoundInv
  <2> QED
    BY <1>00, <1>1, <2>1 DEF ProcInv, Core, MarkInv, SoundInv, Running, Reading, Writing, Bare, Passing
<1>11. PICK c : c = Content(p.layer, after, TRUE)
  OBVIOUS
<1>12. c \in FileRec(L) /\ c.by = p.layer /\ c.toks = after /\ c.whole = TRUE
  BY <1>0, <1>11 DEF Content, FileRec
<1>13. f \in [DOMAIN L -> FileRec(L)]
  BY DEF DiskInv
<1>14. Writing(p) => \A l \in DOMAIN L : g[l] = (IF l = p.layer_index + 1 THEN c ELSE f[l])
  BY <1>00, <1>11, <1>13
<1>15. g \in [DOMAIN L -> FileRec(L)]
  BY <1>00, <1>11, <1>12, <1>13
\* With a linear layer the prefix is one pass.
<1>16. (s /\ Writing(p)) => /\ Bare(p) /\ p.layer_index + 1 = p.layer /\ after = Prefix
                            /\ m # DOMAIN L
  <2> SUFFICES ASSUME s, Writing(p)
               PROVE  Bare(p) /\ p.layer_index + 1 = p.layer /\ after = Prefix /\ m # DOMAIN L
    OBVIOUS
  <2>2. FullOf(L) # DOMAIN L
    BY <1>0
  <2>3. m # DOMAIN L /\ Bare(p) /\ p.todo = <<Prefix, 0>>
    BY <2>2 DEF ProcInv, Core, SoundInv
  <2>4. Head(p.todo) = Prefix
    BY <2>3
  <2>5. ~Reading(p) /\ p.file_flag # "NoChange"
    BY DEF Reading, Writing
  <2> QED
    BY <1>00, <2>3, <2>4, <2>5
<1>17. WriteInv(L, q, g, s, q.layer, 0)
  <2> SUFFICES ASSUME s, Writing(p), NEW l \in DOMAIN L, l <= p.layer
               PROVE  Written(L, q, g, l, 0)
    <3>1. \A l \in DOMAIN L : l # 0
      BY <1>0
    <3>2. (s /\ Writing(p)) => Bare(p)
      BY <1>16
    <3> QED
      BY <1>1, <3>1, <3>2, Zenon DEF WriteInv, Writing, Bare
  <2>2. CASE l = p.layer
    <3>1. g[l] = c
      BY <1>14, <1>16, <2>2
    <3> QED
      BY <1>12, <1>16, <2>2, <3>1 DEF Written
  <2>3. CASE l # p.layer
    <3>1. l <= p.layer - 1 /\ l # p.layer_index + 1
      BY <1>0, <1>16, <2>3
    <3>2. Written(L, p, f, l, 0)
      BY <1>00, <3>1 DEF ProcInv, Core, WriteInv
    <3> QED
      BY <1>1, <1>2, <1>14, <2>3, <3>1, <3>2 DEF Written
  <2> QED
    BY <2>2, <2>3
<1>18. GoodInv(L, q, g, m, s, 0)
  <2>1. CASE Writing(p)
    BY <1>1, <1>16, <2>1 DEF GoodInv, Writing
  <2>2. CASE ~Writing(p)
    BY <1>00, <1>1, <2>2 DEF ProcInv, Core, GoodInv, Writing, First
  <2> QED
    BY <2>1, <2>2
<1>19. DiskInv(L, g, m, s)
  BY <1>15 DEF DiskInv
<1> QED
  BY <1>1, <1>3, <1>5, <1>6, <1>9, <1>10, <1>17, <1>18, <1>19 DEF Core

-----------------------------------------------------------------------------
(* A generate call.                                                        *)

\* Passes that take the cache from start to stop tokens; at[i]: the tokens before
\* pass i, or after the last one.
Paces(todo, start, stop, at) ==
    /\ at[1] = start /\ at[Len(todo) + 1] = stop
    /\ \A i \in DOMAIN todo : /\ at[i + 1] = at[i] + todo[i]
                              /\ todo[i] = 0 => at[i] >= Prefix

Paced(todo, start, stop) ==
    /\ todo \in Seq(Nat) /\ todo # << >> /\ todo[1] > 0
    /\ \E at \in [1 .. Len(todo) + 1 -> 0 .. MaxTokens] : Paces(todo, start, stop, at)

\* The passes of a prompt, block by block, take its tokens from start to start + Prefix.
LEMMA PacedBlocks ==
    ASSUME NEW start \in Nat, NEW blocks \in Blocks, start + Prefix <= MaxTokens
    PROVE  /\ Paced(blocks, start, start + Prefix)
           /\ Len(blocks) = 1 => blocks[1] = Prefix
<1>0. Prefix \in Nat \ {0} /\ MaxTokens \in Nat /\ blocks \in Seq(Nat \ {0})
  BY PrefixAssumption
<1>1. PICK n : n = Len(blocks)
  OBVIOUS
<1>2. PICK sum \in [0 .. n -> 0 .. Prefix] :
          sum[0] = 0 /\ sum[n] = Prefix /\ \A i \in DOMAIN blocks : sum[i] = sum[i - 1] + blocks[i]
  BY <1>1, PrefixAssumption
<1>3. n \in Nat /\ DOMAIN blocks = 1 .. n /\ \A i \in 1 .. n : blocks[i] \in Nat \ {0}
  BY <1>0, <1>1
<1>4. n # 0
  BY <1>0, <1>2
<1>5. PICK at : at = [i \in 1 .. n + 1 |-> start + sum[i - 1]]
  OBVIOUS
<1>6. \A i \in 1 .. n + 1 : /\ i - 1 \in 0 .. n /\ sum[i - 1] \in 0 .. Prefix
                            /\ at[i] = start + sum[i - 1] /\ start + sum[i - 1] \in 0 .. MaxTokens
  <2>1. TAKE i \in 1 .. n + 1
  <2>2. i - 1 \in 0 .. n
    BY <1>3
  <2>3. sum[i - 1] \in 0 .. Prefix /\ at[i] = start + sum[i - 1]
    BY <1>2, <1>5, <2>2
  <2> QED
    BY <1>0, <2>2, <2>3
<1>7. at \in [1 .. n + 1 -> 0 .. MaxTokens]
  BY <1>5, <1>6
<1>8. at[1] = start /\ at[n + 1] = start + Prefix
  <2>1. 1 \in 1 .. n + 1 /\ n + 1 \in 1 .. n + 1 /\ 1 - 1 = 0 /\ (n + 1) - 1 = n
    BY <1>3
  <2>2. at[1] = start + sum[0] /\ at[n + 1] = start + sum[n]
    BY <1>6, <2>1
  <2> QED
    BY <1>2, <2>2
<1>9. \A i \in 1 .. n : at[i + 1] = at[i] + blocks[i] /\ blocks[i] # 0
  <2>1. TAKE i \in 1 .. n
  <2>2. i \in 1 .. n + 1 /\ i + 1 \in 1 .. n + 1 /\ (i + 1) - 1 = i
    BY <1>3
  <2>3. at[i] = start + sum[i - 1] /\ at[i + 1] = start + sum[i] /\ sum[i - 1] \in Int
    BY <1>6, <2>2
  <2>4. sum[i] = sum[i - 1] + blocks[i] /\ blocks[i] \in Nat \ {0}
    BY <1>2, <1>3
  <2>5. \A a \in Int, b \in Nat : start + (a + b) = (start + a) + b
    OBVIOUS
  <2>6. start + (sum[i - 1] + blocks[i]) = (start + sum[i - 1]) + blocks[i]
    BY <2>3, <2>4, <2>5
  <2> QED
    BY <2>3, <2>4, <2>6, Zenon
<1>10. Paces(blocks, start, start + Prefix, at)
  BY <1>1, <1>3, <1>8, <1>9, Zenon DEF Paces
<1>11. blocks \in Seq(Nat) /\ blocks # << >>
  BY <1>0, <1>1, <1>4
<1>12. blocks[1] > 0
  BY <1>3, <1>4
<1>13. Paced(blocks, start, start + Prefix)
  BY <1>1, <1>7, <1>10, <1>11, <1>12 DEF Paced
<1>14. n = 1 => blocks[1] = Prefix
  <2> SUFFICES ASSUME n = 1 PROVE blocks[1] = Prefix
    OBVIOUS
  <2>2. sum[1] = sum[0] + blocks[1]
    BY <1>2, <1>3
  <2> QED
    BY <1>2, <1>3, <2>2
<1> QED
  BY <1>1, <1>13, <1>14

\* One more pass, or completePrefixWrite once the prefix is in.
LEMMA PacedAppend ==
    ASSUME NEW todo, NEW start \in Nat, NEW stop \in Nat, NEW add \in Nat, NEW end, NEW next,
           Paced(todo, start, stop), end = stop + add, end <= MaxTokens, add = 0 => stop >= Prefix,
           next = todo \o <<add>>
    PROVE  /\ Paced(next, start, end) /\ Head(next) = Head(todo) /\ Head(next) > 0
           /\ add = 0 \/ Completes(todo) => Completes(next)
<1>0. MaxTokens \in Nat /\ todo \in Seq(Nat) /\ todo # << >> /\ todo[1] > 0
  BY PrefixAssumption DEF Paced
<1>1. PICK n : n = Len(todo)
  OBVIOUS
<1>2. PICK at \in [1 .. n + 1 -> 0 .. MaxTokens] : Paces(todo, start, stop, at)
  BY <1>1 DEF Paced
<1>3. n \in Nat \ {0} /\ DOMAIN todo = 1 .. n /\ \A i \in 1 .. n : todo[i] \in Nat
  BY <1>0, <1>1
<1>4. next = Append(todo, add)
  BY <1>0, AppendIsConcat
<1>5. /\ next \in Seq(Nat) /\ Len(next) = n + 1 /\ DOMAIN next = 1 .. n + 1 /\ next[n + 1] = add
      /\ \A i \in 1 .. n : next[i] = todo[i]
  BY <1>0, <1>1, <1>3, <1>4
<1>6. 1 \in 1 .. n /\ n + 1 \in 1 .. n + 1 /\ 1 \in 1 .. n + 1 /\ next # << >>
  BY <1>3, <1>5
<1>7. Head(next) = Head(todo) /\ Head(next) > 0 /\ next[1] > 0
  BY <1>0, <1>5, <1>6
<1>8. PICK bt : bt = [i \in 1 .. n + 2 |-> IF i <= n + 1 THEN at[i] ELSE end]
  OBVIOUS
<1>9. end \in 0 .. MaxTokens
  BY <1>0
<1>10. bt \in [1 .. n + 2 -> 0 .. MaxTokens]
  <2> SUFFICES ASSUME NEW i \in 1 .. n + 2
               PROVE  (IF i <= n + 1 THEN at[i] ELSE end) \in 0 .. MaxTokens
    BY <1>8
  <2>2. i <= n + 1 => i \in 1 .. n + 1
    BY <1>3
  <2> QED
    BY <1>2, <1>9, <2>2
<1>11. (\A i \in 1 .. n + 1 : bt[i] = at[i]) /\ bt[n + 2] = end
  <2>1. \A i \in 1 .. n + 1 : i \in 1 .. n + 2 /\ i <= n + 1
    BY <1>3
  <2>2. n + 2 \in 1 .. n + 2 /\ ~(n + 2 <= n + 1)
    BY <1>3
  <2> QED
    BY <1>8, <2>1, <2>2
<1>12. /\ at[1] = start /\ at[n + 1] = stop
       /\ \A i \in 1 .. n : at[i + 1] = at[i] + todo[i] /\ (todo[i] = 0 => at[i] >= Prefix)
  BY <1>1, <1>2, <1>3 DEF Paces
<1>13. \A i \in 1 .. n + 1 : bt[i + 1] = bt[i] + next[i] /\ (next[i] = 0 => bt[i] >= Prefix)
  <2>1. TAKE i \in 1 .. n + 1
  <2>2. CASE i = n + 1
    <3>1. i + 1 = n + 2
      BY <1>3, <2>2
    <3>2. bt[i + 1] = stop + add /\ bt[i] = stop /\ next[i] = add
      BY <1>5, <1>6, <1>11, <1>12, <2>2, <3>1
    <3> QED
      BY <3>2
  <2>3. CASE i # n + 1
    <3>1. i \in 1 .. n /\ i \in 1 .. n + 1 /\ i + 1 \in 1 .. n + 1
      BY <1>3, <2>3
    <3> QED
      BY <1>5, <1>11, <1>12, <3>1
  <2> QED
    BY <2>2, <2>3
<1>14. Len(next) + 1 = n + 2
  BY <1>3, <1>5
<1>15. Paces(next, start, end, bt)
  BY <1>5, <1>6, <1>11, <1>12, <1>13, <1>14 DEF Paces
<1>16. Paced(next, start, end)
  BY <1>5, <1>6, <1>7, <1>10, <1>14, <1>15 DEF Paced
<1>17. add = 0 \/ Completes(todo) => Completes(next)
  <2>1. add = 0 => Completes(next)
    BY <1>5, <1>6 DEF Completes
  <2>2. Completes(todo) => Completes(next)
    <3>1. \A i \in 1 .. n : i \in 1 .. n + 1
      BY <1>3
    <3> QED
      BY <1>3, <1>5, <3>1 DEF Completes
  <2> QED
    BY <2>1, <2>2
<1> QED
  BY <1>7, <1>16, <1>17

\* Passes that are paced stay within the bound, and complete after the prefix.
LEMMA PacedAhead ==
    ASSUME NEW todo, NEW start \in Nat, NEW stop, Paced(todo, start, stop)
    PROVE  Ahead(todo, start)
<1>1. PICK n : n = Len(todo)
  OBVIOUS
<1>2. PICK at \in [1 .. n + 1 -> 0 .. MaxTokens] : Paces(todo, start, stop, at)
  BY <1>1 DEF Paced
<1>3. n \in Nat /\ DOMAIN todo = 1 .. n /\ \A i \in 1 .. n : todo[i] \in Nat
  BY <1>1 DEF Paced
<1>4. \A i \in 1 .. n : i \in 1 .. n + 1 /\ i + 1 \in 1 .. n + 1
  BY <1>3
<1>5. PICK bt : bt = [i \in DOMAIN todo |-> at[i]]
  OBVIOUS
<1>6. bt \in [DOMAIN todo -> 0 .. MaxTokens]
  BY <1>2, <1>3, <1>4, <1>5
<1>7. /\ at[1] = start
      /\ \A i \in 1 .. n : at[i + 1] = at[i] + todo[i] /\ (todo[i] = 0 => at[i] >= Prefix)
  BY <1>2, <1>3 DEF Paces
<1>8. \A i \in 1 .. n : bt[i] = at[i] /\ at[i + 1] <= MaxTokens
  BY <1>2, <1>3, <1>4, <1>5
<1>9. todo # << >> => 1 \in 1 .. n
  BY <1>1, <1>3 DEF Paced
<1>10. Counts(todo, start, bt)
  BY <1>3, <1>7, <1>8, <1>9 DEF Counts
<1> QED
  BY <1>6, <1>10 DEF Ahead

\* A call with these passes and completePrefixWrite, after start tokens.
Planned(todo, start) ==
    todo \in Seq(Nat) /\ todo # << >> /\ Head(todo) > 0 /\ Completes(todo) /\ Ahead(todo, start)

\* What generate has to do: the blocks, completePrefixWrite, and the decoding.
LEMMA PassesPlanned ==
    ASSUME NEW start \in Nat, NEW blocks \in Blocks, NEW decode \in {<< >>, << 1 >>}, NEW todo,
           todo = Passes(blocks, decode), start + Prefix + Len(decode) <= MaxTokens
    PROVE  /\ Planned(todo, start)
           /\ Len(blocks) = 1 /\ decode = << >> => todo = <<Prefix, 0>>
<1>0. Prefix \in Nat \ {0} /\ MaxTokens \in Nat /\ blocks \in Seq(Nat)
  BY PrefixAssumption
<1>1. PICK k : k = Len(decode)
  OBVIOUS
<1>2. (decode = << >> => k = 0) /\ (decode = <<1>> => k = 1)
  BY <1>1
<1>3. start + Prefix \in Nat /\ start + Prefix <= MaxTokens /\ start + Prefix >= Prefix
  BY <1>0, <1>1, <1>2
<1>4. Paced(blocks, start, start + Prefix) /\ (Len(blocks) = 1 => blocks[1] = Prefix)
  BY <1>3, PacedBlocks
<1>5. PICK last : last = blocks \o <<0>>
  OBVIOUS
<1>6. start + Prefix = start + Prefix + 0
  BY <1>0
<1>7. Paced(last, start, start + Prefix) /\ Completes(last) /\ Head(last) > 0
  BY <1>3, <1>4, <1>5, <1>6, PacedAppend
<1>8. \A x : Paced(todo, start, x) /\ Completes(todo) /\ Head(todo) > 0 => Planned(todo, start)
  BY PacedAhead DEF Planned, Paced
<1>9. last \in Seq(Nat) /\ last \o << >> = last /\ blocks \o << >> = blocks
  BY <1>0, <1>7, ConcatEmptySeq DEF Paced
<1>10. CASE decode = << >>
  <2>1. todo = last
    BY <1>5, <1>9, <1>10 DEF Passes
  <2>2. Len(blocks) = 1 => last = <<Prefix, 0>>
    <3>1. last = Append(blocks, 0)
      BY <1>0, <1>5, AppendIsConcat
    <3>2. /\ Len(last) = Len(blocks) + 1 /\ last[Len(blocks) + 1] = 0
          /\ \A i \in 1 .. Len(blocks) : last[i] = blocks[i]
      BY <1>0, <3>1
    <3>3. ASSUME Len(blocks) = 1 PROVE Len(last) = 2 /\ last[1] = Prefix /\ last[2] = 0
      <4>1. Len(blocks) + 1 = 2 /\ 1 \in 1 .. Len(blocks)
        BY <3>3
      <4> QED
        BY <1>4, <3>2, <3>3, <4>1
    <3> QED
      BY <1>9, <3>3
  <2> QED
    BY <1>7, <1>8, <2>1, <2>2
<1>11. CASE decode = <<1>>
  <2>1. PICK stop : stop = start + Prefix
    OBVIOUS
  <2>2. PICK end : end = stop + 1
    OBVIOUS
  <2>3. PICK one : one = 1
    OBVIOUS
  <2>4. /\ stop \in Nat /\ end \in Nat /\ end <= MaxTokens /\ stop >= Prefix /\ end >= Prefix
        /\ one \in Nat /\ one # 0 /\ end = stop + one /\ end = end + 0 /\ decode # << >>
    BY <1>0, <1>1, <1>2, <1>11, <2>1, <2>2, <2>3
  <2>5. CASE Len(blocks) = 1
    <3>1. PICK mid : mid = blocks \o <<one>>
      OBVIOUS
    <3>2. Paced(mid, start, end)
      BY <1>4, <2>1, <2>4, <3>1, PacedAppend
    <3>3. todo = mid \o <<0>>
      BY <1>11, <2>3, <2>5, <3>1 DEF Passes
    <3>4. Paced(todo, start, end) /\ Completes(todo) /\ Head(todo) > 0
      BY <2>4, <3>2, <3>3, PacedAppend
    <3> QED
      BY <1>8, <2>4, <3>4
  <2>6. CASE Len(blocks) # 1
    <3>1. todo = last \o <<one>>
      BY <1>5, <1>11, <2>3, <2>6 DEF Passes
    <3>2. Paced(todo, start, end) /\ Completes(todo) /\ Head(todo) > 0
      BY <1>7, <2>1, <2>4, <3>1, PacedAppend
    <3> QED
      BY <1>8, <2>4, <3>2
  <2> QED
    BY <2>5, <2>6
<1> QED
  BY <1>10, <1>11

\* The call that writes the prefix, the one that is passed, and the one that loads.
Writes(p) == p.mPrefixCacheMode /\ p.mCallIndex = 0 /\ ~p.mIsPrefixFileExist
Passed(p) == p.mPrefixCacheMode /\ p.mCallIndex = 0 /\ p.mIsPrefixFileExist
Reads(p) == p.mPrefixCacheMode /\ p.mCallIndex = 1 /\ p.mIsPrefixFileExist

\* What generate does to the process.
Generated(p, q, call, flag, todo) ==
    /\ p.mPrefixCacheMode => call = p.mCallIndex + 1
    /\ ~p.mPrefixCacheMode => call = p.mCallIndex
    /\ Writes(p) => flag = "PendingWrite"
    /\ Reads(p) => flag = "PendingRead"
    /\ ~Writes(p) /\ ~Reads(p) => flag = p.file_flag
    /\ Passed(p) => todo = << >>
    /\ q = [p EXCEPT !.mCallIndex = call, !.file_flag = flag, !.todo = todo]

\* generate begins a call: it counts it, sets file_flag, and passes or plans its passes.
LEMMA GenerateStep ==
    ASSUME NEW L, NEW p, NEW f, NEW m, NEW s, NEW t \in BOOLEAN, NEW q, NEW call, NEW flag, NEW todo,
           DiskInv(L, f, m, s), ProcInv(L, p, f, m, s), p.pc = "ready", p.todo = << >>, Running(p),
           Generated(p, q, call, flag, todo),
           ~Passed(p) => /\ Planned(todo, p.previous - p.remove)
                         /\ Planned(todo, p.previous - p.remove + Prefix),
           t => /\ s /\ (Writes(p) \/ Reads(p) => Bare(p))
                /\ (Writes(p) /\ FullOf(L) # DOMAIN L => todo = <<Prefix, 0>>)
    PROVE  ProcInv(L, q, f, m, t)
<1> p.mPrefixCacheMode => call = p.mCallIndex + 1
  BY DEF Generated
<1> ~p.mPrefixCacheMode => call = p.mCallIndex
  BY DEF Generated
<1> Writes(p) => flag = "PendingWrite"
  BY DEF Generated
<1> Reads(p) => flag = "PendingRead"
  BY DEF Generated
<1> ~Writes(p) /\ ~Reads(p) => flag = p.file_flag
  BY DEF Generated
<1> Passed(p) => todo = << >>
  BY DEF Generated
<1> q = [p EXCEPT !.mCallIndex = call, !.file_flag = flag, !.todo = todo]
  BY DEF Generated
<1>0. /\ Len(L) \in Nat \ {0} /\ p \in ProcRec(L) /\ TypeInv(L, p) /\ Prefix \in Nat
      /\ p.mCallIndex \in Nat /\ p.previous \in Nat /\ p.remove \in Nat
      /\ p.file_flag \in {"NoChange", "PendingRead", "PendingWrite"}
  BY ProcTypes DEF ProcInv, Core
<1>a. p.layer = 1
  BY DEF ProcInv, CallInv, Passing
<1>b. /\ DoneOf(p) = 0 /\ OpenOf(p) = 0 /\ ZeroedOf(p) = 0
  BY <1>a DEF DoneOf, OpenOf, ZeroedOf
<1>c. /\ p.file_flag = "NoChange" /\ p.layer_index = 0
      /\ p.mPrefixCacheMode => p.mCallIndex <= 2 /\ p.mCallIndex # 2
  BY <1>0, <1>b DEF ProcInv, Core, FlagInv, Passing, Completes, Reading, Writing, Second
<1>d. p.mPrefixCacheMode => p.mCallIndex = 0 \/ p.mCallIndex = 1
  BY <1>0, <1>c
<1>e. /\ call \in Nat /\ flag \in {"NoChange", "PendingRead", "PendingWrite"} /\ todo \in Seq(Nat)
  <2>1. call \in Nat
    BY <1>0
  <2>2. flag \in {"NoChange", "PendingRead", "PendingWrite"}
    BY <1>c
  <2>3. todo \in Seq(Nat)
    <3>1. << >> \in Seq(Nat)
      OBVIOUS
    <3>2. ~Passed(p) => todo \in Seq(Nat)
      BY DEF Planned
    <3> QED
      BY <3>1, <3>2
  <2> QED
    BY <2>1, <2>2, <2>3
<1>1. /\ q \in ProcRec(L) /\ p \in ProcRec(L) /\ q.pc = p.pc
      /\ q.mPrefixCacheMode = p.mPrefixCacheMode /\ q.mCallIndex = call
      /\ q.mIsPrefixFileExist = p.mIsPrefixFileExist /\ q.file_flag = flag
      /\ q.layer_index = p.layer_index /\ q.previous = p.previous /\ q.remove = p.remove
      /\ q.status = p.status /\ q.mapped = p.mapped /\ q.len = p.len /\ q.todo = todo
      /\ q.layer = p.layer /\ q.right = p.right
  BY <1>0, <1>e DEF ProcRec
<1>2. CallInv(L, q)
  BY <1>1, <1>a DEF CallInv
<1>3. TypeInv(L, q) /\ ErrorInv(q) /\ Running(q)
  BY <1>0, <1>1 DEF TypeInv, ErrorInv, Running
<1>4. DoneOf(q) = 0 /\ OpenOf(q) = 0 /\ ZeroedOf(q) = 0
  BY <1>1, <1>a DEF DoneOf, OpenOf, ZeroedOf
<1>5. ~Passed(p) => Passing(q) /\ Completes(q.todo)
  BY <1>1 DEF Passing, Planned
<1>6. /\ Writing(q) <=> Writes(p)
      /\ Reading(q) <=> Reads(p)
  BY <1>1, <1>c DEF Writing, Reading, Writes, Reads
<1>7. /\ Writes(p) => ~Passed(p) /\ First(q)
      /\ Reads(p) => ~Passed(p) /\ Second(q) /\ q.mIsPrefixFileExist
      /\ First(q) => Writes(p)
      /\ Second(q) => ~Passed(p) /\ (q.mIsPrefixFileExist => Reads(p))
      /\ q.mPrefixCacheMode => q.mCallIndex <= 2
  <2>1. CASE p.mPrefixCacheMode
    <3>1. q.mPrefixCacheMode /\ q.mCallIndex = p.mCallIndex + 1
      BY <1>1, <2>1
    <3>2. CASE p.mCallIndex = 0
      BY <1>1, <2>1, <3>1, <3>2 DEF Writes, Passed, Reads, First, Second
    <3>3. CASE p.mCallIndex = 1
      BY <1>1, <2>1, <3>1, <3>3 DEF Writes, Passed, Reads, First, Second
    <3> QED
      BY <1>d, <2>1, <3>2, <3>3
  <2>2. CASE ~p.mPrefixCacheMode
    BY <1>1, <2>2 DEF Writes, Passed, Reads, First, Second
  <2> QED
    BY <2>1, <2>2
<1>8. FlagInv(L, q, 0, 0)
  <2>1. 0 % Len(L) = 0
    BY <1>0
  <2>2. q.pc # "mark" /\ q.layer_index = 0
    BY <1>1, <1>c
  <2> QED
    BY <1>5, <1>6, <1>7, <2>1, <2>2 DEF FlagInv
<1>9. AheadInv(q)
  <2>1. CASE Passed(p)
    BY <1>1, <2>1, AheadEmpty DEF AheadInv
  <2>2. CASE ~Passed(p)
    <3>1. /\ Ahead(todo, p.previous - p.remove) /\ Ahead(todo, p.previous - p.remove + Prefix)
      BY <2>2 DEF Planned
    <3>2. Base(q) = p.previous - p.remove \/ Base(q) = p.previous - p.remove + Prefix
      BY <1>0, <1>1 DEF Base
    <3> QED
      BY <1>1, <3>1, <3>2 DEF AheadInv
  <2> QED
    BY <2>1, <2>2
<1>10. LenInv(L, q, t, 0, 0)
  <2>1. \A l \in FullOf(L) : Due(q, l, 0, 0) = Due(p, l, 0, 0)
    BY <1>1 DEF Due, FullOf, DiskInv
  <2> QED
    BY <1>1, <1>b, <2>1 DEF ProcInv, Core, LenInv
<1>11. MarkInv(L, q, m)
  <2>1. ~(q.mPrefixCacheMode /\ q.mCallIndex = 0)
    BY <1>0, <1>1
  <2> QED
    BY <1>1, <2>1 DEF ProcInv, Core, MarkInv
<1>12. SoundInv(L, q, m, t)
  <2> SUFFICES ASSUME t PROVE SoundInv(L, q, m, t)
    BY DEF SoundInv
  <2>2. s /\ p.right /\ (p.remove > 0 /\ ~Bare(p) => p.previous - p.remove >= Prefix)
    BY DEF ProcInv, Core, SoundInv
  <2>3. Bare(q) <=> Bare(p)
    BY <1>1 DEF Bare
  <2>4. Writes(p) => m # DOMAIN L
    BY DEF ProcInv, Core, MarkInv, Writes
  <2>5. Writing(q) \/ Reading(q) => Bare(q)
    BY <1>6, <2>3
  <2>6. Writing(q) /\ FullOf(L) # DOMAIN L => q.todo = <<Prefix, 0>>
    BY <1>1, <1>6
  <2>7. q.right /\ q.previous = p.previous /\ q.remove = p.remove
    BY <1>1, <2>2
  <2> QED
    BY <1>3, <1>6, <2>2, <2>3, <2>4, <2>5, <2>6, <2>7 DEF SoundInv
<1>13. WriteInv(L, q, f, t, 0, 0)
  <2>1. (t /\ Writing(q)) => Bare(q)
    BY <1>1, <1>6 DEF Bare
  <2>2. \A l \in DOMAIN L : ~(l <= 0) /\ l # 0
    BY DEF DiskInv
  <2> QED
    BY <2>1, <2>2 DEF WriteInv
<1>14. GoodInv(L, q, f, m, t, 0)
  BY <1>1, <1>6, <1>7, <1>b DEF ProcInv, Core, GoodInv
<1> QED
  BY <1>2, <1>3, <1>4, <1>8, <1>9, <1>10, <1>11, <1>12, <1>13, <1>14 DEF ProcInv, Core

-----------------------------------------------------------------------------
(* The invariant of the specification.                                     *)

\* A process of which the invariant holds is up.
LEMMA IsUp == \A L, p, f, m, s : ProcInv(L, p, f, m, s) => p # Stopped
<1> TAKE L, p, f, m, s
<1>1. ProcInv(L, p, f, m, s) => p.pc \in {"ready", "update", "zeroed", "mark"}
  BY DEF ProcInv, Core, TypeInv, ProcRec
<1>2. Stopped.pc = "down"
  BY DEF Stopped
<1> QED
  BY <1>1, <1>2

\* The invariant speaks of the files as the model does.
LEMMA HoldsIsGood ==
    ASSUME DiskInv(Layer, file, mark, sound)
    PROVE  /\ Layers = DOMAIN Layer /\ layer_nums = Len(Layer) /\ Full = FullOf(Layer)
           /\ \A l \in DOMAIN Layer : HoldsPrefix(l) <=> Good(Layer, file, l, 0)
<1>1. Layers = DOMAIN Layer /\ layer_nums = Len(Layer) /\ Full = FullOf(Layer)
  BY DEF Layers, layer_nums, Full, FullOf
<1>2. \A l \in DOMAIN Layer : l # 0 /\ file[l].whole \in BOOLEAN
  BY DEF DiskInv, FileRec
<1> QED
  BY <1>1, <1>2 DEF HoldsPrefix, Good

\* What follows a layer, in onUpdateKV and in CPULinearAttention::onExecute.
LEMMA LayerDoneStep ==
    ASSUME NEW p, NEW g, NEW s, DiskInv(Layer, g, mark, s),
           Core(Layer, p, g, mark, s, p.layer, 0, 0), Running(p), Passing(p),
           p.pc \in {"ready", "update"}, p.layer = proc.layer, p.todo = proc.todo
    PROVE  ProcInv(Layer, LayerDone(p), g, mark, s)
<1>0. layer_nums = Len(Layer) /\ This = p.layer /\ Add = Head(p.todo)
  BY DEF layer_nums, This, Add
<1>1. Len(Layer) \in Nat /\ p.layer \in 1 .. Len(Layer)
  BY ProcTypes DEF Core
<1>2. CASE p.layer < Len(Layer)
  <2>1. LayerDone(p) = [p EXCEPT !.layer = p.layer + 1, !.pc = "ready"]
    BY <1>0, <1>2 DEF LayerDone, LayerDoneAfter
  <2> QED
    BY <1>2, <2>1, NextLayer
<1>3. CASE ~(p.layer < Len(Layer))
  <2>0. p.layer = Len(Layer)
    BY <1>1, <1>3
  <2>1. CASE ~Second(p)
    <3>1. LayerDone(p) = [p EXCEPT !.previous = p.previous - p.remove + Head(p.todo), !.remove = 0,
                                   !.todo = Tail(p.todo), !.layer = 1, !.pc = "ready"]
      BY <1>0, <1>3, <2>1 DEF LayerDone, LayerDoneAfter, Second
    <3> QED
      BY <2>0, <2>1, <3>1, Synced
  <2>2. CASE Second(p)
    <3>1. PICK n : n = IF p.mIsPrefixFileExist THEN p.previous - p.remove + Head(p.todo) + Prefix
                       ELSE p.previous - p.remove + Head(p.todo)
      OBVIOUS
    <3>2. LayerDone(p) = [p EXCEPT !.previous = n, !.remove = 0, !.todo = Tail(p.todo), !.layer = 1,
                                   !.pc = "ready", !.file_flag = "NoChange", !.layer_index = 0,
                                   !.mPrefixCacheMode = FALSE]
      BY <1>0, <1>3, <2>2, <3>1 DEF LayerDone, LayerDoneAfter, Second
    <3>3. /\ p.mIsPrefixFileExist => n = p.previous - p.remove + Head(p.todo) + Prefix
          /\ ~p.mIsPrefixFileExist => n = p.previous - p.remove + Head(p.todo)
      BY <3>1
    <3> QED
      BY <2>0, <2>2, <3>2, <3>3, LoadedEnd
  <2> QED
    BY <2>1, <2>2
<1> QED
  BY <1>2, <1>3

\* The invariant holds before the first process starts.
LEMMA Initial == Init => IInv
<1> SUFFICES ASSUME Init PROVE IInv
  OBVIOUS
<1>0. Layer \in Models /\ Layer \in Seq({"full", "linear"}) /\ Layer # << >> /\ MaxTokens \in Nat
  BY PrefixAssumption DEF Init
<1>1. Len(Layer) \in Nat \ {0} /\ DOMAIN Layer = 1 .. Len(Layer)
  BY <1>0
<1>2. NoFile \in FileRec(Layer)
  BY <1>0, <1>1 DEF NoFile, Content, FileRec
<1>3. DiskInv(Layer, file, mark, sound)
  BY <1>0, <1>2 DEF Init, DiskInv, Layers
<1>4. mark # DOMAIN Layer
  BY <1>1 DEF Init
<1> QED
  BY <1>0, <1>3, <1>4 DEF Init, IInv

\* The invariant once more, for a process that is up after the step.
LEMMA UpAgain ==
    ASSUME Layer \in Models, Layer' = Layer, DiskInv(Layer, file', mark', sound'),
           ProcInv(Layer, proc', file', mark', sound')
    PROVE  IInv'
<1>1. proc' # Stopped
  BY IsUp
<1> QED
  BY <1>1 DEF IInv, Stopped

\* Every step keeps the invariant.
LEMMA Inductive == IInv /\ [Next]_vars => IInv'
<1> SUFFICES ASSUME IInv, [Next]_vars PROVE IInv'
  OBVIOUS
<1>0. Layer \in Models /\ DiskInv(Layer, file, mark, sound) /\ sound \in BOOLEAN
  BY DEF IInv, DiskInv
<1>1. /\ Layers = DOMAIN Layer /\ layer_nums = Len(Layer) /\ Full = FullOf(Layer)
      /\ \A l \in DOMAIN Layer : HoldsPrefix(l) <=> Good(Layer, file, l, 0)
  BY <1>0, HoldsIsGood
<1>2. proc # Stopped => ProcInv(Layer, proc, file, mark, sound)
  BY DEF IInv
<1>3. Stopped.pc = "down"
  BY DEF Stopped
<1>4. CASE UNCHANGED vars
  BY <1>4 DEF vars, IInv, Stopped
<1>5. CASE Next
  <2>0. Layer' = Layer /\ Step
    BY <1>5 DEF Next
  <2>1. CASE Start
    <3>1. proc' = Started /\ file' = file /\ mark' = mark /\ sound' = sound
      BY <2>1 DEF Start
    <3>2. sound /\ mark = DOMAIN Layer => \A l \in DOMAIN Layer : Good(Layer, file, l, 0)
      BY <2>1 DEF Start, IInv
    <3>3. ProcInv(Layer, Started, file, mark, sound)
      BY <1>0, <1>1, <3>2, StartStep DEF Started
    <3> QED
      BY <1>0, <2>0, <3>1, <3>3, UpAgain
  <2>2. CASE SetPrefixCacheFile
    <3>1. /\ proc.pc = "ready" /\ proc.todo = << >>
          /\ proc' = [proc EXCEPT !.mPrefixCacheMode = TRUE, !.mCallIndex = 0,
                                  !.mIsPrefixFileExist = (mark = DOMAIN Layer)]
          /\ file' = file /\ mark' = mark /\ sound' = sound
      BY <1>1, <2>2 DEF SetPrefixCacheFile, SetPrefixCacheFileIf, Idle
    <3>2. ProcInv(Layer, proc, file, mark, sound)
      BY <1>2, <1>3, <3>1
    <3>3. ProcInv(Layer, proc', file, mark, sound)
      BY <1>0, <3>1, <3>2, SetStep
    <3> QED
      BY <1>0, <2>0, <3>1, <3>3, UpAgain
  <2>3. CASE \E blocks \in Blocks, decode \in {<< >>, <<1>>} : Generate(blocks, decode)
    <3>0. PICK blocks \in Blocks, decode \in {<< >>, <<1>>} : Generate(blocks, decode)
      BY <2>3
    <3>1. /\ proc.pc = "ready" /\ proc.todo = << >> /\ Running(proc)
          /\ proc.previous - proc.remove + 2 * Prefix + Len(decode) <= MaxTokens
          /\ file' = file /\ mark' = mark
      BY <3>0 DEF Generate, Idle, Running
    <3>2. ProcInv(Layer, proc, file, mark, sound)
      BY <1>2, <1>3, <3>1
    <3>3. /\ Prefix \in Nat \ {0} /\ MaxTokens \in Nat /\ proc.mCallIndex \in Nat
          /\ proc.previous \in Nat /\ proc.remove \in Nat /\ proc.remove <= proc.previous
      BY <1>0, <3>2, ProcTypes DEF ProcInv, Core
    <3>4. PICK call : call = IF proc.mPrefixCacheMode THEN proc.mCallIndex + 1 ELSE proc.mCallIndex
      OBVIOUS
    <3>5. PICK flag : flag = IF Writes(proc) THEN "PendingWrite"
                             ELSE IF Reads(proc) THEN "PendingRead" ELSE proc.file_flag
      OBVIOUS
    <3>6. PICK todo : todo = IF Passed(proc) THEN << >> ELSE Passes(blocks, decode)
      OBVIOUS
    <3>7. /\ (proc.mPrefixCacheMode /\ proc.mCallIndex + 1 = 1) <=>
                 (proc.mPrefixCacheMode /\ proc.mCallIndex = 0)
          /\ (proc.mPrefixCacheMode /\ proc.mCallIndex + 1 = 2) <=>
                 (proc.mPrefixCacheMode /\ proc.mCallIndex = 1)
      BY <3>3
    <3>8. proc' = [proc EXCEPT !.mCallIndex = call, !.file_flag = flag, !.todo = todo]
      BY <3>0, <3>4, <3>5, <3>6, <3>7 DEF Generate, Writes, Reads, Passed
    <3>9. sound' = (sound /\ (Writes(proc) \/ Reads(proc) => Empty)
                     /\ ((Writes(proc) /\ Full # Layers) => Len(blocks) = 1 /\ decode = << >>))
      BY <3>0, <3>7 DEF Generate, Writes, Reads
    <3>10. ~Passed(proc) => /\ Planned(todo, proc.previous - proc.remove)
                            /\ Planned(todo, proc.previous - proc.remove + Prefix)
                            /\ Len(blocks) = 1 /\ decode = << >> => todo = <<Prefix, 0>>
      <4> SUFFICES ASSUME ~Passed(proc)
                   PROVE  /\ Planned(todo, proc.previous - proc.remove)
                          /\ Planned(todo, proc.previous - proc.remove + Prefix)
                          /\ Len(blocks) = 1 /\ decode = << >> => todo = <<Prefix, 0>>
        OBVIOUS
      <4>2. PICK a : a = proc.previous - proc.remove
        OBVIOUS
      <4>3. PICK b : b = proc.previous - proc.remove + Prefix
        OBVIOUS
      <4>4. PICK k : k = Len(decode)
        OBVIOUS
      <4>5. k \in Nat
        BY <4>4
      <4>6. a \in Nat /\ b \in Nat /\ a + Prefix + k <= MaxTokens /\ b + Prefix + k <= MaxTokens
        <5>1. PICK x, y : x = proc.previous /\ y = proc.remove
          OBVIOUS
        <5>2. /\ x \in Nat /\ y \in Nat /\ y <= x /\ a = x - y /\ b = x - y + Prefix
              /\ x - y + 2 * Prefix + k <= MaxTokens
          BY <3>1, <3>3, <4>2, <4>3, <4>4, <5>1
        <5> QED
          BY <3>3, <4>5, <5>2
      <4>7. todo = Passes(blocks, decode)
        BY <3>6
      <4>8. Planned(todo, a) /\ (Len(blocks) = 1 /\ decode = << >> => todo = <<Prefix, 0>>)
        BY <4>4, <4>6, <4>7, PassesPlanned
      <4>9. Planned(todo, b)
        BY <4>4, <4>6, <4>7, PassesPlanned
      <4> QED
        BY <4>2, <4>3, <4>8, <4>9
    <3>11. /\ proc.mPrefixCacheMode => call = proc.mCallIndex + 1
           /\ ~proc.mPrefixCacheMode => call = proc.mCallIndex
           /\ Writes(proc) => flag = "PendingWrite"
           /\ Reads(proc) => flag = "PendingRead"
           /\ ~Writes(proc) /\ ~Reads(proc) => flag = proc.file_flag
           /\ Passed(proc) => todo = << >>
      <4>1. Reads(proc) => ~Writes(proc)
        BY DEF Reads, Writes
      <4> QED
        BY <3>4, <3>5, <3>6, <4>1
    <3>12. sound' => /\ sound /\ (Writes(proc) \/ Reads(proc) => Bare(proc))
                     /\ (Writes(proc) /\ FullOf(Layer) # DOMAIN Layer => todo = <<Prefix, 0>>)
      <4>1. Writes(proc) => ~Passed(proc)
        BY DEF Writes, Passed
      <4> QED
        BY <1>1, <3>9, <3>10, <4>1 DEF Empty, Bare
    <3>13. sound' \in BOOLEAN
      BY <3>9
    <3>14. ProcInv(Layer, proc', file, mark, sound')
      <4>1. Generated(proc, proc', call, flag, todo)
        BY <3>8, <3>11 DEF Generated
      <4> QED
        BY <1>0, <3>1, <3>2, <3>10, <3>12, <3>13, <4>1, GenerateStep
    <3>15. DiskInv(Layer, file', mark', sound')
      BY <1>0, <3>1, <3>13 DEF DiskInv
    <3> QED
      BY <1>0, <2>0, <3>1, <3>14, <3>15, UpAgain
  <2>4. CASE \E keep \in 0 .. MaxTokens : EraseHistory(keep)
    <3>0. PICK keep \in 0 .. MaxTokens : EraseHistory(keep)
      BY <2>4
    <3>1. /\ proc.pc = "ready" /\ proc.todo = << >> /\ keep < proc.previous
          /\ proc' = [proc EXCEPT !.remove = proc.previous - keep]
          /\ sound' = (sound /\ (keep # 0 => keep >= Prefix))
          /\ file' = file /\ mark' = mark
      BY <3>0 DEF EraseHistory, Idle
    <3>2. ProcInv(Layer, proc, file, mark, sound)
      BY <1>2, <1>3, <3>1
    <3>3. sound' \in BOOLEAN /\ (sound' => sound /\ (keep # 0 => keep >= Prefix))
      BY <3>1
    <3>4. ProcInv(Layer, proc', file, mark, sound')
      BY <1>0, <3>1, <3>2, <3>3, EraseStep
    <3>5. DiskInv(Layer, file', mark', sound')
      BY <1>0, <3>1, <3>3 DEF DiskInv
    <3> QED
      BY <1>0, <2>0, <3>1, <3>4, <3>5, UpAgain
  <2>5. CASE OnAlloc
    <3>1. /\ proc.pc = "ready" /\ Passing(proc) /\ proc.layer \in FullOf(Layer) /\ Bare(proc)
          /\ mark' = mark /\ sound' = sound
      BY <1>1, <2>5 DEF OnAlloc, OnAllocAt, InPass, Add, Passing, This, Empty, Bare
    <3>2. ProcInv(Layer, proc, file, mark, sound)
      BY <1>2, <1>3, <3>1
    <3>3. proc.layer \in DOMAIN Layer
      BY <3>1 DEF FullOf
    <3>4. CASE Reading(proc)
      <4>1. PICK r : r = (proc.right /\ Index = This /\ HoldsPrefix(This))
        OBVIOUS
      <4>2. /\ proc' = [proc EXCEPT !.layer_index = (proc.layer_index + 1) % Len(Layer),
                                    !.mapped[proc.layer] = 0, !.len[proc.layer] = Prefix,
                                    !.pc = "update", !.right = r]
            /\ file' = file
        BY <1>1, <2>5, <3>4, <4>1 DEF OnAlloc, OnAllocAt, This, NextIndex, Reading
      <4>3. /\ r \in BOOLEAN
            /\ (sound /\ proc.right /\ proc.layer_index + 1 = proc.layer
                 /\ Good(Layer, file, proc.layer, 0)) => r
        BY <1>1, <3>3, <4>1 DEF Index, This
      <4>4. ProcInv(Layer, proc', file, mark, sound)
        BY <1>0, <3>1, <3>2, <3>4, <4>2, <4>3, AllocReadStep
      <4> QED
        BY <1>0, <2>0, <3>1, <4>2, <4>4, UpAgain
    <3>5. CASE Writing(proc)
      <4>1. /\ proc' = [proc EXCEPT !.layer_index = (proc.layer_index + 1) % Len(Layer),
                                    !.mapped[proc.layer] = proc.layer_index + 1,
                                    !.len[proc.layer] = 0, !.pc = "update"]
            /\ file' = [file EXCEPT ![proc.layer_index + 1] = Content(proc.layer, 0, FALSE)]
        BY <1>1, <2>5, <3>5 DEF OnAlloc, OnAllocAt, This, NextIndex, Writing, Index
      <4>1a. Wrote(Layer, proc, file, proc', file')
        BY <4>1 DEF Wrote
      <4>2. ProcInv(Layer, proc', file', mark, sound) /\ DiskInv(Layer, file', mark, sound)
        BY <1>0, <3>1, <3>2, <3>5, <4>1a, AllocWriteStep
      <4> QED
        BY <1>0, <2>0, <3>1, <4>2, UpAgain
    <3>6. CASE proc.file_flag = "NoChange"
      <4>1. /\ proc' = [proc EXCEPT !.mapped[proc.layer] = 0, !.len[proc.layer] = 0, !.pc = "update"]
            /\ file' = file
        BY <1>1, <2>5, <3>6 DEF OnAlloc, OnAllocAt, This
      <4>2. ProcInv(Layer, proc', file, mark, sound)
        BY <1>0, <3>1, <3>2, <3>6, <4>1, AllocStep
      <4> QED
        BY <1>0, <2>0, <3>1, <4>1, <4>2, UpAgain
    <3> QED
      BY <2>5, <3>4, <3>5, <3>6 DEF OnAlloc, OnAllocAt, Reading, Writing
  <2>6. CASE \E grows \in BOOLEAN : OnRealloc(grows)
    <3>0. PICK grows \in BOOLEAN : OnRealloc(grows)
      BY <2>6
    <3>1. /\ proc.pc = "ready" /\ Passing(proc) /\ proc.layer \in FullOf(Layer) /\ ~Bare(proc)
          /\ mark' = mark /\ sound' = sound
      BY <1>1, <3>0 DEF OnRealloc, InPass, Add, Passing, This, Empty, Bare
    <3>2. ProcInv(Layer, proc, file, mark, sound)
      BY <1>2, <1>3, <3>1
    <3>3. Reallocated(proc, file, proc', file', grows)
      BY <3>0 DEF OnRealloc, This, Reallocated
    <3>4. ProcInv(Layer, proc', file', mark, sound) /\ DiskInv(Layer, file', mark, sound)
      BY <1>0, <3>1, <3>2, <3>3, ReallocStep
    <3> QED
      BY <1>0, <2>0, <3>1, <3>4, UpAgain
  <2>7. CASE ExpandCopy
    <3>1. proc.pc = "zeroed" /\ Expanded(proc, file, proc', file') /\ mark' = mark /\ sound' = sound
      BY <2>7 DEF ExpandCopy, This, Expanded
    <3>2. ProcInv(Layer, proc, file, mark, sound)
      BY <1>2, <1>3, <3>1
    <3>3. ProcInv(Layer, proc', file', mark, sound) /\ DiskInv(Layer, file', mark, sound)
      BY <1>0, <3>1, <3>2, ExpandStep
    <3> QED
      BY <1>0, <2>0, <3>1, <3>3, UpAgain
  <2>8. CASE OnUpdateKV
    <3>1. proc.pc = "update" /\ mark' = mark /\ sound' = sound
      BY <2>8 DEF OnUpdateKV
    <3>2. ProcInv(Layer, proc, file, mark, sound)
      BY <1>2, <1>3, <3>1
    <3>3. PICK n : n = proc.len[proc.layer] + Head(proc.todo)
      OBVIOUS
    <3>4. PICK p : p = [proc EXCEPT !.len[proc.layer] = n]
      OBVIOUS
    <3>5. Updated(proc, file, p, file', n) /\ proc' = LayerDone(p)
      BY <2>8, <3>3, <3>4 DEF OnUpdateKV, This, Add, Updated
    <3>6. /\ Core(Layer, p, file', mark, sound, p.layer, 0, 0) /\ DiskInv(Layer, file', mark, sound)
          /\ Running(p) /\ Passing(p) /\ p.pc = "update"
          /\ p.layer = proc.layer /\ p.todo = proc.todo
      BY <1>0, <3>1, <3>2, <3>5, UpdateStep
    <3>7. ProcInv(Layer, proc', file', mark, sound)
      BY <3>5, <3>6, LayerDoneStep
    <3> QED
      BY <1>0, <2>0, <3>1, <3>6, <3>7, UpAgain
  <2>9. CASE \E resizes \in BOOLEAN : LinearExecute(resizes)
    <3>0. PICK resizes \in BOOLEAN : LinearExecute(resizes)
      BY <2>9
    <3>1. /\ proc.pc = "ready" /\ Passing(proc) /\ proc.layer \notin FullOf(Layer)
          /\ mark' = mark
      BY <1>1, <3>0 DEF LinearExecute, InPass, Add, Passing, This
    <3>1a. PICK clears \in BOOLEAN : clears = (resizes /\ Head(proc.todo) > 1)
      OBVIOUS
    <3>1b. PICK t : t = sound'
      OBVIOUS
    <3>1c. t = (sound /\ (Writing(proc) /\ proc.len[proc.layer] # 0 => clears))
      BY <3>0, <3>1a, <3>1b DEF LinearExecute, This, Add, Writing
    <3>2. ProcInv(Layer, proc, file, mark, sound)
      BY <1>2, <1>3, <3>1
    <3>2a. t \in BOOLEAN /\ DiskInv(Layer, file, mark, t) /\ ProcInv(Layer, proc, file, mark, t)
      BY <1>0, <3>1c, <3>2, Unsound
    <3>3. proc.layer \in DOMAIN Layer /\ MaxTokens \in Nat
      BY <1>0, <3>2, ProcTypes DEF ProcInv, Core
    <3>4. PICK before : before = IF Reading(proc) THEN Prefix
                                 ELSE IF clears /\ Bare(proc) THEN 0 ELSE proc.len[proc.layer]
      OBVIOUS
    <3>5. PICK after : after = Min({before + Head(proc.todo), MaxTokens})
      OBVIOUS
    <3>6. PICK ix : ix = IF Reading(proc) \/ Writing(proc) THEN (proc.layer_index + 1) % Len(Layer)
                         ELSE proc.layer_index
      OBVIOUS
    <3>7. PICK r : r = (proc.right /\ (Reading(proc) => Index = This /\ HoldsPrefix(This)))
      OBVIOUS
    <3>8. PICK p : p = [proc EXCEPT !.len[proc.layer] = after, !.layer_index = ix, !.right = r]
      OBVIOUS
    <3>9. proc' = LayerDone(p)
      BY <1>1, <3>0, <3>1a, <3>4, <3>5, <3>6, <3>7, <3>8
         DEF LinearExecute, Clears, This, Add, Reading, Writing, Empty, Bare, NextIndex
    <3>10. file' = IF Writing(proc)
                   THEN [file EXCEPT ![proc.layer_index + 1] = Content(proc.layer, after, TRUE)]
                   ELSE file
      BY <3>0, <3>1a, <3>4, <3>5 DEF LinearExecute, Clears, This, Add, Index, Reading, Writing, Empty, Bare
    <3>11. after \in 0 .. MaxTokens /\ (t /\ Writing(proc) /\ Bare(proc) => after = Head(proc.todo))
      <4>1. /\ Head(proc.todo) \in Nat /\ Head(proc.todo) <= MaxTokens
            /\ proc.len[proc.layer] \in 0 .. MaxTokens
        BY <1>0, <3>1, <3>2, PassTokens
      <4>2. before \in {0, Prefix, proc.len[proc.layer]}
        BY <3>4
      <4>3. after \in 0 .. MaxTokens /\ (before = 0 => after = Head(proc.todo))
        BY <3>5, <4>1, <4>2, AfterFacts
      <4>4. t /\ Writing(proc) /\ Bare(proc) => before = 0
        BY <3>1c, <3>4 DEF Writing, Reading
      <4> QED
        BY <4>3, <4>4
    <3>12. /\ r \in BOOLEAN
           /\ (proc.right /\ (Reading(proc) => /\ proc.layer_index + 1 = proc.layer
                                               /\ Good(Layer, file, proc.layer, 0))) => r
      BY <1>1, <3>3, <3>7 DEF Index, This
    <3>13. /\ Reading(proc) \/ Writing(proc) => ix = (proc.layer_index + 1) % Len(Layer)
           /\ ~Reading(proc) /\ ~Writing(proc) => ix = proc.layer_index
           /\ Writing(proc) =>
                 file' = [file EXCEPT ![proc.layer_index + 1] = Content(proc.layer, after, TRUE)]
           /\ ~Writing(proc) => file' = file
      BY <3>6, <3>10
    <3>13a. Advanced(Layer, proc, file, t, p, file', after, ix, r)
      BY <3>8, <3>11, <3>12, <3>13 DEF Advanced
    <3>14. /\ Core(Layer, p, file', mark, t, p.layer, 0, 0) /\ DiskInv(Layer, file', mark, t)
           /\ Running(p) /\ Passing(p) /\ p.pc = "ready"
           /\ p.layer = proc.layer /\ p.todo = proc.todo
      BY <3>1, <3>2a, <3>13a, LinearStep
    <3>15. ProcInv(Layer, proc', file', mark, t)
      BY <3>9, <3>14, LayerDoneStep
    <3> QED
      BY <1>0, <2>0, <3>1, <3>1b, <3>14, <3>15, UpAgain
  <2>10. CASE ForwardError
    <3>1. /\ proc.pc = "ready" /\ proc.layer = 1
          /\ Failed(proc, proc')
          /\ sound' = (sound /\ proc.file_flag # "PendingWrite")
          /\ file' = file /\ mark' = mark
      BY <2>10 DEF ForwardError, InPass, This, Failed
    <3>2. ProcInv(Layer, proc, file, mark, sound)
      BY <1>2, <1>3, <3>1
    <3>3. sound' \in BOOLEAN /\ (sound' => sound /\ proc.file_flag # "PendingWrite")
      BY <3>1
    <3>4. ProcInv(Layer, proc', file, mark, sound')
      BY <1>0, <3>1, <3>2, <3>3, ErrorStep
    <3>5. DiskInv(Layer, file', mark', sound')
      BY <1>0, <3>1, <3>3 DEF DiskInv
    <3> QED
      BY <1>0, <2>0, <3>1, <3>4, <3>5, UpAgain
  <2>11. CASE CompletePrefixWrite
    <3>1. /\ proc.pc = "ready" /\ proc.todo # << >> /\ Head(proc.todo) = 0
          /\ file' = file /\ mark' = mark /\ sound' = sound
      BY <2>11 DEF CompletePrefixWrite, Add
    <3>2. ProcInv(Layer, proc, file, mark, sound)
      BY <1>2, <1>3, <3>1
    <3>3. CASE First(proc)
      <4>1. proc' = [proc EXCEPT !.pc = "mark", !.file_flag = "NoChange", !.layer_index = 0]
        BY <2>11, <3>3 DEF CompletePrefixWrite, First
      <4> QED
        BY <1>0, <2>0, <3>1, <3>2, <3>3, <4>1, CompleteStep, UpAgain
    <3>4. CASE ~First(proc)
      <4>1. proc' = [proc EXCEPT !.todo = Tail(proc.todo)]
        BY <2>11, <3>4 DEF CompletePrefixWrite, First
      <4> QED
        BY <1>0, <2>0, <3>1, <3>2, <3>4, <4>1, SkipStep, UpAgain
    <3> QED
      BY <3>3, <3>4
  <2>12. CASE CreateSync
    <3>1. /\ proc.pc = "mark" /\ file' = file /\ sound' = sound
          /\ mark' = IF file[proc.layer] = NoFile THEN mark ELSE mark \union {proc.layer}
      BY <2>12 DEF CreateSync, This
    <3>2. ProcInv(Layer, proc, file, mark, sound)
      BY <1>2, <1>3, <3>1
    <3>3. proc.layer \in DOMAIN Layer
      BY <1>0, <3>2, ProcTypes DEF ProcInv, Core
    <3>4. DiskInv(Layer, file', mark', sound')
      BY <1>0, <3>1, <3>3 DEF DiskInv
    <3>5. CASE proc.layer < Len(Layer)
      <4>1. proc' = [proc EXCEPT !.layer = proc.layer + 1]
        BY <1>1, <2>12, <3>5 DEF CreateSync, This
      <4>2. ProcInv(Layer, proc', file, mark', sound)
        BY <1>0, <3>1, <3>2, <3>5, <4>1, MarkStep
      <4> QED
        BY <1>0, <2>0, <3>1, <3>4, <4>2, UpAgain
    <3>6. CASE ~(proc.layer < Len(Layer))
      <4>1. proc' = [proc EXCEPT !.layer = 1, !.pc = "ready", !.todo = Tail(proc.todo)]
        BY <1>1, <2>12, <3>6 DEF CreateSync, This
      <4>2. ProcInv(Layer, proc', file, mark', sound)
        BY <1>0, <3>1, <3>2, <3>6, <4>1, MarkedStep
      <4> QED
        BY <1>0, <2>0, <3>1, <3>4, <4>2, UpAgain
    <3> QED
      BY <3>5, <3>6
  <2>13. CASE Stop
    <3>1. /\ proc # Stopped /\ proc' = Stopped /\ file' = file /\ mark' = mark
          /\ sound' = (sound /\ ~(proc.pc = "zeroed" /\ mark = DOMAIN Layer))
      BY <1>1, <2>13 DEF Stop
    <3>2. ProcInv(Layer, proc, file, mark, sound)
      BY <1>2, <3>1
    <3>3. sound' \in BOOLEAN
      BY <3>1
    <3>4. DiskInv(Layer, file', mark', sound')
      BY <1>0, <3>1, <3>3 DEF DiskInv
    <3>5. sound' /\ mark = DOMAIN Layer => ZeroedOf(proc) = 0 /\ sound
      BY <3>1 DEF ZeroedOf
    <3>6. sound' /\ mark = DOMAIN Layer => \A l \in DOMAIN Layer : Good(Layer, file, l, 0)
      BY <3>2, <3>5 DEF ProcInv, Core, GoodInv
    <3> QED
      BY <1>0, <2>0, <3>1, <3>4, <3>6 DEF IInv, Stopped
  <2> QED
    BY <2>0, <2>1, <2>2, <2>3, <2>4, <2>5, <2>6, <2>7, <2>8, <2>9, <2>10, <2>11, <2>12, <2>13
       DEF Step
<1> QED
  BY <1>4, <1>5 DEF vars

\* The invariant gives the types.
LEMMA Typed == IInv => TypeOK
<1> SUFFICES ASSUME IInv PROVE TypeOK
  OBVIOUS
<1>0. Layer \in Models /\ DiskInv(Layer, file, mark, sound) /\ MaxTokens \in Nat
  BY PrefixAssumption DEF IInv
<1>1. Layers = DOMAIN Layer /\ layer_nums = Len(Layer) /\ Full = FullOf(Layer)
  BY <1>0, HoldsIsGood
<1>2. \A l \in Layers : /\ file[l].by \in 0 .. layer_nums
                        /\ file[l].toks \in 0 .. MaxTokens /\ file[l].whole \in BOOLEAN
  BY <1>0, <1>1 DEF DiskInv, FileRec
<1>3. mark \subseteq Layers /\ sound \in BOOLEAN
  BY <1>0, <1>1 DEF DiskInv
<1>4. ASSUME proc # Stopped
      PROVE  /\ proc.previous \in 0 .. MaxTokens /\ proc.remove \in 0 .. proc.previous
             /\ proc.layer_index \in 0 .. layer_nums - 1
             /\ \A l, k \in Full : (l # k /\ proc.mapped[l] # 0) => proc.mapped[l] # proc.mapped[k]
  <2>1. TypeInv(Layer, proc)
    BY <1>4 DEF IInv, ProcInv, Core
  <2>2. /\ proc.previous \in Nat /\ proc.remove \in Nat
        /\ proc.layer_index \in 0 .. Len(Layer) - 1
    BY <2>1 DEF TypeInv, ProcRec
  <2>3. /\ proc.remove <= proc.previous /\ proc.previous <= MaxTokens
        /\ \A l \in DOMAIN Layer : proc.mapped[l] \in {0, l}
    BY <2>1 DEF TypeInv
  <2>4. \A l \in Full : proc.mapped[l] \in {0, l}
    BY <1>1, <2>3 DEF FullOf
  <2>5. proc.previous \in 0 .. MaxTokens /\ proc.remove \in 0 .. proc.previous
    BY <1>0, <2>2, <2>3
  <2> QED
    BY <1>1, <2>2, <2>4, <2>5
<1> QED
  BY <1>0, <1>2, <1>3, <1>4 DEF TypeOK

\* The invariant gives what the markers promise.
LEMMA MarkedHolds == IInv => MarkedIsPrefix
<1> SUFFICES ASSUME IInv, sound, mark = Layers, ~(proc # Stopped /\ proc.pc = "zeroed")
             PROVE  \A f \in Layers : HoldsPrefix(f)
  BY DEF MarkedIsPrefix
<1>1. /\ Layers = DOMAIN Layer
      /\ \A l \in DOMAIN Layer : HoldsPrefix(l) <=> Good(Layer, file, l, 0)
  BY HoldsIsGood DEF IInv
<1>2. CASE proc = Stopped
  BY <1>1, <1>2 DEF IInv
<1>3. CASE proc # Stopped
  <2>1. ZeroedOf(proc) = 0
    BY <1>3 DEF ZeroedOf
  <2>2. GoodInv(Layer, proc, file, mark, sound, ZeroedOf(proc))
    BY <1>3 DEF IInv, ProcInv, Core
  <2> QED
    BY <1>1, <2>1, <2>2 DEF GoodInv
<1> QED
  BY <1>2, <1>3

\* The invariant gives what a load promises.
LEMMA LoadedHolds == IInv => LoadedIsPrefix
  BY DEF IInv, ProcInv, Core, SoundInv, LoadedIsPrefix

\* Between calls the running pass is at its first layer, so every length is previous.
LEMMA LengthsHold == IInv => LengthsAgree
<1> SUFFICES ASSUME IInv, sound, proc # Stopped, Idle, proc.status = "RUNNING",
                    NEW l \in Full
             PROVE  proc.len[l] = proc.previous
  BY DEF LengthsAgree
<1>0. proc.pc = "ready" /\ proc.todo = << >> /\ Running(proc)
  BY DEF Idle, Running
<1>1. DiskInv(Layer, file, mark, sound) /\ Full = FullOf(Layer)
  BY HoldsIsGood DEF IInv
<1>2. CallInv(Layer, proc) /\ LenInv(Layer, proc, sound, DoneOf(proc), OpenOf(proc))
  BY DEF IInv, ProcInv, Core
<1>3. proc.layer = 1
  BY <1>0, <1>2 DEF CallInv, Passing
<1>4. DoneOf(proc) = 0 /\ OpenOf(proc) = 0
  BY <1>0, <1>3 DEF DoneOf, OpenOf
<1>5. l \in Nat \ {0}
  BY <1>1 DEF DiskInv, FullOf
<1>6. ~(l <= 0) /\ l # 0
  BY <1>5
<1> QED
  BY <1>0, <1>1, <1>2, <1>4, <1>6 DEF LenInv, Due

----------------------------------------------------------------------------

\* The invariant holds in every state.
LEMMA Always == Spec => []IInv
  BY Initial, Inductive, PTL DEF Spec

\* The types of the engine's and the files' state, and: each prefix file is the
\* cache of one layer, however the calls count layer_index.
THEOREM TypeCorrect == Spec => []TypeOK
  BY Always, Typed, PTL

\* completePrefixWrite: when every layer has its sync marker, the file of every
\* layer holds the prefix, whichever processes were interrupted while they wrote,
\* marked or went on with a history that is kept in the files.
THEOREM Marked == Spec => []MarkedIsPrefix
  BY Always, MarkedHolds, PTL

\* onAlloc and CPULinearAttention with PendingRead: every layer loads the file of its
\* own index, and it is that of the prefix.
THEOREM Loaded == Spec => []LoadedIsPrefix
  BY Always, LoadedHolds, PTL

\* The assertion in CPUAttention: between the calls, KVMeta::previous is the length
\* of the cache of every full attention layer, also after a prefix was loaded.
THEOREM Lengths == Spec => []LengthsAgree
  BY Always, LengthsHold, PTL

=============================================================================
