-------------------------- MODULE CPURuntimeProofs --------------------------
(***************************************************************************)
(* Proofs about CPURuntime, for every number of runtimes, masks, slots and *)
(* thread numbers and every nesting depth, and about WorkerThread.         *)
(***************************************************************************)
EXTENDS CPURuntime, WorkerThread, FiniteSetTheorems, WellFoundedInduction, TLAPS

\* The members of a pool and of a runtime.
PoolRec == [numberThread : 0 .. MAX_THREAD_NUMBER, mActiveCount : Nat, taken : SUBSET Slot]
RtRec == [mThreadPool : Mask \union {NoPool}, mCpuMask : Mask \union {0},
          mThreadNumber : Int, mTaskIndex : Slot \union {-1},
          mThreadOpen : 0 .. MaxDepth, mCurrentTID : Tid \union {0}]

\* How the calls change the members of runtime r and the count of pool m.
SetMembers(r, s, n, t) ==
    [rt EXCEPT ![r] = [@ EXCEPT !.mTaskIndex = s, !.mThreadOpen = n, !.mCurrentTID = t]]
SetActive(m, c) == [pool EXCEPT ![m].mActiveCount = c]

\* What such a change leaves alone.
MemberStep(r, s, n) ==
    /\ rt' \in [Runtime -> RtRec]
    /\ \A q \in Runtime : q # r => rt'[q] = rt[q]
    /\ \A q \in Runtime : /\ rt'[q].mThreadPool = rt[q].mThreadPool
                          /\ rt'[q].mThreadNumber = rt[q].mThreadNumber
                          /\ rt'[q].mCpuMask = rt[q].mCpuMask
    /\ rt'[r].mTaskIndex = s /\ rt'[r].mThreadOpen = n
ActiveStep(m0, c) ==
    /\ pool' \in [Mask -> PoolRec]
    /\ \A m \in Mask : /\ pool'[m].taken = pool[m].taken
                       /\ pool'[m].numberThread = pool[m].numberThread
                       /\ pool'[m].mActiveCount = IF m = m0 THEN c ELSE pool[m].mActiveCount

\* The runtimes counted in mActiveCount of the pool of mask m.
OpenSet(m) == {r \in Runtime : /\ rt[r].mThreadPool = m
                               /\ rt[r].mThreadOpen > 0 \/ pc[r] = "close"}
BindSet(m) == {r \in Runtime : rt[r].mThreadPool = m /\ pc[r] = "binding"}

\* A pool exists with two threads at least, and a runtime that has one has a
\* thread number the pool can serve; when it is more than one, the pool is the
\* one of the runtime's mask, so that onCreate inside a region keeps the pool.
SizeInv ==
    /\ \A m \in Mask : pool[m].numberThread # 1
    /\ \A r \in Runtime : rt[r].mThreadPool # NoPool =>
           /\ rt[r].mThreadNumber \in 1 .. MAX_THREAD_NUMBER
           /\ rt[r].mThreadNumber > 1 =>
                  /\ rt[r].mThreadPool = rt[r].mCpuMask
                  /\ rt[r].mThreadNumber <= pool[rt[r].mThreadPool].numberThread

\* How far a runtime is in its regions.
RegionInv ==
    \A r \in Runtime :
        /\ rt[r].mThreadOpen <= depth[r]
        /\ rt[r].mTaskIndex = -1 => rt[r].mThreadOpen = 0 /\ pc[r] \notin {"open", "close"}
        /\ rt[r].mTaskIndex # -1 => rt[r].mThreadPool # NoPool
        /\ rt[r].mTaskIndex # -1 /\ pc[r] \notin {"open", "close"} => rt[r].mThreadOpen > 0
        /\ pc[r] = "open" => rt[r].mThreadOpen < depth[r]
        /\ pc[r] = "close" => rt[r].mThreadOpen = 0
        /\ pc[r] = "binding" => rt[r].mThreadPool # NoPool

\* A slot is taken while a runtime holds it, and by one runtime.
SlotInv ==
    /\ \A m \in Mask, s \in Slot : s \in pool[m].taken <=> \E r \in Runtime : Holds(r, m, s)
    /\ \A m \in Mask, s \in Slot, q, r \in Runtime : Holds(q, m, s) /\ Holds(r, m, s) => q = r

CountInv ==
    \A m \in Mask : pool[m].mActiveCount = Cardinality(OpenSet(m)) + Cardinality(BindSet(m))

IInv == TypeOK /\ SizeInv /\ RegionInv /\ SlotInv /\ CountInv

-----------------------------------------------------------------------------
(* Counting runtimes, and the first free slot.                             *)

\* A set of runtimes with one more or one less.
LEMMA RuntimeCount ==
    ASSUME NEW S \in SUBSET Runtime, NEW r \in Runtime
    PROVE  /\ Cardinality(S) \in Nat
           /\ r \notin S => Cardinality(S \union {r}) = Cardinality(S) + 1
           /\ r \in S => Cardinality(S) > 0 /\ Cardinality(S \ {r}) = Cardinality(S) - 1
<1>1. IsFiniteSet(S)
  BY RuntimeAssumption, FS_Subset
<1>2. Cardinality(S) \in Nat
  BY <1>1, FS_CardinalityType
<1>3. r \notin S => Cardinality(S \union {r}) = Cardinality(S) + 1
  BY <1>1, FS_AddElement
<1>4. ASSUME r \in S PROVE Cardinality(S) > 0 /\ Cardinality(S \ {r}) = Cardinality(S) - 1
  <2>1. Cardinality(S \ {r}) = Cardinality(S) - 1
    BY <1>1, <1>4, FS_RemoveElement
  <2>2. Cardinality(S) # 0
    BY <1>1, <1>4, FS_EmptySet
  <2> QED
    BY <1>2, <2>1, <2>2
<1> QED
  BY <1>2, <1>3, <1>4

\* A nonempty set of slots has a first one.
LEMMA LeastSlot ==
    ASSUME NEW S \in SUBSET Nat, S # {}
    PROVE  \E s \in S : \A u \in S : s <= u
<1> DEFINE R == {ss \in Nat \X Nat : ss[1] < ss[2]}
<1>1. IsWellFoundedOn(R, Nat)
  BY NatLessThanWellFounded DEF OpToRel
<1>2. PICK s \in S : \A u \in S : ~(<<u, s>> \in R)
  BY <1>1, WFMin
<1>3. \A u \in S : <<u, s>> \in R <=> u < s
  OBVIOUS
<1> HIDE DEF R
<1>4. ASSUME NEW u \in S PROVE s <= u
  <2>1. ~(u < s)
    BY <1>2, <1>3
  <2> QED
    BY <2>1
<1> QED
  BY <1>4

\* acquireWorkIndex answers a slot nobody has taken, or -1.
LEMMA FirstFreeIsFree ==
    ASSUME NEW m
    PROVE  FirstFree(m) = -1 \/ FirstFree(m) \in Slot \ pool[m].taken
<1> DEFINE free == Slot \ pool[m].taken
<1>1. CASE free = {}
  BY <1>1 DEF FirstFree
<1>2. CASE free # {}
  <2>1. free \in SUBSET Nat
    BY RuntimeAssumption DEF Slot
  <2>2. \E s \in free : \A u \in free : s <= u
    BY <1>2, <2>1, LeastSlot
  <2> HIDE DEF free
  <2>3. (CHOOSE s \in free : \A u \in free : s <= u) \in free
    BY <2>2
  <2> USE DEF free
  <2> QED
    BY <1>2, <2>3 DEF FirstFree
<1> QED
  BY <1>1, <1>2

-----------------------------------------------------------------------------
(* The inductive invariant.                                                *)

\* It holds before any runtime has a pool.
LEMMA InitIInv == Init => IInv
<1> SUFFICES ASSUME Init PROVE IInv
  OBVIOUS
<1> USE RuntimeAssumption
<1>1. TypeOK
  <2>1. pool \in [Mask -> PoolRec]
    BY DEF Init, PoolRec
  <2>2. ASSUME NEW r \in Runtime PROVE rt[r] \in RtRec
    <3>1. rt[r] \in [mThreadPool : {NoPool}, mCpuMask : {0}, mThreadNumber : NumThreads,
                      mTaskIndex : {-1}, mThreadOpen : {0}, mCurrentTID : {0}]
      BY DEF Init
    <3>2. /\ NumThreads \subseteq Int /\ 0 \in 0 .. MaxDepth
          /\ NoPool \in Mask \union {NoPool} /\ -1 \in Slot \union {-1}
          /\ 0 \in Mask \union {0} /\ 0 \in Tid \union {0}
      OBVIOUS
    <3> HIDE RuntimeAssumption
    <3> QED
      BY <3>1, <3>2 DEF RtRec
  <2>3. rt \in [Runtime -> RtRec]
    BY <2>2 DEF Init
  <2>4. /\ pc \in [Runtime -> {"idle", "open", "bind", "binding", "close"}]
        /\ tid \in [Runtime -> Tid \union {0}] /\ depth \in [Runtime -> 0 .. MaxDepth]
    BY DEF Init
  <2> QED
    BY <2>1, <2>3, <2>4 DEF TypeOK, PoolRec, RtRec
<1>2. \A r \in Runtime : /\ rt[r].mThreadPool = NoPool /\ rt[r].mTaskIndex = -1
                         /\ rt[r].mThreadOpen = 0 /\ pc[r] = "idle" /\ depth[r] = 0
  BY DEF Init
<1>3. \A m \in Mask : /\ pool[m].numberThread = 0 /\ pool[m].mActiveCount = 0
                      /\ pool[m].taken = {}
  BY DEF Init
<1>4. SizeInv
  BY <1>2, <1>3 DEF SizeInv
<1>5. RegionInv
  BY <1>2 DEF RegionInv
<1>6. SlotInv
  BY <1>2, <1>3 DEF SlotInv, Holds, Slot
<1>7. \A m \in Mask : OpenSet(m) = {} /\ BindSet(m) = {}
  BY <1>2 DEF OpenSet, BindSet
<1>8. CountInv
  BY <1>3, <1>7, FS_EmptySet DEF CountInv
<1> QED
  BY <1>1, <1>4, <1>5, <1>6, <1>8 DEF IInv

\* The thread number the user gets is at least one and at most the limit.
LEMMA ClampFacts ==
    ASSUME NEW n \in Int
    PROVE  /\ Clamp(n) \in 1 .. MAX_THREAD_NUMBER
           /\ Clamp(n) > 1 => n > 1
BY RuntimeAssumption DEF Clamp

\* A runtime is given its pool: onReset between executions, onCreate also inside a
\* region, where the mask is the one the runtime has.
LEMMA ResetStep ==
    ASSUME IInv, NEW r \in Runtime, NEW n \in Int, NEW mask \in Mask,
           pc[r] = "idle",
           depth[r] = 0 \/ (mask = rt[r].mCpuMask /\ n = rt[r].mThreadNumber),
           ResetThreadPool(r, n, mask), UNCHANGED <<pc, tid, depth>>
    PROVE  IInv'
<1> USE RuntimeAssumption
<1> DEFINE asked == Clamp(n)
           number == IF pool[mask].numberThread = 0 THEN asked ELSE pool[mask].numberThread
<1>1. asked \in 1 .. MAX_THREAD_NUMBER /\ (asked > 1 => n > 1)
  BY ClampFacts
<1>2. number \in 1 .. MAX_THREAD_NUMBER /\ (asked > 1 => number > 1)
  BY <1>1 DEF IInv, TypeOK, SizeInv
<1> DEFINE v == IF asked > 1 THEN mask ELSE rt[r].mThreadPool
           k == IF asked > 1 THEN InitAnswer(number, asked) ELSE asked
           new == [rt[r] EXCEPT !.mCpuMask = mask, !.mThreadPool = v,
                                !.mThreadNumber = k, !.mCurrentTID = 0]
<1>3. /\ pool' = IF asked > 1 THEN [pool EXCEPT ![mask].numberThread = number] ELSE pool
      /\ rt' = [rt EXCEPT ![r] = new]
  BY DEF ResetThreadPool
<1>4. /\ asked > 1 => /\ InitAnswer(number, asked) \in 2 .. MAX_THREAD_NUMBER
                      /\ InitAnswer(number, asked) <= number
      /\ InitAnswer(number, asked) \in Int
  BY <1>1, <1>2 DEF InitAnswer
<1> HIDE DEF asked, number
<1>5. rt \in [Runtime -> RtRec] /\ pool \in [Mask -> PoolRec]
  BY DEF IInv, TypeOK, PoolRec, RtRec
<1>6. v \in Mask \union {NoPool} /\ k \in Int /\ rt[r] \in RtRec
  BY <1>1, <1>4, <1>5 DEF RtRec
<1>7. new \in RtRec
  <2> HIDE DEF v, k
  <2> QED
    BY <1>6 DEF RtRec
<1>8. TypeOK'
  <2> HIDE DEF new
  <2>1. pool' \in [Mask -> PoolRec]
    <3>1. [pool[mask] EXCEPT !.numberThread = number] \in PoolRec
      BY <1>2, <1>5 DEF PoolRec
    <3> QED
      BY <1>3, <1>5, <3>1
  <2>2. rt' \in [Runtime -> RtRec]
    BY <1>3, <1>5, <1>7
  <2>3. /\ pc' \in [Runtime -> {"idle", "open", "bind", "binding", "close"}]
        /\ tid' \in [Runtime -> Tid \union {0}] /\ depth' \in [Runtime -> 0 .. MaxDepth]
    BY DEF IInv, TypeOK
  <2> QED
    BY <2>1, <2>2, <2>3 DEF TypeOK, PoolRec, RtRec
<1>9. /\ \A q \in Runtime : q # r => rt'[q] = rt[q]
      /\ rt'[r].mThreadPool = IF asked > 1 THEN mask ELSE rt[r].mThreadPool
      /\ rt'[r].mCpuMask = mask
      /\ rt'[r].mThreadNumber = IF asked > 1 THEN InitAnswer(number, asked) ELSE asked
      /\ rt'[r].mTaskIndex = rt[r].mTaskIndex /\ rt'[r].mThreadOpen = rt[r].mThreadOpen
  <2>1. (\A q \in Runtime : q # r => rt'[q] = rt[q]) /\ rt'[r] = new
    <3> HIDE DEF new
    <3> QED
      BY <1>3, <1>5
  <2> QED
    BY <1>6, <2>1 DEF RtRec
<1> HIDE DEF v, k, new
<1>10. \A m \in Mask : /\ pool'[m].taken = pool[m].taken
                       /\ pool'[m].mActiveCount = pool[m].mActiveCount
                       /\ pool'[m].numberThread =
                             IF asked > 1 /\ m = mask THEN number ELSE pool[m].numberThread
  BY <1>3 DEF IInv, TypeOK
<1>11. \A m \in Mask : pool'[m].numberThread >= pool[m].numberThread /\ pool'[m].numberThread # 1
  BY <1>1, <1>2, <1>10 DEF IInv, TypeOK, SizeInv, number
<1>12. SizeInv'
  <2> SUFFICES ASSUME NEW q \in Runtime, rt'[q].mThreadPool # NoPool
               PROVE  /\ rt'[q].mThreadNumber \in 1 .. MAX_THREAD_NUMBER
                      /\ rt'[q].mThreadNumber > 1 =>
                             /\ rt'[q].mThreadPool = rt'[q].mCpuMask
                             /\ rt'[q].mThreadNumber <= pool'[rt'[q].mThreadPool].numberThread
    BY <1>11 DEF SizeInv
  <2>1. CASE q = r
    BY <1>1, <1>2, <1>4, <1>9, <1>10, <2>1
  <2>2. CASE q # r
    <3>1. rt'[q] = rt[q] /\ rt[q].mThreadPool \in Mask /\ rt[q].mThreadNumber \in Int
      BY <1>9, <2>2 DEF IInv, TypeOK
    <3>2. /\ rt[q].mThreadNumber \in 1 .. MAX_THREAD_NUMBER
          /\ rt[q].mThreadNumber > 1 =>
                 /\ rt[q].mThreadPool = rt[q].mCpuMask
                 /\ rt[q].mThreadNumber <= pool[rt[q].mThreadPool].numberThread
      BY <3>1 DEF IInv, SizeInv
    <3>3. /\ pool'[rt[q].mThreadPool].numberThread >= pool[rt[q].mThreadPool].numberThread
          /\ pool'[rt[q].mThreadPool].numberThread \in Int
          /\ pool[rt[q].mThreadPool].numberThread \in Int
      <4>1. pool' \in [Mask -> PoolRec]
        BY <1>8 DEF TypeOK, PoolRec
      <4> QED
        <5>1. pool[rt[q].mThreadPool] \in PoolRec /\ pool'[rt[q].mThreadPool] \in PoolRec
          BY <1>5, <3>1, <4>1
        <5>2. /\ pool'[rt[q].mThreadPool].numberThread \in 0 .. MAX_THREAD_NUMBER
              /\ pool[rt[q].mThreadPool].numberThread \in 0 .. MAX_THREAD_NUMBER
          BY <5>1 DEF PoolRec
        <5>3. pool'[rt[q].mThreadPool].numberThread >= pool[rt[q].mThreadPool].numberThread
          BY <1>11, <3>1
        <5> QED
          BY <5>2, <5>3
    <3> QED
      BY <3>1, <3>2, <3>3
  <2> QED
    BY <2>1, <2>2
<1>13. (rt[r].mTaskIndex = -1 /\ rt[r].mThreadOpen = 0) \/ rt'[r].mThreadPool = rt[r].mThreadPool
  BY <1>1, <1>9 DEF IInv, TypeOK, RegionInv, SizeInv
<1>14. RegionInv'
  BY <1>9, <1>13 DEF IInv, TypeOK, RegionInv
<1>15. \A m \in Mask, s \in Slot, q \in Runtime : Holds(q, m, s)' <=> Holds(q, m, s)
  BY <1>9, <1>13 DEF Holds, Slot
<1>16. SlotInv'
  BY <1>10, <1>15 DEF IInv, SlotInv
<1>17. \A m \in Mask : OpenSet(m)' = OpenSet(m) /\ BindSet(m)' = BindSet(m)
  BY <1>9, <1>13 DEF OpenSet, BindSet
<1>18. CountInv'
  BY <1>10, <1>17 DEF IInv, CountInv
<1> QED
  BY <1>8, <1>12, <1>14, <1>16, <1>18 DEF IInv

\* A step that changes neither the thread numbers nor the sizes of the pools.
LEMMA SizeKept ==
    ASSUME IInv,
           \A r \in Runtime : /\ rt'[r].mThreadPool = rt[r].mThreadPool
                              /\ rt'[r].mThreadNumber = rt[r].mThreadNumber
                              /\ rt'[r].mCpuMask = rt[r].mCpuMask,
           \A m \in Mask : pool'[m].numberThread = pool[m].numberThread
    PROVE  SizeInv'
<1>1. \A r \in Runtime : rt[r].mThreadPool # NoPool => rt[r].mThreadPool \in Mask
  BY DEF IInv, TypeOK
<1> QED
  BY <1>1 DEF IInv, SizeInv

\* acquireWorkIndex at the first begin that finds a free slot.
LEMMA BeginAcquireStep ==
    ASSUME IInv, NEW r \in Runtime, NEW t \in Tid, BeginAcquire(r, t)
    PROVE  IInv'
<1> USE RuntimeAssumption
<1> DEFINE m0 == rt[r].mThreadPool
           get == rt[r].mTaskIndex < 0 /\ m0 # NoPool
           s0 == IF get THEN FirstFree(m0) ELSE rt[r].mTaskIndex
<1>1. /\ pc[r] = "idle" /\ depth[r] < MaxDepth
      /\ rt' = [rt EXCEPT ![r].mTaskIndex = s0]
      /\ pool' = IF get /\ s0 >= 0 THEN [pool EXCEPT ![m0].taken = @ \union {s0}] ELSE pool
      /\ depth' = [depth EXCEPT ![r] = @ + 1]
      /\ tid' = [tid EXCEPT ![r] = t]
      /\ pc' = [pc EXCEPT ![r] = IF s0 >= 0 THEN "open" ELSE "bind"]
  BY DEF BeginAcquire, BeginAcquireIf
<1>2. /\ s0 = -1 \/ s0 \in Slot
      /\ get /\ s0 # -1 => s0 \notin pool[m0].taken
      /\ get => rt[r].mTaskIndex = -1 /\ m0 \in Mask
      /\ ~get => s0 = rt[r].mTaskIndex
  BY FirstFreeIsFree DEF IInv, TypeOK, Slot
<1>3. s0 >= 0 <=> s0 # -1
  BY <1>2 DEF Slot
<1> HIDE DEF m0, get, s0
<1>4. TypeOK'
  <2>1. pool \in [Mask -> PoolRec] /\ rt \in [Runtime -> RtRec]
    BY DEF IInv, TypeOK, PoolRec, RtRec
  <2>2. pool' \in [Mask -> PoolRec]
    <3>1. CASE get /\ s0 >= 0
      <4>1. [pool[m0] EXCEPT !.taken = @ \union {s0}] \in PoolRec
        BY <1>2, <1>3, <2>1, <3>1 DEF PoolRec
      <4> QED
        BY <1>1, <2>1, <3>1, <4>1
    <3>2. CASE ~(get /\ s0 >= 0)
      BY <1>1, <2>1, <3>2
    <3> QED
      BY <3>1, <3>2
  <2>3. [rt[r] EXCEPT !.mTaskIndex = s0] \in RtRec
    BY <1>2, <2>1 DEF RtRec
  <2>4. rt' \in [Runtime -> RtRec]
    BY <1>1, <2>1, <2>3
  <2>5. /\ pc' \in [Runtime -> {"idle", "open", "bind", "binding", "close"}]
        /\ tid' \in [Runtime -> Tid \union {0}] /\ depth' \in [Runtime -> 0 .. MaxDepth]
    BY <1>1 DEF IInv, TypeOK
  <2> QED
    BY <2>2, <2>4, <2>5 DEF TypeOK, PoolRec, RtRec
<1>5. /\ \A q \in Runtime : q # r => rt'[q] = rt[q] /\ pc'[q] = pc[q] /\ depth'[q] = depth[q]
      /\ rt'[r].mThreadPool = m0 /\ rt'[r].mTaskIndex = s0 /\ m0 = rt[r].mThreadPool
      /\ rt'[r].mThreadOpen = rt[r].mThreadOpen
      /\ rt'[r].mThreadNumber = rt[r].mThreadNumber /\ rt'[r].mCpuMask = rt[r].mCpuMask
      /\ depth'[r] = depth[r] + 1
      /\ pc'[r] = IF s0 # -1 THEN "open" ELSE "bind"
  BY <1>1, <1>3 DEF IInv, TypeOK, m0
<1>6. \A m \in Mask : /\ pool'[m].mActiveCount = pool[m].mActiveCount
                      /\ pool'[m].numberThread = pool[m].numberThread
                      /\ pool'[m].taken = IF get /\ s0 # -1 /\ m = m0
                                          THEN pool[m].taken \union {s0} ELSE pool[m].taken
  <2>1. pool \in [Mask -> PoolRec]
    BY DEF IInv, TypeOK, PoolRec
  <2>2. CASE get /\ s0 >= 0
    <3>1. /\ \A m \in Mask : m # m0 => pool'[m] = pool[m]
          /\ pool'[m0] = [pool[m0] EXCEPT !.taken = @ \union {s0}] /\ pool[m0] \in PoolRec
      BY <1>1, <1>2, <2>1, <2>2
    <3> QED
      BY <1>3, <2>2, <3>1 DEF PoolRec
  <2>3. CASE ~(get /\ s0 >= 0)
    BY <1>1, <1>3, <2>3
  <2> QED
    BY <2>2, <2>3
<1>7. SizeInv'
  BY <1>5, <1>6, SizeKept
<1>8. RegionInv'
  BY <1>1, <1>2, <1>5 DEF IInv, RegionInv, TypeOK, get
<1>9. \A m \in Mask, s \in Slot, q \in Runtime :
          Holds(q, m, s)' <=> Holds(q, m, s) \/ (get /\ s0 # -1 /\ q = r /\ m = m0 /\ s = s0)
  BY <1>1, <1>2, <1>5 DEF Holds, Slot
<1>10. SlotInv'
  <2>1. ASSUME NEW m \in Mask, NEW s \in Slot
        PROVE  s \in pool'[m].taken <=> \E q \in Runtime : Holds(q, m, s)'
    <3>1. s \in pool[m].taken <=> \E q \in Runtime : Holds(q, m, s)
      BY DEF IInv, SlotInv
    <3>2. s \in pool'[m].taken <=> s \in pool[m].taken \/ (get /\ s0 # -1 /\ m = m0 /\ s = s0)
      BY <1>6
    <3> QED
      BY <1>9, <3>1, <3>2
  <2>2. ASSUME NEW m \in Mask, NEW s \in Slot, NEW p \in Runtime, NEW q \in Runtime,
               Holds(p, m, s)', Holds(q, m, s)'
        PROVE  p = q
    BY <1>2, <1>9, <2>2 DEF IInv, SlotInv
  <2> QED
    BY <2>1, <2>2 DEF SlotInv
<1>11. \A m \in Mask : OpenSet(m)' = OpenSet(m) /\ BindSet(m)' = BindSet(m)
  BY <1>1, <1>5 DEF OpenSet, BindSet
<1>12. CountInv'
  BY <1>6, <1>11 DEF IInv, CountInv
<1> QED
  BY <1>4, <1>7, <1>8, <1>10, <1>12 DEF IInv

\* active() and deactive() of the pool of mask m0.
LEMMA ActiveCountFacts ==
    ASSUME IInv, NEW m0 \in Mask, NEW c \in Nat,
           pool' = SetActive(m0, c)
    PROVE  ActiveStep(m0, c)
<1>1. pool \in [Mask -> PoolRec]
  BY DEF IInv, TypeOK, PoolRec
<1>2. [pool[m0] EXCEPT !.mActiveCount = c] \in PoolRec /\ pool[m0] \in PoolRec
  BY <1>1 DEF PoolRec
<1>3. pool'[m0] = [pool[m0] EXCEPT !.mActiveCount = c] /\ \A m \in Mask : m # m0 => pool'[m] = pool[m]
  BY <1>1 DEF SetActive
<1>4. pool' \in [Mask -> PoolRec]
  BY <1>1, <1>2 DEF SetActive
<1> QED
  BY <1>2, <1>3, <1>4 DEF PoolRec, ActiveStep

\* The members of runtime r change, those of the others do not.
LEMMA MemberFacts ==
    ASSUME IInv, NEW r \in Runtime, NEW s \in Slot \union {-1}, NEW n \in 0 .. MaxDepth,
           NEW t \in Tid \union {0},
           rt' = SetMembers(r, s, n, t)
    PROVE  MemberStep(r, s, n)
<1> DEFINE new == [rt[r] EXCEPT !.mTaskIndex = s, !.mThreadOpen = n, !.mCurrentTID = t]
<1>1. rt \in [Runtime -> RtRec] /\ rt[r] \in RtRec
  BY DEF IInv, TypeOK, RtRec
<1>2. /\ new \in RtRec
      /\ new.mThreadPool = rt[r].mThreadPool /\ new.mThreadNumber = rt[r].mThreadNumber
      /\ new.mCpuMask = rt[r].mCpuMask /\ new.mTaskIndex = s /\ new.mThreadOpen = n
  BY <1>1 DEF RtRec
<1>3. rt' = [rt EXCEPT ![r] = new]
  BY DEF SetMembers
<1> HIDE DEF new
<1>4. rt'[r] = new /\ \A q \in Runtime : q # r => rt'[q] = rt[q]
  BY <1>1, <1>3
<1>5. rt' \in [Runtime -> RtRec]
  BY <1>1, <1>2, <1>3
<1> QED
  BY <1>2, <1>4, <1>5 DEF MemberStep

\* One member assigned, as the actions write it.
LEMMA OneMember ==
    ASSUME IInv, NEW r \in Runtime
    PROVE  /\ \A s : [rt EXCEPT ![r].mTaskIndex = s] =
                       SetMembers(r, s, rt[r].mThreadOpen, rt[r].mCurrentTID)
           /\ \A n : [rt EXCEPT ![r].mThreadOpen = n] =
                       SetMembers(r, rt[r].mTaskIndex, n, rt[r].mCurrentTID)
           /\ \A t : [rt EXCEPT ![r].mCurrentTID = t] =
                       SetMembers(r, rt[r].mTaskIndex, rt[r].mThreadOpen, t)
<1>1. rt \in [Runtime -> RtRec] /\ rt[r] \in RtRec
  BY DEF IInv, TypeOK, RtRec
<1> QED
  BY <1>1 DEF RtRec, SetMembers

\* Steps that leave the slots with the runtimes that have them.
LEMMA SlotKept ==
    ASSUME IInv,
           \A m \in Mask : pool'[m].taken = pool[m].taken,
           \A m \in Mask, s \in Slot, r \in Runtime : Holds(r, m, s)' <=> Holds(r, m, s)
    PROVE  SlotInv'
BY DEF IInv, SlotInv

\* A runtime in an open region or binding the workers keeps the pool active.
LEMMA ActivePositive ==
    ASSUME IInv, NEW m \in Mask, NEW r \in OpenSet(m) \union BindSet(m)
    PROVE  pool[m].mActiveCount > 0
<1>1. OpenSet(m) \in SUBSET Runtime /\ BindSet(m) \in SUBSET Runtime /\ r \in Runtime
  BY DEF OpenSet, BindSet
<1>2. /\ Cardinality(OpenSet(m)) \in Nat /\ Cardinality(BindSet(m)) \in Nat
      /\ r \in OpenSet(m) => Cardinality(OpenSet(m)) > 0
      /\ r \in BindSet(m) => Cardinality(BindSet(m)) > 0
  BY <1>1, RuntimeCount
<1> QED
  BY <1>2 DEF IInv, CountInv

\* Steps that leave the counts and the sets they count.
LEMMA CountKept ==
    ASSUME IInv,
           \A m \in Mask : /\ pool'[m].mActiveCount = pool[m].mActiveCount
                           /\ OpenSet(m)' = OpenSet(m) /\ BindSet(m)' = BindSet(m)
    PROVE  CountInv'
BY DEF IInv, CountInv

\* active(): one runtime more is open or binding.
LEMMA CountUp ==
    ASSUME IInv, NEW r \in Runtime, NEW m0 \in Mask,
           ActiveStep(m0, pool[m0].mActiveCount + 1),
           \A m \in Mask : m # m0 => OpenSet(m)' = OpenSet(m) /\ BindSet(m)' = BindSet(m),
           \/ /\ r \notin OpenSet(m0) /\ OpenSet(m0)' = OpenSet(m0) \union {r}
              /\ BindSet(m0)' = BindSet(m0)
           \/ /\ r \notin BindSet(m0) /\ BindSet(m0)' = BindSet(m0) \union {r}
              /\ OpenSet(m0)' = OpenSet(m0)
    PROVE  CountInv'
<1>1. OpenSet(m0) \in SUBSET Runtime /\ BindSet(m0) \in SUBSET Runtime
  BY DEF OpenSet, BindSet
<1>2. /\ Cardinality(OpenSet(m0)) \in Nat /\ Cardinality(BindSet(m0)) \in Nat
      /\ r \notin OpenSet(m0) =>
             Cardinality(OpenSet(m0) \union {r}) = Cardinality(OpenSet(m0)) + 1
      /\ r \notin BindSet(m0) =>
             Cardinality(BindSet(m0) \union {r}) = Cardinality(BindSet(m0)) + 1
  BY <1>1, RuntimeCount
<1>3. Cardinality(OpenSet(m0)') + Cardinality(BindSet(m0)') =
          Cardinality(OpenSet(m0)) + Cardinality(BindSet(m0)) + 1
  <2>1. CASE OpenSet(m0)' = OpenSet(m0) \union {r} /\ BindSet(m0)' = BindSet(m0) /\ r \notin OpenSet(m0)
    BY <1>2, <2>1
  <2>2. CASE BindSet(m0)' = BindSet(m0) \union {r} /\ OpenSet(m0)' = OpenSet(m0) /\ r \notin BindSet(m0)
    BY <1>2, <2>2
  <2> QED
    BY <2>1, <2>2
<1> QED
  BY <1>3 DEF IInv, CountInv, ActiveStep

\* deactive(): one runtime less.
LEMMA CountDown ==
    ASSUME IInv, NEW r \in Runtime, NEW m0 \in Mask,
           ActiveStep(m0, pool[m0].mActiveCount - 1),
           \A m \in Mask : m # m0 => OpenSet(m)' = OpenSet(m) /\ BindSet(m)' = BindSet(m),
           \/ /\ r \in OpenSet(m0) /\ OpenSet(m0)' = OpenSet(m0) \ {r}
              /\ BindSet(m0)' = BindSet(m0)
           \/ /\ r \in BindSet(m0) /\ BindSet(m0)' = BindSet(m0) \ {r}
              /\ OpenSet(m0)' = OpenSet(m0)
    PROVE  CountInv'
<1>1. OpenSet(m0) \in SUBSET Runtime /\ BindSet(m0) \in SUBSET Runtime
  BY DEF OpenSet, BindSet
<1>2. /\ Cardinality(OpenSet(m0)) \in Nat /\ Cardinality(BindSet(m0)) \in Nat
      /\ r \in OpenSet(m0) =>
             Cardinality(OpenSet(m0) \ {r}) = Cardinality(OpenSet(m0)) - 1
      /\ r \in BindSet(m0) =>
             Cardinality(BindSet(m0) \ {r}) = Cardinality(BindSet(m0)) - 1
  BY <1>1, RuntimeCount
<1>3. Cardinality(OpenSet(m0)') + Cardinality(BindSet(m0)') =
          Cardinality(OpenSet(m0)) + Cardinality(BindSet(m0)) - 1
  <2>1. CASE OpenSet(m0)' = OpenSet(m0) \ {r} /\ BindSet(m0)' = BindSet(m0) /\ r \in OpenSet(m0)
    BY <1>2, <2>1
  <2>2. CASE BindSet(m0)' = BindSet(m0) \ {r} /\ OpenSet(m0)' = OpenSet(m0) /\ r \in BindSet(m0)
    BY <1>2, <2>2
  <2> QED
    BY <2>1, <2>2
<1>4. pool'[m0].mActiveCount = pool[m0].mActiveCount - 1
  BY DEF ActiveStep
<1>5. pool'[m0].mActiveCount = Cardinality(OpenSet(m0)') + Cardinality(BindSet(m0)')
  <2>1. pool[m0].mActiveCount = Cardinality(OpenSet(m0)) + Cardinality(BindSet(m0))
    BY DEF IInv, CountInv
  <2> QED
    BY <1>2, <1>3, <1>4, <2>1
<1>6. ASSUME NEW m \in Mask, m # m0
      PROVE  pool'[m].mActiveCount = Cardinality(OpenSet(m)') + Cardinality(BindSet(m)')
  BY <1>6 DEF IInv, CountInv, ActiveStep
<1> QED
  BY <1>5, <1>6 DEF CountInv

\* The pool is activated by the first region of the runtime.
LEMMA BeginOpenStep ==
    ASSUME IInv, NEW r \in Runtime, BeginOpen(r)
    PROVE  IInv'
<1> USE RuntimeAssumption
<1>0. PICK m0 : m0 = rt[r].mThreadPool
  OBVIOUS
<1> DEFINE n0 == rt[r].mThreadOpen
           n1 == n0 + 1
<1>1. /\ pc[r] = "open" /\ pc' = [pc EXCEPT ![r] = "bind"] /\ UNCHANGED <<tid, depth>>
      /\ rt' = [rt EXCEPT ![r].mThreadOpen = n1]
      /\ pool' = IF n0 = 0 THEN [pool EXCEPT ![m0].mActiveCount = @ + 1] ELSE pool
  BY <1>0 DEF BeginOpen
<1>2. /\ m0 \in Mask /\ n0 \in Nat /\ n1 \in 0 .. MaxDepth /\ n1 = n0 + 1 /\ n0 < depth[r] /\ rt[r].mTaskIndex # -1
      /\ rt[r].mTaskIndex \in Slot \union {-1} /\ rt[r].mCurrentTID \in Tid \union {0}
      /\ depth[r] \in Nat
  BY <1>0, <1>1 DEF IInv, TypeOK, RegionInv
<1> HIDE DEF n0, n1
<1>3. MemberStep(r, rt[r].mTaskIndex, n1)
  <2>1. rt' = SetMembers(r, rt[r].mTaskIndex, n1, rt[r].mCurrentTID)
    BY <1>1, OneMember
  <2> QED
    BY <1>2, <2>1, MemberFacts
<1>4. pool[m0].mActiveCount \in Nat /\ pool \in [Mask -> PoolRec]
  BY <1>2 DEF IInv, TypeOK, PoolRec
<1>5. ActiveStep(m0, IF n0 = 0 THEN pool[m0].mActiveCount + 1 ELSE pool[m0].mActiveCount)
  <2>1. CASE n0 = 0
    <3>1. pool' = SetActive(m0, pool[m0].mActiveCount + 1)
      BY <1>1, <2>1 DEF SetActive
    <3>2. ActiveStep(m0, pool[m0].mActiveCount + 1)
      BY <1>2, <1>4, <3>1, ActiveCountFacts
    <3> QED
      BY <2>1, <3>2
  <2>2. CASE n0 # 0
    BY <1>1, <1>4, <2>2 DEF ActiveStep
  <2> QED
    BY <2>1, <2>2
<1>6. /\ pc'[r] = "bind" /\ \A q \in Runtime : q # r => pc'[q] = pc[q]
      /\ pc' \in [Runtime -> {"idle", "open", "bind", "binding", "close"}]
  BY <1>1 DEF IInv, TypeOK
<1>7. TypeOK'
  BY <1>1, <1>3, <1>5, <1>6 DEF IInv, TypeOK, PoolRec, RtRec, MemberStep, ActiveStep
<1>8. SizeInv'
  BY <1>3, <1>5, SizeKept DEF MemberStep, ActiveStep
<1>9. RegionInv'
  BY <1>0, <1>1, <1>2, <1>3, <1>6 DEF IInv, RegionInv, MemberStep
<1>10. SlotInv'
  <2>1. \A m \in Mask, s \in Slot, q \in Runtime : Holds(q, m, s)' <=> Holds(q, m, s)
    BY <1>1, <1>3, <1>6 DEF Holds, MemberStep
  <2> QED
    BY <1>5, <2>1, SlotKept DEF ActiveStep
<1>11. CountInv'
  <2>1. \A m \in Mask : BindSet(m)' = BindSet(m)
    BY <1>1, <1>3, <1>6 DEF BindSet, MemberStep
  <2>2. CASE n0 = 0
    <3>1. OpenSet(m0)' = OpenSet(m0) \union {r} /\ r \notin OpenSet(m0)
      BY <1>0, <1>1, <1>2, <1>3, <1>6, <2>2 DEF OpenSet, n0, MemberStep
    <3>2. \A m \in Mask : m # m0 => OpenSet(m)' = OpenSet(m)
      BY <1>0, <1>1, <1>3, <1>6 DEF OpenSet, MemberStep
    <3> QED
      BY <1>2, <1>5, <2>1, <2>2, <3>1, <3>2, CountUp
  <2>3. CASE n0 # 0
    <3>1. \A m \in Mask : OpenSet(m)' = OpenSet(m)
      BY <1>0, <1>1, <1>2, <1>3, <1>6, <2>3 DEF OpenSet, n0, MemberStep
    <3> QED
      BY <1>5, <2>1, <2>3, <3>1, CountKept DEF ActiveStep
  <2> QED
    BY <2>2, <2>3
<1> QED
  BY <1>7, <1>8, <1>9, <1>10, <1>11 DEF IInv

\* _bindCPUCore: the pool is active while the workers are bound.
LEMMA BeginBindStep ==
    ASSUME IInv, NEW r \in Runtime, BeginBind(r)
    PROVE  IInv'
<1> USE RuntimeAssumption
<1>0. PICK m0 : m0 = rt[r].mThreadPool
  OBVIOUS
<1> DEFINE t0 == IF rt[r].mCpuMask # 0 /\ tid[r] # rt[r].mCurrentTID THEN tid[r]
                                                                    ELSE rt[r].mCurrentTID
           act == rt[r].mCpuMask # 0 /\ tid[r] # rt[r].mCurrentTID /\ m0 # NoPool
<1>1. /\ pc[r] = "bind" /\ UNCHANGED <<tid, depth>>
      /\ rt' = [rt EXCEPT ![r].mCurrentTID = t0]
      /\ \/ /\ act /\ pool' = [pool EXCEPT ![m0].mActiveCount = @ + 1]
            /\ pc' = [pc EXCEPT ![r] = "binding"]
         \/ ~act /\ pool' = pool /\ pc' = [pc EXCEPT ![r] = "idle"]
  BY <1>0 DEF BeginBind
<1>2. /\ t0 \in Tid \union {0} /\ rt[r].mThreadOpen \in 0 .. MaxDepth
      /\ rt[r].mTaskIndex \in Slot \union {-1}
      /\ act => m0 \in Mask
  BY <1>0 DEF IInv, TypeOK
<1>3. act => m0 # NoPool
  OBVIOUS
<1> HIDE DEF t0, act
<1>4. MemberStep(r, rt[r].mTaskIndex, rt[r].mThreadOpen)
  <2>1. rt' = SetMembers(r, rt[r].mTaskIndex, rt[r].mThreadOpen, t0)
    BY <1>1, OneMember
  <2> QED
    BY <1>2, <2>1, MemberFacts
<1>5. pool \in [Mask -> PoolRec] /\ (act => pool[m0].mActiveCount \in Nat)
  BY <1>2 DEF IInv, TypeOK, PoolRec
<1>6. act => ActiveStep(m0, pool[m0].mActiveCount + 1)
  <2> SUFFICES ASSUME act PROVE ActiveStep(m0, pool[m0].mActiveCount + 1)
    OBVIOUS
  <2>1. pool' = SetActive(m0, pool[m0].mActiveCount + 1)
    BY <1>1 DEF SetActive
  <2>2. m0 \in Mask /\ pool[m0].mActiveCount + 1 \in Nat
    BY <1>2, <1>5
  <2> QED
    BY <2>1, <2>2, ActiveCountFacts
<1>7. /\ pool' \in [Mask -> PoolRec]
      /\ \A m \in Mask : /\ pool'[m].taken = pool[m].taken
                         /\ pool'[m].numberThread = pool[m].numberThread
                         /\ ~act => pool'[m].mActiveCount = pool[m].mActiveCount
  BY <1>1, <1>5, <1>6 DEF ActiveStep
<1>8. /\ pc'[r] = IF act THEN "binding" ELSE "idle"
      /\ \A q \in Runtime : q # r => pc'[q] = pc[q]
      /\ pc' \in [Runtime -> {"idle", "open", "bind", "binding", "close"}]
  BY <1>1 DEF IInv, TypeOK
<1>9. TypeOK'
  BY <1>1, <1>4, <1>7, <1>8 DEF IInv, TypeOK, PoolRec, RtRec, MemberStep
<1>10. SizeInv'
  BY <1>4, <1>7, SizeKept DEF MemberStep
<1>11. RegionInv'
  BY <1>0, <1>1, <1>3, <1>4, <1>8 DEF IInv, RegionInv, MemberStep
<1>12. SlotInv'
  <2>1. \A m \in Mask, s \in Slot, q \in Runtime : Holds(q, m, s)' <=> Holds(q, m, s)
    BY <1>1, <1>4, <1>8 DEF Holds, MemberStep
  <2> QED
    BY <1>7, <2>1, SlotKept
<1>13. CountInv'
  <2>1. \A m \in Mask : OpenSet(m)' = OpenSet(m)
    BY <1>1, <1>4, <1>8 DEF OpenSet, MemberStep
  <2>2. CASE act
    <3>1. BindSet(m0)' = BindSet(m0) \union {r} /\ r \notin BindSet(m0)
      BY <1>0, <1>1, <1>2, <1>4, <1>8, <2>2 DEF BindSet, MemberStep
    <3>2. \A m \in Mask : m # m0 => BindSet(m)' = BindSet(m)
      BY <1>0, <1>1, <1>4, <1>8 DEF BindSet, MemberStep
    <3> QED
      BY <1>2, <1>6, <2>1, <2>2, <3>1, <3>2, CountUp
  <2>3. CASE ~act
    <3>1. \A m \in Mask : BindSet(m)' = BindSet(m)
      BY <1>1, <1>4, <1>8, <2>3 DEF BindSet, MemberStep
    <3> QED
      BY <1>7, <2>1, <2>3, <3>1, CountKept
  <2> QED
    BY <2>2, <2>3
<1> QED
  BY <1>9, <1>10, <1>11, <1>12, <1>13 DEF IInv

\* The workers are bound.
LEMMA BeginBoundStep ==
    ASSUME IInv, NEW r \in Runtime, BeginBound(r)
    PROVE  IInv'
<1> USE RuntimeAssumption
<1>0. PICK m0 : m0 = rt[r].mThreadPool
  OBVIOUS
<1>1. /\ pc[r] = "binding" /\ UNCHANGED <<rt, tid, depth>>
      /\ pool' = [pool EXCEPT ![m0].mActiveCount = @ - 1]
      /\ pc' = [pc EXCEPT ![r] = "idle"]
  BY <1>0 DEF BeginBound
<1>2. m0 \in Mask
  BY <1>0, <1>1 DEF IInv, TypeOK, RegionInv
<1>3. r \in BindSet(m0)
  BY <1>0, <1>1 DEF BindSet
<1>4. pool \in [Mask -> PoolRec] /\ pool[m0].mActiveCount \in Nat
  BY <1>2 DEF IInv, TypeOK, PoolRec
<1>5. pool[m0].mActiveCount - 1 \in Nat
  BY <1>2, <1>3, <1>4, ActivePositive
<1>6. ActiveStep(m0, pool[m0].mActiveCount - 1)
  <2>1. pool' = SetActive(m0, pool[m0].mActiveCount - 1)
    BY <1>1 DEF SetActive
  <2> QED
    BY <1>2, <1>5, <2>1, ActiveCountFacts
<1>7. /\ pc'[r] = "idle" /\ \A q \in Runtime : q # r => pc'[q] = pc[q]
      /\ pc' \in [Runtime -> {"idle", "open", "bind", "binding", "close"}]
  BY <1>1 DEF IInv, TypeOK
<1>8. TypeOK'
  BY <1>1, <1>6, <1>7 DEF IInv, TypeOK, PoolRec, ActiveStep
<1>9. SizeInv'
  BY <1>1, <1>6, SizeKept DEF ActiveStep
<1>10. RegionInv'
  BY <1>1, <1>7 DEF IInv, RegionInv
<1>11. SlotInv'
  <2>1. \A m \in Mask, s \in Slot, q \in Runtime : Holds(q, m, s)' <=> Holds(q, m, s)
    BY <1>1, <1>7 DEF Holds
  <2> QED
    BY <1>6, <2>1, SlotKept DEF ActiveStep
<1>12. CountInv'
  <2>1. \A m \in Mask : OpenSet(m)' = OpenSet(m)
    BY <1>1, <1>7 DEF OpenSet
  <2>2. BindSet(m0)' = BindSet(m0) \ {r}
    BY <1>1, <1>7 DEF BindSet
  <2>3. \A m \in Mask : m # m0 => BindSet(m)' = BindSet(m)
    BY <1>0, <1>1, <1>7 DEF BindSet
  <2> QED
    BY <1>2, <1>3, <1>6, <2>1, <2>2, <2>3, CountDown
<1> QED
  BY <1>8, <1>9, <1>10, <1>11, <1>12 DEF IInv

\* onConcurrencyEnd up to releaseWorkIndex.
LEMMA EndCloseStep ==
    ASSUME IInv, NEW r \in Runtime, EndClose(r)
    PROVE  IInv'
<1> USE RuntimeAssumption
<1> DEFINE m0 == rt[r].mThreadPool
           s0 == rt[r].mTaskIndex
           n0 == IF rt[r].mThreadOpen = 0 THEN 0 ELSE rt[r].mThreadOpen - 1
<1>1. /\ pc[r] = "idle" /\ depth[r] > 0 /\ UNCHANGED tid
      /\ depth' = [depth EXCEPT ![r] = @ - 1]
  BY DEF EndClose, EndCloseAt
<1>2. /\ s0 \in Slot \union {-1} /\ (s0 < 0 <=> s0 = -1)
      /\ s0 # -1 => m0 \in Mask /\ rt[r].mThreadOpen > 0 /\ n0 = rt[r].mThreadOpen - 1
      /\ rt[r].mThreadOpen \in 0 .. MaxDepth /\ n0 \in 0 .. MaxDepth /\ n0 < depth[r]
      /\ rt[r].mCurrentTID \in Tid \union {0}
      /\ depth[r] \in 0 .. MaxDepth
      /\ s0 = -1 => rt[r].mThreadOpen = 0
  BY <1>1 DEF IInv, TypeOK, RegionInv, Slot
<1>3. \/ s0 = -1 /\ UNCHANGED <<pool, rt, pc>>
      \/ s0 # -1 /\ n0 > 0 /\ rt' = [rt EXCEPT ![r].mThreadOpen = n0] /\ UNCHANGED <<pool, pc>>
      \/ /\ s0 # -1 /\ n0 = 0 /\ rt' = [rt EXCEPT ![r].mThreadOpen = n0]
         /\ pool' = [pool EXCEPT ![m0].taken = @ \ {s0}]
         /\ pc' = [pc EXCEPT ![r] = "close"]
  BY <1>2 DEF EndClose, EndCloseAt
<1> HIDE DEF m0, s0, n0
<1>4. /\ depth'[r] = depth[r] - 1 /\ \A q \in Runtime : q # r => depth'[q] = depth[q]
      /\ depth' \in [Runtime -> 0 .. MaxDepth]
  BY <1>1 DEF IInv, TypeOK
<1>5. rt \in [Runtime -> RtRec] /\ pool \in [Mask -> PoolRec]
  BY DEF IInv, TypeOK, RtRec, PoolRec
<1>6. CASE s0 = -1
  <2>1. UNCHANGED <<pool, rt, pc>>
    BY <1>3, <1>6
  <2>2. TypeOK' /\ SizeInv' /\ SlotInv'
    BY <1>1, <1>4, <2>1 DEF IInv, TypeOK, SizeInv, SlotInv, Holds
  <2>3. RegionInv'
    BY <1>1, <1>2, <1>4, <1>6, <2>1 DEF IInv, RegionInv, s0
  <2>4. CountInv'
    BY <2>1 DEF IInv, CountInv, OpenSet, BindSet
  <2> QED
    BY <2>2, <2>3, <2>4 DEF IInv
<1>7. s0 # -1 => MemberStep(r, s0, n0)
  <2>1. s0 # -1 => rt' = SetMembers(r, rt[r].mTaskIndex, n0, rt[r].mCurrentTID)
    BY <1>3, OneMember
  <2> QED
    BY <1>2, <2>1, MemberFacts DEF s0
<1>8. CASE s0 # -1 /\ n0 > 0
  <2>1. UNCHANGED <<pool, pc>> /\ MemberStep(r, s0, n0)
    BY <1>3, <1>7, <1>8
  <2>2. TypeOK'
    BY <1>1, <1>4, <2>1 DEF IInv, TypeOK, MemberStep, RtRec
  <2>3. SizeInv'
    BY <2>1, SizeKept DEF MemberStep
  <2>4. RegionInv'
    BY <1>1, <1>2, <1>4, <1>8, <2>1 DEF IInv, RegionInv, m0, MemberStep
  <2>5. \A m \in Mask, s \in Slot, q \in Runtime : Holds(q, m, s)' <=> Holds(q, m, s)
    BY <2>1 DEF Holds, MemberStep, s0
  <2>6. SlotInv'
    BY <2>1, <2>5, SlotKept
  <2>7. \A m \in Mask : OpenSet(m)' = OpenSet(m) /\ BindSet(m)' = BindSet(m)
    BY <1>2, <1>8, <2>1 DEF OpenSet, BindSet, MemberStep
  <2>8. CountInv'
    BY <2>1, <2>7, CountKept
  <2> QED
    BY <2>2, <2>3, <2>4, <2>6, <2>8 DEF IInv
<1>9. CASE s0 # -1 /\ n0 = 0
  <2>1. /\ MemberStep(r, s0, n0)
        /\ pool' = [pool EXCEPT ![m0].taken = @ \ {s0}]
        /\ pc' = [pc EXCEPT ![r] = "close"]
    BY <1>3, <1>7, <1>9
  <2>2. /\ pool' \in [Mask -> PoolRec]
        /\ \A m \in Mask : /\ pool'[m].mActiveCount = pool[m].mActiveCount
                           /\ pool'[m].numberThread = pool[m].numberThread
                           /\ pool'[m].taken =
                                  IF m = m0 THEN pool[m].taken \ {s0} ELSE pool[m].taken
    <3>1. [pool[m0] EXCEPT !.taken = @ \ {s0}] \in PoolRec /\ pool[m0] \in PoolRec
      BY <1>2, <1>5, <1>9 DEF PoolRec
    <3>2. /\ \A m \in Mask : m # m0 => pool'[m] = pool[m]
          /\ pool'[m0] = [pool[m0] EXCEPT !.taken = @ \ {s0}]
          /\ pool' \in [Mask -> PoolRec]
      BY <1>2, <1>5, <1>9, <2>1, <3>1
    <3> QED
      BY <3>1, <3>2 DEF PoolRec
  <2>3. /\ pc'[r] = "close" /\ \A q \in Runtime : q # r => pc'[q] = pc[q]
        /\ pc' \in [Runtime -> {"idle", "open", "bind", "binding", "close"}]
    BY <2>1 DEF IInv, TypeOK
  <2>4. TypeOK'
    BY <1>1, <1>4, <2>1, <2>2, <2>3 DEF IInv, TypeOK, PoolRec, RtRec, MemberStep
  <2>5. SizeInv'
    BY <2>1, <2>2, SizeKept DEF MemberStep
  <2>6. RegionInv'
    BY <1>1, <1>2, <1>4, <1>9, <2>1, <2>3 DEF IInv, RegionInv, m0, MemberStep
  <2>7. \A m \in Mask, s \in Slot, q \in Runtime :
            Holds(q, m, s)' <=> Holds(q, m, s) /\ q # r
    BY <2>1, <2>3 DEF Holds, MemberStep
  <2>8. Holds(r, m0, s0)
    BY <1>1 DEF Holds, m0, s0
  <2>9. \A m \in Mask, s \in Slot : Holds(r, m, s) => m = m0 /\ s = s0
    BY DEF Holds, m0, s0
  <2>10. SlotInv'
    <3>1. ASSUME NEW m \in Mask, NEW s \in Slot
          PROVE  s \in pool'[m].taken <=> \E q \in Runtime : Holds(q, m, s)'
      <4>1. s \in pool[m].taken <=> \E q \in Runtime : Holds(q, m, s)
        BY DEF IInv, SlotInv
      <4>2. CASE m = m0 /\ s = s0
        <5>1. \A q \in Runtime : Holds(q, m, s) => q = r
          BY <2>8, <4>2 DEF IInv, SlotInv
        <5> QED
          BY <2>2, <2>7, <4>2, <5>1
      <4>3. CASE ~(m = m0 /\ s = s0)
        <5>1. s \in pool'[m].taken <=> s \in pool[m].taken
          BY <2>2, <4>3
        <5> QED
          BY <2>7, <2>9, <4>1, <4>3, <5>1
      <4> QED
        BY <4>2, <4>3
    <3>2. ASSUME NEW m \in Mask, NEW s \in Slot, NEW p \in Runtime, NEW q \in Runtime,
                 Holds(p, m, s)', Holds(q, m, s)'
          PROVE  p = q
      BY <2>7, <3>2 DEF IInv, SlotInv
    <3> QED
      BY <3>1, <3>2 DEF SlotInv
  <2>11. \A m \in Mask : OpenSet(m)' = OpenSet(m) /\ BindSet(m)' = BindSet(m)
    BY <1>1, <1>2, <1>9, <2>1, <2>3 DEF OpenSet, BindSet, MemberStep
  <2>12. CountInv'
    BY <2>2, <2>11, CountKept
  <2> QED
    BY <2>4, <2>5, <2>6, <2>10, <2>12 DEF IInv
<1> QED
  BY <1>2, <1>6, <1>8, <1>9

\* The rest of onConcurrencyEnd: deactive().
LEMMA EndDeactiveStep ==
    ASSUME IInv, NEW r \in Runtime, EndDeactive(r)
    PROVE  IInv'
<1> USE RuntimeAssumption
<1>0. PICK m0 : m0 = rt[r].mThreadPool
  OBVIOUS
<1>1. /\ pc[r] = "close" /\ UNCHANGED <<tid, depth>>
      /\ pool' = [pool EXCEPT ![m0].mActiveCount = @ - 1]
      /\ rt' = [rt EXCEPT ![r].mTaskIndex = -1]
      /\ pc' = [pc EXCEPT ![r] = "idle"]
  BY <1>0 DEF EndDeactive
<1>2. /\ m0 \in Mask /\ rt[r].mThreadOpen = 0 /\ 0 \in 0 .. MaxDepth
      /\ rt[r].mCurrentTID \in Tid \union {0} /\ -1 \in Slot \union {-1}
  BY <1>0, <1>1 DEF IInv, TypeOK, RegionInv
<1>3. r \in OpenSet(m0)
  BY <1>0, <1>1 DEF OpenSet
<1>4. pool \in [Mask -> PoolRec] /\ pool[m0].mActiveCount \in Nat
  BY <1>2 DEF IInv, TypeOK, PoolRec
<1>5. pool[m0].mActiveCount - 1 \in Nat
  BY <1>2, <1>3, <1>4, ActivePositive
<1>6. ActiveStep(m0, pool[m0].mActiveCount - 1)
  <2>1. pool' = SetActive(m0, pool[m0].mActiveCount - 1)
    BY <1>1 DEF SetActive
  <2> QED
    BY <1>2, <1>5, <2>1, ActiveCountFacts
<1>7. MemberStep(r, -1, 0)
  <2>1. rt' = SetMembers(r, -1, 0, rt[r].mCurrentTID)
    BY <1>1, <1>2, OneMember
  <2> QED
    BY <1>2, <2>1, MemberFacts
<1>8. /\ pc'[r] = "idle" /\ \A q \in Runtime : q # r => pc'[q] = pc[q]
      /\ pc' \in [Runtime -> {"idle", "open", "bind", "binding", "close"}]
  BY <1>1 DEF IInv, TypeOK
<1>9. TypeOK'
  BY <1>1, <1>6, <1>7, <1>8 DEF IInv, TypeOK, PoolRec, RtRec, ActiveStep, MemberStep
<1>10. SizeInv'
  BY <1>6, <1>7, SizeKept DEF ActiveStep, MemberStep
<1>11. RegionInv'
  BY <1>1, <1>7, <1>8 DEF IInv, RegionInv, MemberStep, TypeOK
<1>12. SlotInv'
  <2>1. \A m \in Mask, s \in Slot, q \in Runtime : Holds(q, m, s)' <=> Holds(q, m, s)
    BY <1>1, <1>7, <1>8 DEF Holds, MemberStep, Slot
  <2> QED
    BY <1>6, <2>1, SlotKept DEF ActiveStep
<1>13. CountInv'
  <2>1. \A m \in Mask : BindSet(m)' = BindSet(m)
    BY <1>1, <1>7, <1>8 DEF BindSet, MemberStep
  <2>2. OpenSet(m0)' = OpenSet(m0) \ {r}
    BY <1>1, <1>7, <1>8 DEF OpenSet, MemberStep
  <2>3. \A m \in Mask : m # m0 => OpenSet(m)' = OpenSet(m)
    BY <1>0, <1>1, <1>7, <1>8 DEF OpenSet, MemberStep
  <2> QED
    BY <1>2, <1>3, <1>6, <2>1, <2>2, <2>3, CountDown
<1> QED
  BY <1>9, <1>10, <1>11, <1>12, <1>13 DEF IInv

\* Every step preserves it.
LEMMA NextIInv == IInv /\ [Next]_vars => IInv'
<1> SUFFICES ASSUME IInv, [Next]_vars PROVE IInv'
  OBVIOUS
<1>1. ASSUME NEW r \in Runtime, NEW n \in NumThreads, NEW mask \in Mask, OnReset(r, n, mask)
      PROVE  IInv'
  <2>1. n \in Int
    BY RuntimeAssumption
  <2> QED
    BY <1>1, <2>1, ResetStep DEF OnReset
<1>2. ASSUME NEW r \in Runtime, NEW mask \in Mask, OnCreate(r, mask) PROVE IInv'
  <2>1. rt[r].mThreadNumber \in Int
    BY DEF IInv, TypeOK
  <2> QED
    BY <1>2, <2>1, ResetStep DEF OnCreate
<1>3. CASE UNCHANGED vars
  BY <1>3 DEF vars, IInv, TypeOK, SizeInv, RegionInv, SlotInv, CountInv, Holds, OpenSet, BindSet
<1> QED
  BY <1>1, <1>2, <1>3, BeginAcquireStep, BeginOpenStep, BeginBindStep, BeginBoundStep,
     EndCloseStep, EndDeactiveStep DEF Next

-----------------------------------------------------------------------------
(* The theorems.                                                           *)

\* A slot is taken by one runtime or by none, and mActiveCount is the number of
\* runtimes in a region or binding workers.
LEMMA IInvAccounts == IInv => PoolsAccounted
<1> SUFFICES ASSUME IInv, NEW m \in Mask
             PROVE  LET here == {r \in Runtime : rt[r].mThreadPool = m}
                        open == {r \in here : rt[r].mThreadOpen > 0 \/ pc[r] = "close"}
                    IN  /\ \A s \in Slot : Cardinality({r \in here : Holds(r, m, s)}) =
                                                IF s \in pool[m].taken THEN 1 ELSE 0
                        /\ pool[m].mActiveCount =
                               Cardinality(open) + Cardinality({r \in here : pc[r] = "binding"})
  BY DEF PoolsAccounted
<1> DEFINE here == {r \in Runtime : rt[r].mThreadPool = m}
<1>1. /\ {r \in here : rt[r].mThreadOpen > 0 \/ pc[r] = "close"} = OpenSet(m)
      /\ {r \in here : pc[r] = "binding"} = BindSet(m)
  BY DEF OpenSet, BindSet
<1>2. pool[m].mActiveCount = Cardinality(OpenSet(m)) + Cardinality(BindSet(m))
  BY DEF IInv, CountInv
<1>3. ASSUME NEW s \in Slot
      PROVE  Cardinality({r \in here : Holds(r, m, s)}) = IF s \in pool[m].taken THEN 1 ELSE 0
  <2>1. {r \in here : Holds(r, m, s)} = {r \in Runtime : Holds(r, m, s)}
    BY DEF Holds
  <2>2. CASE s \in pool[m].taken
    <3>1. PICK r \in Runtime : Holds(r, m, s)
      BY <2>2 DEF IInv, SlotInv
    <3>2. {q \in Runtime : Holds(q, m, s)} = {r}
      BY <3>1 DEF IInv, SlotInv
    <3> QED
      BY <2>1, <2>2, <3>2, FS_Singleton
  <2>3. CASE s \notin pool[m].taken
    <3>1. {q \in Runtime : Holds(q, m, s)} = {}
      BY <2>3 DEF IInv, SlotInv
    <3> QED
      BY <2>1, <2>3, <3>1, FS_EmptySet
  <2> QED
    BY <2>2, <2>3
<1> QED
  BY <1>1, <1>2, <1>3

\* A runtime between its calls keeps the client protocol of ThreadPool.
LEMMA IInvProtocol == IInv => RegionProtocol
<1> SUFFICES ASSUME IInv, NEW r \in Runtime, pc[r] = "idle"
             PROVE  /\ depth[r] = 0 => rt[r].mTaskIndex = -1
                    /\ rt[r].mTaskIndex >= 0 => /\ rt[r].mThreadOpen \in 1 .. depth[r]
                                                /\ pool[rt[r].mThreadPool].mActiveCount > 0
  BY DEF RegionProtocol
<1> USE RuntimeAssumption
<1>1. /\ rt[r].mThreadOpen \in Nat /\ depth[r] \in Nat /\ rt[r].mThreadOpen <= depth[r]
      /\ rt[r].mTaskIndex # -1 => rt[r].mThreadOpen > 0 /\ rt[r].mThreadPool \in Mask
  BY DEF IInv, TypeOK, RegionInv
<1>2. rt[r].mTaskIndex # -1 => r \in OpenSet(rt[r].mThreadPool)
  BY <1>1 DEF OpenSet
<1>3. rt[r].mTaskIndex # -1 => pool[rt[r].mThreadPool].mActiveCount > 0
  BY <1>1, <1>2, ActivePositive
<1> QED
  BY <1>1, <1>3

\* Pools have at most MAX_THREAD_NUMBER threads, runtimes have slots that exist, and
\* deactive() never takes mActiveCount below zero, whatever the runtimes do.
THEOREM TypeCorrect == Spec => []TypeOK
<1>1. IInv => TypeOK
  BY DEF IInv
<1> QED
  BY <1>1, InitIInv, NextIInv, PTL DEF Spec

\* acquireWorkIndex and releaseWorkIndex, active and deactive balance for any number
\* of runtimes that share pools and any nesting of their regions.
THEOREM Accounted == Spec => []PoolsAccounted
BY IInvAccounts, InitIInv, NextIInv, PTL DEF Spec

\* onConcurrencyBegin and onConcurrencyEnd keep the protocol ThreadPool needs: a slot
\* only inside a region, and an active pool with every slot.
THEOREM ProtocolKept == Spec => []RegionProtocol
BY IInvProtocol, InitIInv, NextIInv, PTL DEF Spec

\* The thread number a runtime tells its operators is one its pool can serve, also
\* when another runtime made the pool smaller.
THEOREM NumberFits == Spec => []ThreadNumberFits
<1>1. IInv => ThreadNumberFits
  BY DEF IInv, SizeInv, ThreadNumberFits
<1> QED
  BY <1>1, InitIInv, NextIInv, PTL DEF Spec

-----------------------------------------------------------------------------
(* WorkerThread, the other user of threads, for every number of workers,   *)
(* posters and tasks.                                                      *)

NoDup(s) == \A i, j \in DOMAIN s : s[i] = s[j] => i = j
Items(s) == {s[i] : i \in DOMAIN s}
Held == {t \in Task : \E w \in Worker : t \in hand[w]}

\* A task is at one place only, and only posted tasks are anywhere.
PlacesInv ==
    /\ NoDup(mTasks) /\ NoDup(done)
    /\ Items(mTasks) \intersect Items(done) = {}
    /\ \A w \in Worker : hand[w] \intersect (Items(mTasks) \union Items(done)) = {}
    /\ \A v, w \in Worker : v # w => hand[v] \intersect hand[w] = {}
    /\ posted = Items(mTasks) \union Items(done) \union Held

\* A worker holds one task while it runs, and none otherwise.
HandInv ==
    \A w \in Worker : IF wpc[w] = "run" THEN \E t \in Task : hand[w] = {t} ELSE hand[w] = {}

\* The destructor drains after the workers are gone, and ends with nothing left.
DestroyInv ==
    /\ dpc \in {"drain", "destroyed"} => \A w \in Worker : wpc[w] = "exited"
    /\ dpc = "destroyed" => mTasks = << >>

\* TasksTypeOK without the sizes of the sets, which HandInv gives.
TasksTypeInv ==
    /\ mTasks \in Seq(Task) /\ mStop \in BOOLEAN
    /\ wpc \in [Worker -> {"loop", "lock", "asleep", "run", "exited"}]
    /\ hand \in [Worker -> SUBSET Task]
    /\ ppc \in [Poster -> {"idle", "notify"}]
    /\ dpc \in {"alive", "notify", "join", "drain", "destroyed"}
    /\ posted \subseteq Task /\ done \in Seq(Task)

TaskInv == TasksTypeInv /\ HandInv /\ PlacesInv /\ DestroyInv

-----------------------------------------------------------------------------
(* Facts about sequences.                                                  *)

\* Append puts one item more at the end.
LEMMA AppendFacts ==
    ASSUME NEW S, NEW s \in Seq(S), NEW x \in S
    PROVE  /\ Append(s, x) \in Seq(S)
           /\ Items(Append(s, x)) = Items(s) \union {x}
           /\ NoDup(s) /\ x \notin Items(s) => NoDup(Append(s, x))
<1>1. /\ Append(s, x) \in Seq(S) /\ Len(s) \in Nat
      /\ Len(Append(s, x)) = Len(s) + 1
      /\ \A i \in 1 .. Len(s) : Append(s, x)[i] = s[i]
      /\ Append(s, x)[Len(s) + 1] = x
  OBVIOUS
<1>2. DOMAIN s = 1 .. Len(s) /\ DOMAIN Append(s, x) = 1 .. Len(s) + 1
  BY <1>1
<1>3. Items(Append(s, x)) = Items(s) \union {x}
  BY <1>1, <1>2 DEF Items
<1>4. ASSUME NoDup(s), x \notin Items(s) PROVE NoDup(Append(s, x))
  <2> SUFFICES ASSUME NEW i \in 1 .. Len(s) + 1, NEW j \in 1 .. Len(s) + 1,
                      Append(s, x)[i] = Append(s, x)[j]
               PROVE  i = j
    BY <1>2 DEF NoDup
  <2>1. \A k \in 1 .. Len(s) : s[k] # x
    BY <1>2, <1>4 DEF Items
  <2> QED
    BY <1>1, <1>2, <1>4, <2>1 DEF NoDup
<1> QED
  BY <1>1, <1>3, <1>4

\* Tail takes the front item away; in a sequence without repetition it is gone.
LEMMA TailFacts ==
    ASSUME NEW S, NEW s \in Seq(S), s # << >>
    PROVE  /\ Tail(s) \in Seq(S) /\ Head(s) \in S /\ Head(s) \in Items(s)
           /\ Items(s) = Items(Tail(s)) \union {Head(s)}
           /\ NoDup(s) => NoDup(Tail(s)) /\ Head(s) \notin Items(Tail(s))
<1>1. /\ Tail(s) \in Seq(S) /\ Head(s) \in S /\ Len(s) \in Nat /\ Len(s) > 0
      /\ Head(s) = s[1] /\ Len(Tail(s)) = Len(s) - 1
      /\ \A i \in 1 .. Len(s) - 1 : Tail(s)[i] = s[i + 1]
  OBVIOUS
<1>2. DOMAIN s = 1 .. Len(s) /\ DOMAIN Tail(s) = 1 .. Len(s) - 1
  BY <1>1
<1>3. Items(s) = Items(Tail(s)) \union {Head(s)}
  <2>1. \A i \in DOMAIN s : i = 1 \/ (i - 1 \in 1 .. Len(s) - 1 /\ s[i] = Tail(s)[i - 1])
    BY <1>1, <1>2
  <2>2. \A i \in DOMAIN Tail(s) : i + 1 \in DOMAIN s /\ Tail(s)[i] = s[i + 1]
    BY <1>1, <1>2
  <2>3. Items(s) \subseteq Items(Tail(s)) \union {Head(s)}
    <3> SUFFICES ASSUME NEW i \in DOMAIN s
                 PROVE  s[i] = Head(s) \/ \E j \in DOMAIN Tail(s) : s[i] = Tail(s)[j]
      BY DEF Items
    <3> QED
      BY <1>1, <1>2, <2>1
  <2>4. Items(Tail(s)) \subseteq Items(s)
    BY <2>2 DEF Items
  <2>5. Head(s) \in Items(s)
    BY <1>1, <1>2 DEF Items
  <2> QED
    BY <2>3, <2>4, <2>5
<1>4. ASSUME NoDup(s) PROVE NoDup(Tail(s)) /\ Head(s) \notin Items(Tail(s))
  <2>1. \A i \in DOMAIN Tail(s) : i + 1 \in DOMAIN s /\ 1 \in DOMAIN s /\ i + 1 # 1
    BY <1>1, <1>2
  <2>2. NoDup(Tail(s))
    <3> SUFFICES ASSUME NEW i \in DOMAIN Tail(s), NEW j \in DOMAIN Tail(s),
                        Tail(s)[i] = Tail(s)[j]
                 PROVE  i = j
      BY DEF NoDup
    <3>1. s[i + 1] = s[j + 1]
      BY <1>1, <1>2
    <3>2. i + 1 = j + 1
      BY <1>4, <2>1, <3>1 DEF NoDup
    <3> QED
      BY <1>2, <3>2
  <2>3. Head(s) \notin Items(Tail(s))
    BY <1>1, <1>2, <1>4, <2>1 DEF NoDup, Items
  <2> QED
    BY <2>2, <2>3
<1> QED
  BY <1>1, <1>3, <1>4

\* An empty sequence has no items.
LEMMA EmptyFacts == Items(<< >>) = {} /\ NoDup(<< >>) /\ \A S : << >> \in Seq(S)
BY DEF Items, NoDup

\* The task in a worker's hand, as the sequence that is appended to done.
LEMMA SetToSeqOfOne ==
    ASSUME NEW x
    PROVE  SetToSeq({x}) = <<x>>
<1>1. Cardinality({x}) = 1
  BY FS_Singleton
<1>2. \A f : f \in [1 .. 1 -> {x}] <=> f = <<x>>
  OBVIOUS
<1>3. IsInjective(<<x>>)
  BY DEF IsInjective
<1> QED
  BY <1>1, <1>2, <1>3 DEF SetToSeq

\* How often an item occurs in a sequence without repetition.
LEMMA OccurrenceCount ==
    ASSUME NEW s, NoDup(s), NEW t
    PROVE  Cardinality({i \in DOMAIN s : s[i] = t}) = IF t \in Items(s) THEN 1 ELSE 0
<1>1. CASE t \in Items(s)
  <2>1. PICK i \in DOMAIN s : s[i] = t
    BY <1>1 DEF Items
  <2>2. {j \in DOMAIN s : s[j] = t} = {i}
    BY <2>1 DEF NoDup
  <2> QED
    BY <1>1, <2>2, FS_Singleton
<1>2. CASE t \notin Items(s)
  <2>1. {j \in DOMAIN s : s[j] = t} = {}
    BY <1>2 DEF Items
  <2> QED
    BY <1>2, <2>1, FS_EmptySet
<1> QED
  BY <1>1, <1>2

-----------------------------------------------------------------------------
(* The inductive invariant.                                                *)

\* It holds before anything is posted.
LEMMA InitTaskInv == TasksInit => TaskInv
<1> SUFFICES ASSUME TasksInit PROVE TaskInv
  OBVIOUS
<1>1. Items(mTasks) = {} /\ Items(done) = {} /\ NoDup(mTasks) /\ NoDup(done)
  BY EmptyFacts DEF TasksInit
<1>2. Held = {}
  BY DEF TasksInit, Held
<1>3. PlacesInv
  BY <1>1, <1>2 DEF TasksInit, PlacesInv
<1>4. TasksTypeInv
  BY EmptyFacts DEF TasksInit, TasksTypeInv
<1>5. HandInv /\ DestroyInv
  BY DEF TasksInit, HandInv, DestroyInv
<1> QED
  BY <1>3, <1>4, <1>5 DEF TaskInv

\* A poster hands over a task nobody has handed over before.
LEMMA PostStep ==
    ASSUME TaskInv, NEW p \in Poster, NEW t \in Task, Post(p, t)
    PROVE  TaskInv'
<1> USE DEF TaskInv, TasksTypeInv, HandInv, PlacesInv, DestroyInv, Held
<1>1. mTasks' \in Seq(Task) /\ Items(mTasks') = Items(mTasks) \union {t}
  BY AppendFacts DEF Post
<1>2. t \notin Items(mTasks) \union Items(done) \union Held
  BY DEF Post
<1>3. NoDup(mTasks')
  BY <1>2, AppendFacts DEF Post
<1>4. TasksTypeInv' /\ HandInv' /\ DestroyInv'
  BY <1>1 DEF Post
<1>5. PlacesInv'
  BY <1>1, <1>2, <1>3 DEF Post
<1> QED
  BY <1>4, <1>5

\* A worker takes the front task in one critical section.
LEMMA TakeStep ==
    ASSUME TaskInv, NEW w \in Worker, Take(w)
    PROVE  TaskInv'
<1> USE DEF TaskInv, TasksTypeInv, HandInv, PlacesInv, DestroyInv, Held
<1>1. CASE mTasks = << >>
  <2>1. /\ wpc[w] = "lock" /\ \E c \in {"asleep", "loop"} : wpc' = [wpc EXCEPT ![w] = c]
        /\ UNCHANGED <<mTasks, hand, mStop, ppc, dpc, posted, done>>
    BY <1>1 DEF Take, TakeFrom
  <2>2. TasksTypeInv' /\ HandInv' /\ DestroyInv'
    BY <2>1
  <2>3. PlacesInv'
    BY <2>1
  <2> QED
    BY <2>2, <2>3
<1>2. CASE mTasks # << >>
  <2> DEFINE t == Head(mTasks)
  <2>1. /\ mTasks' = Tail(mTasks) /\ hand' = [hand EXCEPT ![w] = {t}]
        /\ wpc' = [wpc EXCEPT ![w] = "run"] /\ wpc[w] = "lock"
        /\ UNCHANGED <<mStop, ppc, dpc, posted, done>>
    BY <1>2 DEF Take, TakeFrom
  <2>2. /\ mTasks' \in Seq(Task) /\ t \in Task
        /\ Items(mTasks) = Items(mTasks') \union {t} /\ t \notin Items(mTasks')
        /\ NoDup(mTasks')
    BY <1>2, <2>1, TailFacts
  <2>3. TasksTypeInv' /\ HandInv'
    BY <2>1, <2>2
  <2>4. DestroyInv'
    BY <1>2, <2>1
  <2>5. hand[w] = {}
    BY <2>1
  <2>6. Held' = Held \union {t}
    BY <2>1, <2>2, <2>5
  <2>7. t \notin Items(done) /\ \A v \in Worker : t \notin hand[v]
    BY <2>2
  <2>8. \A v \in Worker : hand'[v] = IF v = w THEN {t} ELSE hand[v]
    BY <2>1
  <2> HIDE DEF t
  <2>9. PlacesInv'
    BY <2>1, <2>2, <2>5, <2>6, <2>7, <2>8
  <2> QED
    BY <2>3, <2>4, <2>9
<1> QED
  BY <1>1, <1>2

\* A worker ends the task in its hand.
LEMMA RunStep ==
    ASSUME TaskInv, NEW w \in Worker, Run(w)
    PROVE  TaskInv'
<1> USE DEF TaskInv, TasksTypeInv, HandInv, PlacesInv, DestroyInv, Held
<1>1. PICK t \in Task : hand[w] = {t}
  BY DEF Run, RunLeaving
<1>2. done \o <<t>> = Append(done, t)
  OBVIOUS
<1>3. /\ done' = Append(done, t) /\ hand' = [hand EXCEPT ![w] = {}]
      /\ wpc' = [wpc EXCEPT ![w] = "loop"] /\ wpc[w] = "run"
      /\ UNCHANGED <<mTasks, mStop, ppc, dpc, posted>>
  BY <1>1, <1>2, SetToSeqOfOne DEF Run, RunLeaving
<1>4. t \notin Items(done) /\ t \notin Items(mTasks) /\ \A v \in Worker : v # w => t \notin hand[v]
  BY <1>1
<1>5. done' \in Seq(Task) /\ Items(done') = Items(done) \union {t} /\ NoDup(done')
  BY <1>3, <1>4, AppendFacts
<1>6. TasksTypeInv' /\ HandInv' /\ DestroyInv'
  BY <1>3, <1>5
<1>7. \A v \in Worker : hand'[v] = IF v = w THEN {} ELSE hand[v]
  BY <1>3
<1>8. Held = Held' \union {t}
  BY <1>1, <1>7
<1>9. PlacesInv'
  BY <1>1, <1>3, <1>4, <1>5, <1>7, <1>8
<1> QED
  BY <1>6, <1>9

\* The destructor runs what the workers left.
LEMMA DrainStep ==
    ASSUME TaskInv, Drain
    PROVE  TaskInv'
<1> USE DEF TaskInv, TasksTypeInv, HandInv, PlacesInv, DestroyInv, Held
<1>1. CASE mTasks = << >>
  BY <1>1 DEF Drain, DrainWhile
<1>2. CASE mTasks # << >>
  <2> DEFINE t == Head(mTasks)
  <2>1. /\ mTasks' = Tail(mTasks) /\ done' = Append(done, t) /\ dpc = "drain"
        /\ UNCHANGED <<mStop, wpc, hand, ppc, dpc, posted>>
    BY <1>2 DEF Drain, DrainWhile
  <2>2. /\ mTasks' \in Seq(Task) /\ t \in Task
        /\ Items(mTasks) = Items(mTasks') \union {t} /\ t \notin Items(mTasks')
        /\ NoDup(mTasks')
    BY <1>2, <2>1, TailFacts
  <2>3. t \notin Items(done) /\ \A v \in Worker : t \notin hand[v]
    BY <2>2
  <2>4. done' \in Seq(Task) /\ Items(done') = Items(done) \union {t} /\ NoDup(done')
    BY <2>1, <2>2, <2>3, AppendFacts
  <2> HIDE DEF t
  <2>5. TasksTypeInv' /\ HandInv' /\ DestroyInv'
    BY <2>1, <2>2, <2>4
  <2>6. PlacesInv'
    BY <2>1, <2>2, <2>3, <2>4
  <2> QED
    BY <2>5, <2>6
<1> QED
  BY <1>1, <1>2

\* Every step preserves it.
LEMMA NextTaskInv == TaskInv /\ [TasksNext]_taskVars => TaskInv'
<1> SUFFICES ASSUME TaskInv, [TasksNext]_taskVars PROVE TaskInv'
  OBVIOUS
<1>1. ASSUME NEW p \in Poster, PostNotify(p) PROVE TaskInv'
  BY <1>1 DEF TaskInv, TasksTypeInv, HandInv, PlacesInv, Held, DestroyInv, PostNotify, NotifyAll
<1>2. ASSUME NEW w \in Worker, Loop(w) \/ SpuriousWake(w) PROVE TaskInv'
  <2>1. /\ wpc[w] \in {"loop", "asleep"}
        /\ \E c \in {"exited", "lock"} : wpc' = [wpc EXCEPT ![w] = c]
        /\ UNCHANGED <<mTasks, mStop, hand, ppc, dpc, posted, done>>
    BY <1>2 DEF Loop, SpuriousWake
  <2>2. TasksTypeInv' /\ HandInv' /\ DestroyInv'
    BY <2>1 DEF TaskInv, TasksTypeInv, HandInv, DestroyInv
  <2>3. PlacesInv'
    BY <2>1 DEF TaskInv, PlacesInv, Held
  <2> QED
    BY <2>2, <2>3 DEF TaskInv
<1>3. CASE DestroyStop \/ DestroyNotify \/ DestroyJoin
  BY <1>3 DEF TaskInv, TasksTypeInv, HandInv, PlacesInv, Held, DestroyInv, DestroyStop, DestroyNotify,
              DestroyJoin, NotifyAll
<1>4. CASE UNCHANGED taskVars
  BY <1>4 DEF TaskInv, TasksTypeInv, HandInv, PlacesInv, Held, DestroyInv, taskVars
<1> QED
  BY <1>1, <1>2, <1>3, <1>4, PostStep, TakeStep, RunStep, DrainStep DEF TasksNext

\* The inductive invariant gives the two invariants of the run.
LEMMA TaskInvImplies == TaskInv => TasksTypeOK /\ RunsOnce
<1> SUFFICES ASSUME TaskInv PROVE TasksTypeOK /\ RunsOnce
  OBVIOUS
<1>1. TasksTypeOK
  <2>1. \A w \in Worker : Cardinality(hand[w]) = IF wpc[w] = "run" THEN 1 ELSE 0
    BY FS_Singleton, FS_EmptySet DEF TaskInv, HandInv
  <2> QED
    BY <2>1 DEF TaskInv, TasksTypeInv, TasksTypeOK
<1>2. ASSUME NEW t \in posted
      PROVE  LET at(s) == Cardinality({i \in DOMAIN s : s[i] = t})
                 holders == Cardinality({w \in Worker : t \in hand[w]})
             IN  /\ at(mTasks) + holders + at(done) = 1
                 /\ dpc = "destroyed" => at(done) = 1
  <2> DEFINE H == {w \in Worker : t \in hand[w]}
  <2>1. Cardinality(H) = IF t \in Held THEN 1 ELSE 0
    <3>1. CASE t \in Held
      <4>1. PICK w \in Worker : t \in hand[w]
        BY <3>1 DEF Held
      <4>2. H = {w}
        BY <4>1 DEF TaskInv, PlacesInv
      <4> QED
        BY <3>1, <4>2, FS_Singleton
    <3>2. CASE t \notin Held
      <4>1. H = {}
        BY <3>2 DEF TaskInv, TasksTypeInv, PlacesInv, Held
      <4> QED
        BY <3>2, <4>1, FS_EmptySet
    <3> QED
      BY <3>1, <3>2
  <2>2. /\ Cardinality({i \in DOMAIN mTasks : mTasks[i] = t}) = IF t \in Items(mTasks) THEN 1 ELSE 0
        /\ Cardinality({i \in DOMAIN done : done[i] = t}) = IF t \in Items(done) THEN 1 ELSE 0
    BY OccurrenceCount DEF TaskInv, PlacesInv
  <2>3. \/ t \in Items(mTasks) /\ t \notin Items(done) /\ t \notin Held
        \/ t \notin Items(mTasks) /\ t \in Items(done) /\ t \notin Held
        \/ t \notin Items(mTasks) /\ t \notin Items(done) /\ t \in Held
    BY DEF TaskInv, PlacesInv, Held
  <2>4. dpc = "destroyed" => t \in Items(done)
    BY <2>3, EmptyFacts DEF TaskInv, DestroyInv, HandInv, Held
  <2> QED
    BY <2>1, <2>2, <2>3, <2>4
<1> QED
  BY <1>1, <1>2 DEF RunsOnce

-----------------------------------------------------------------------------
(* The theorems.                                                           *)

\* Workers hold a task exactly while they run one, whatever the interleaving of
\* posters, workers and the destructor of WorkerThread.
THEOREM TasksTyped == TasksSpec => []TasksTypeOK
BY InitTaskInv, NextTaskInv, TaskInvImplies, PTL DEF TasksSpec

\* Every task given to postTask is waiting, in the hands of one worker or done, at
\* exactly one of these places, and done once ~WorkerThread has returned.
THEOREM TasksRunOnce == TasksSpec => []RunsOnce
BY InitTaskInv, NextTaskInv, TaskInvImplies, PTL DEF TasksSpec

=============================================================================
