----------------------------- MODULE CPURuntime -----------------------------
(***************************************************************************)
(* How CPURuntime (source/backend/cpu/CPUBackend.cpp) uses the thread      *)
(* pools: which pool a runtime takes, and the nested regions               *)
(* onConcurrencyBegin .. onConcurrencyEnd that runSession and              *)
(* RuntimeExecuteWrap put around an execution.  Every call into a pool is  *)
(* a step of its own, so the runtimes interleave between any two of them.  *)
(* The pools are reduced to what the calls change: ThreadPool models what  *)
(* happens inside, and the client protocol it assumes is what this module  *)
(* shows of the callers.                                                   *)
(***************************************************************************)
EXTENDS Integers, FiniteSets

CONSTANTS
    Runtime,    \* the runtimes of the process, each used by one thread at a time
    Mask,       \* cpu masks, 0: the runtime is not bound to cpus
    Tid,        \* thread ids the calls come from
    NumThreads, \* thread numbers users ask for
    MAX_THREAD_NUMBER,
    MNN_THREAD_POOL_MAX_TASKS,
    MaxDepth,   \* bound: nesting of the regions
    NoPool      \* nullptr

ASSUME RuntimeAssumption ==
    /\ IsFiniteSet(Runtime)
    /\ Mask \subseteq Nat
    /\ Tid \subseteq Nat \ {0}
    /\ NumThreads \subseteq Int
    /\ MAX_THREAD_NUMBER \in Nat \ {0}
    /\ MNN_THREAD_POOL_MAX_TASKS \in Nat \ {0}
    /\ MaxDepth \in Nat
    /\ NoPool \notin Mask

VARIABLES
    pool, \* mask -> [numberThread (0: not in gInstances), mActiveCount, taken]
    rt,   \* runtime -> its members: [mThreadPool (a mask or NoPool), mCpuMask,
          \*   mThreadNumber, mTaskIndex, mThreadOpen, mCurrentTID]
    pc,   \* runtime -> the call its thread is in
    tid,  \* runtime -> the thread of that call
    depth \* history: runtime -> regions begun and not ended

vars == <<pool, rt, pc, tid, depth>>

Slot == 0 .. MNN_THREAD_POOL_MAX_TASKS - 1

Init ==
    /\ pool = [m \in Mask |-> [numberThread |-> 0, mActiveCount |-> 0, taken |-> {}]]
    /\ rt \in [Runtime -> [mThreadPool : {NoPool}, mCpuMask : {0},
                           mThreadNumber : NumThreads, mTaskIndex : {-1},
                           mThreadOpen : {0}, mCurrentTID : {0}]]
    /\ pc = [r \in Runtime |-> "idle"]
    /\ tid = [r \in Runtime |-> 0]
    /\ depth = [r \in Runtime |-> 0]

-----------------------------------------------------------------------------

\* Mutant: the upper limit is forgotten.
ClampBelow(n) == IF n < 1 THEN 1 ELSE n

Clamp(n) == IF n < 1 THEN 1 ELSE IF n > MAX_THREAD_NUMBER THEN MAX_THREAD_NUMBER ELSE n

\* ThreadPool::init answers the size of the pool when it is smaller than asked.
InitAnswersAsked(number, asked) == asked  \* Mutant: it answers what was asked.

InitAnswer(number, asked) == IF number < asked THEN number ELSE asked

\* _resetThreadPool after mCpuMask became mask and mThreadNumber n: ThreadPool::init
\* makes the pool of that mask unless it exists.
ResetThreadPool(r, n, mask) ==
    LET asked  == Clamp(n)
        number == IF pool[mask].numberThread = 0 THEN asked ELSE pool[mask].numberThread
        needed == asked > 1
    IN  /\ pool' = IF needed THEN [pool EXCEPT ![mask].numberThread = number] ELSE pool
        /\ rt' = [rt EXCEPT ![r] = [@ EXCEPT
               !.mCpuMask = mask,
               !.mThreadPool = IF needed THEN mask ELSE rt[r].mThreadPool,
               !.mThreadNumber = IF needed THEN InitAnswer(number, asked) ELSE asked,
               !.mCurrentTID = 0]]

\* onReset: the user's new configuration, between two executions.
OnReset(r, n, mask) ==
    /\ pc[r] = "idle" /\ depth[r] = 0
    /\ ResetThreadPool(r, n, mask)
    /\ UNCHANGED <<pc, tid, depth>>

\* onCreate: a session is created, also inside a region (a module's forward).
\* The cpu ids of the hint only change between executions, and the change has
\* reached the runtime before the next region begins.
OnCreate(r, mask) ==
    /\ pc[r] = "idle"
    /\ depth[r] = 0 \/ mask = rt[r].mCpuMask
    /\ ResetThreadPool(r, rt[r].mThreadNumber, mask)
    /\ UNCHANGED <<pc, tid, depth>>

-----------------------------------------------------------------------------
(* onConcurrencyBegin *)

\* acquireWorkIndex: some free slot (the first one), or -1.
FirstFree(m) ==
    LET free == Slot \ pool[m].taken
    IN  IF free = {} THEN -1 ELSE CHOOSE s \in free : \A u \in free : s <= u

BeginAcquireIf(r, t, needed) ==
    LET m == rt[r].mThreadPool
        s == IF needed /\ m # NoPool THEN FirstFree(m) ELSE rt[r].mTaskIndex
    IN  /\ pc[r] = "idle" /\ depth[r] < MaxDepth
        /\ rt' = [rt EXCEPT ![r].mTaskIndex = s]
        /\ pool' = IF needed /\ m # NoPool /\ s >= 0
                   THEN [pool EXCEPT ![m].taken = @ \union {s}] ELSE pool
        /\ depth' = [depth EXCEPT ![r] = @ + 1]
        /\ tid' = [tid EXCEPT ![r] = t]
        /\ pc' = [pc EXCEPT ![r] = IF s >= 0 THEN "open" ELSE "bind"]

\* Mutant: a nested region takes a slot of its own.
BeginAcquireAgain(r, t) == BeginAcquireIf(r, t, TRUE)

BeginAcquire(r, t) == BeginAcquireIf(r, t, rt[r].mTaskIndex < 0)

\* mThreadOpen 0 -> 1 activates the pool.
BeginOpen(r) ==
    /\ pc[r] = "open"
    /\ rt' = [rt EXCEPT ![r].mThreadOpen = @ + 1]
    /\ pool' = IF rt[r].mThreadOpen = 0
               THEN [pool EXCEPT ![rt[r].mThreadPool].mActiveCount = @ + 1] ELSE pool
    /\ pc' = [pc EXCEPT ![r] = "bind"]
    /\ UNCHANGED <<tid, depth>>

\* _bindCPUCore: the first call from a thread binds the workers, with the
\* pool active for as long as the task runs.
BeginBind(r) ==
    LET needed == rt[r].mCpuMask # 0 /\ tid[r] # rt[r].mCurrentTID
        m == rt[r].mThreadPool
    IN  /\ pc[r] = "bind"
        /\ rt' = [rt EXCEPT ![r].mCurrentTID = IF needed THEN tid[r] ELSE @]
        /\ \/ /\ needed /\ m # NoPool
              /\ pool' = [pool EXCEPT ![m].mActiveCount = @ + 1]
              /\ pc' = [pc EXCEPT ![r] = "binding"]
           \/ /\ ~needed \/ m = NoPool
              /\ pc' = [pc EXCEPT ![r] = "idle"]
              /\ UNCHANGED pool
        /\ UNCHANGED <<tid, depth>>

BeginBound(r) ==
    /\ pc[r] = "binding"
    /\ pool' = [pool EXCEPT ![rt[r].mThreadPool].mActiveCount = @ - 1]
    /\ pc' = [pc EXCEPT ![r] = "idle"]
    /\ UNCHANGED <<rt, tid, depth>>

-----------------------------------------------------------------------------
(* onConcurrencyEnd *)

\* The last end of a runtime that holds a slot gives the slot back ...
EndCloseAt(r, last) ==
    LET m == rt[r].mThreadPool
        s == rt[r].mTaskIndex
        n == IF rt[r].mThreadOpen = 0 THEN 0 ELSE rt[r].mThreadOpen - 1
    IN  /\ pc[r] = "idle" /\ depth[r] > 0
        /\ depth' = [depth EXCEPT ![r] = @ - 1]
        /\ \/ s < 0 /\ UNCHANGED <<pool, rt, pc>>
           \/ /\ s >= 0 /\ n > last
              /\ rt' = [rt EXCEPT ![r].mThreadOpen = n]
              /\ UNCHANGED <<pool, pc>>
           \/ /\ s >= 0 /\ n <= last
              /\ rt' = [rt EXCEPT ![r].mThreadOpen = n]
              /\ pool' = [pool EXCEPT ![m].taken = @ \ {s}]
              /\ pc' = [pc EXCEPT ![r] = "close"]
        /\ UNCHANGED tid

\* Mutant: the slot is given back while one region is still open.
EndCloseEarly(r) == EndCloseAt(r, 1)

EndClose(r) == EndCloseAt(r, 0)

\* ... and then deactivates the pool.
EndDeactive(r) ==
    /\ pc[r] = "close"
    /\ pool' = [pool EXCEPT ![rt[r].mThreadPool].mActiveCount = @ - 1]
    /\ rt' = [rt EXCEPT ![r].mTaskIndex = -1]
    /\ pc' = [pc EXCEPT ![r] = "idle"]
    /\ UNCHANGED <<tid, depth>>

Next ==
    \E r \in Runtime :
        \/ \E n \in NumThreads, mask \in Mask : OnReset(r, n, mask)
        \/ \E mask \in Mask : OnCreate(r, mask)
        \/ \E t \in Tid : BeginAcquire(r, t)
        \/ BeginOpen(r) \/ BeginBind(r) \/ BeginBound(r)
        \/ EndClose(r) \/ EndDeactive(r)

Spec == Init /\ [][Next]_vars

-----------------------------------------------------------------------------

\* A pool never has more than MAX_THREAD_NUMBER threads nor a runtime a slot
\* that does not exist, and deactive() never takes mActiveCount below zero.
TypeOK ==
    /\ pool \in [Mask -> [numberThread : 0 .. MAX_THREAD_NUMBER,
                          mActiveCount : Nat, taken : SUBSET Slot]]
    /\ rt \in [Runtime -> [mThreadPool : Mask \union {NoPool}, mCpuMask : Mask \union {0},
                           mThreadNumber : Int, mTaskIndex : Slot \union {-1},
                           mThreadOpen : 0 .. MaxDepth, mCurrentTID : Tid \union {0}]]
    /\ pc \in [Runtime -> {"idle", "open", "bind", "binding", "close"}]
    /\ tid \in [Runtime -> Tid \union {0}]
    /\ depth \in [Runtime -> 0 .. MaxDepth]

\* Runtime r holds slot s of the pool of mask m.
Holds(r, m, s) == /\ rt[r].mThreadPool = m /\ rt[r].mTaskIndex = s
                  /\ pc[r] # "close"

\* acquire and release, active and deactive balance, however regions nest and
\* runtimes change pools. A slot is taken exactly while one runtime holds it, so
\* that no two enqueue into one slot and none is lost; the count of a pool is
\* the number of runtimes with an open region there plus those binding its
\* workers, so that the workers sleep when no runtime is in a region.
PoolsAccounted ==
    \A m \in Mask :
        LET here == {r \in Runtime : rt[r].mThreadPool = m}
            open == {r \in here : rt[r].mThreadOpen > 0 \/ pc[r] = "close"}
        IN  /\ \A s \in Slot : Cardinality({r \in here : Holds(r, m, s)}) =
                                   IF s \in pool[m].taken THEN 1 ELSE 0
            /\ pool[m].mActiveCount =
                   Cardinality(open) + Cardinality({r \in here : pc[r] = "binding"})

\* The client protocol of ThreadPool: between its calls a runtime has a slot
\* only inside a region, and then its pool is active.
RegionProtocol ==
    \A r \in Runtime : pc[r] = "idle" =>
        /\ depth[r] = 0 => rt[r].mTaskIndex = -1
        /\ rt[r].mTaskIndex >= 0 => /\ rt[r].mThreadOpen \in 1 .. depth[r]
                                    /\ pool[rt[r].mThreadPool].mActiveCount > 0

\* The thread number operators size their per-thread buffers with is never
\* more than the pool has threads, although the first runtime of a mask fixed
\* the size of the pool for all.
ThreadNumberFits ==
    \A r \in Runtime :
        (rt[r].mThreadPool # NoPool /\ rt[r].mThreadNumber > 1) =>
            rt[r].mThreadNumber <= pool[rt[r].mThreadPool].numberThread

=============================================================================
