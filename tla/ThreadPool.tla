----------------------------- MODULE ThreadPool -----------------------------
(***************************************************************************)
(* The CPU thread pool (source/backend/cpu/ThreadPool.cpp).                *)
(*                                                                         *)
(* A pool of mNumberThread threads serves the CPU runtimes of a process.   *)
(* Thread 0 is always the caller of enqueue; threads 1..mNumberThread-1    *)
(* are workers that spin over MAX_TASKS task slots while some client is    *)
(* active and sleep on a condition variable otherwise.  A client takes a   *)
(* slot (acquireWorkIndex), publishes a task in it by raising one atomic   *)
(* flag per worker, runs its own share, and polls the flags until every    *)
(* worker has lowered its own.                                             *)
(*                                                                         *)
(* Every access to an atomic is a step of its own.  A critical section     *)
(* under mQueueMutex is one step, enabled when the mutex is free, except   *)
(* for the worker's condition-variable wait, which holds the mutex across  *)
(* its check of the predicate.                                             *)
(***************************************************************************)
EXTENDS Integers, FiniteSets

CONSTANTS
    Client,         \* callers of the pool: the CPU runtimes of the process
    NumberThreads,  \* the thread counts a first caller of init may ask for
    MaxTasks,       \* MNN_THREAD_POOL_MAX_TASKS
    WorkSizes,      \* the values of task.second
    MaxWork,        \* an upper bound on WorkSizes
    InactiveClient, \* clients that may enqueue without calling active()
    NoClient        \* the null task pointer, and the free mutex

ASSUME ClientAssumption == IsFiniteSet(Client) /\ NoClient \notin Client
ASSUME MaxTasksAssumption == MaxTasks \in Nat \ {0}
ASSUME NumberThreadsAssumption == NumberThreads \subseteq Nat \ {0}
ASSUME WorkAssumption == MaxWork \in Nat /\ WorkSizes \subseteq 0..MaxWork
ASSUME InactiveAssumption == InactiveClient \subseteq Client

Slot == 0..(MaxTasks - 1)
Work == 0..(MaxWork - 1)
\* Worker ids that some pool may have; a pool of n threads uses 1..n-1.
Worker == UNION {1..(n - 1) : n \in NumberThreads}

VARIABLES
    gInstance,      \* the entry of gInstances: "none", "live", "stopping", "joining"
    mNumberThread,  \* threads of the live pool, the caller's thread included
    mTaskAvailable, \* mTaskAvailable[s]: slot s is not taken
    mTasksFirst,    \* mTasks[s].first: whose task the slot points to
    mTasksSecond,   \* mTasks[s].second[t]: worker t has a share to run in slot s
    mActiveCount,
    mStop,
    mQueueMutex,    \* the worker inside condition_variable::wait, or NoClient
    pcW, slotW,     \* program counter and loop variable of each worker
    pcC, k,         \* program counter and loop variable of each client
    mTaskIndex,     \* the slot each client holds, or -1
    activated,      \* the client called active() and not yet deactive()
    work,           \* task.second of the client's current task
    ran             \* history: how often each index of that task has run

poolVars   == <<gInstance, mNumberThread>>
slotVars   == <<mTaskAvailable, mTasksFirst, mTasksSecond>>
countVars  == <<mActiveCount, mStop>>
workerVars == <<mQueueMutex, pcW, slotW>>
clientVars == <<pcC, k, mTaskIndex, activated, work, ran>>
vars == <<poolVars, slotVars, countVars, workerVars, clientVars>>

NeverRan == [v \in Work |-> 0]

\* The worker threads of a pool with n threads.
Threads(n) == 1..(n - 1)

-----------------------------------------------------------------------------
(* The thread that runs index v of a task: thread v itself, or, when the   *)
(* task is wider than the pool and is wrapped in tmpTask, the thread whose *)
(* strided loop meets v.                                                   *)
Runner(c, v) == IF work[c] > mNumberThread THEN v % mNumberThread ELSE v

\* The indices that the call mTasks[s].first->first(t) runs.
Share(c, t) == {v \in Work : v < work[c] /\ Runner(c, v) = t}

RunShare(c, t) ==
    ran' = [ran EXCEPT ![c] = [v \in Work |->
                IF v \in Share(c, t) THEN @[v] + 1 ELSE @[v]]]

\* workSize after the cut to the number of threads.
WorkSize(c) == IF work[c] > mNumberThread THEN mNumberThread ELSE work[c]

-----------------------------------------------------------------------------
(* Pool creation and destruction.                                          *)

\* ThreadPool::init, first call for the cpu mask: a pool of n threads.  A
\* later call finds the entry and changes nothing.
Create(n) ==
    /\ gInstance = "none"
    /\ gInstance' = "live"
    /\ mNumberThread' = n
    /\ mTaskAvailable' = [s \in Slot |-> TRUE]
    /\ mTasksFirst' = [s \in Slot |-> NoClient]
    /\ mTasksSecond' = [s \in Slot |-> [t \in Worker |-> FALSE]]
    /\ mActiveCount' = 0
    /\ mStop' = FALSE
    /\ mQueueMutex' = NoClient
    /\ pcW' = [t \in Worker |-> IF t \in Threads(n) THEN "outer" ELSE "exit"]
    /\ slotW' = [t \in Worker |-> 0]
    /\ UNCHANGED clientVars

\* ThreadPool::destroy.  Its callers have finished with the pool.
DestroyStop ==
    /\ gInstance = "live"
    /\ \A c \in Client : pcC[c] = "ready" /\ mTaskIndex[c] = -1 /\ ~activated[c]
    /\ mQueueMutex = NoClient
    /\ mStop' = TRUE
    /\ gInstance' = "stopping"
    /\ UNCHANGED <<mNumberThread, slotVars, mActiveCount, workerVars, clientVars>>

\* mCondition.notify_all: sleepers go back to acquiring the mutex.
Wake == pcW' = [t \in Worker |-> IF pcW[t] = "asleep" THEN "lock" ELSE pcW[t]]

DestroyNotify ==
    /\ gInstance = "stopping"
    /\ gInstance' = "joining"
    /\ Wake
    /\ UNCHANGED <<mNumberThread, slotVars, countVars, mQueueMutex, slotW, clientVars>>

\* worker.join() of every worker, then the pool is deleted.
DestroyJoin ==
    /\ gInstance = "joining"
    /\ \A t \in Worker : pcW[t] = "exit"
    /\ gInstance' = "none"
    /\ UNCHANGED <<mNumberThread, slotVars, countVars, workerVars, clientVars>>

-----------------------------------------------------------------------------
(* Calls of a client.                                                      *)

Ready(c) == gInstance = "live" /\ pcC[c] = "ready"

\* acquireWorkIndex(): the first available slot is taken; when there is none
\* the call answers full.
AcquireAnswering(c, taken, full) ==
    /\ Ready(c) /\ mTaskIndex[c] = -1 /\ ~activated[c]
    /\ mQueueMutex = NoClient
    /\ \/ \E s \in Slot :
            /\ mTaskAvailable[s]
            /\ \A r \in Slot : r < s => ~mTaskAvailable[r]
            /\ mTaskAvailable' = [mTaskAvailable EXCEPT ![s] = ~taken]
            /\ mTaskIndex' = [mTaskIndex EXCEPT ![c] = s]
       \/ /\ \A s \in Slot : ~mTaskAvailable[s]
          /\ mTaskIndex' = [mTaskIndex EXCEPT ![c] = full]
          /\ UNCHANGED mTaskAvailable
    /\ UNCHANGED <<poolVars, mTasksFirst, mTasksSecond, countVars, workerVars,
                   pcC, k, activated, work, ran>>

\* Mutants: the slot is not marked; the loop variable is returned at the end.
AcquireUnmarked(c) == AcquireAnswering(c, FALSE, -1)
AcquireOffEnd(c) == AcquireAnswering(c, TRUE, MaxTasks)
AcquireWorkIndex(c) == AcquireAnswering(c, TRUE, -1)

\* releaseWorkIndex(index)
ReleaseWorkIndex(c) ==
    /\ Ready(c) /\ mTaskIndex[c] # -1
    /\ mQueueMutex = NoClient
    /\ mTaskAvailable' = [mTaskAvailable EXCEPT ![mTaskIndex[c]] = TRUE]
    /\ mTaskIndex' = [mTaskIndex EXCEPT ![c] = -1]
    /\ UNCHANGED <<poolVars, mTasksFirst, mTasksSecond, countVars, workerVars,
                   pcC, k, activated, work, ran>>

\* active(): the count is raised under the mutex, the notification follows.
Active(c) ==
    /\ Ready(c) /\ ~activated[c]
    /\ mQueueMutex = NoClient
    /\ mActiveCount' = mActiveCount + 1
    /\ activated' = [activated EXCEPT ![c] = TRUE]
    /\ pcC' = [pcC EXCEPT ![c] = "notify"]
    /\ UNCHANGED <<poolVars, slotVars, mStop, workerVars, k, mTaskIndex, work, ran>>

\* Mutant: the notification is forgotten.
ActiveNotifyLost(c) ==
    /\ pcC[c] = "notify"
    /\ pcC' = [pcC EXCEPT ![c] = "ready"]
    /\ UNCHANGED <<poolVars, slotVars, countVars, workerVars,
                   k, mTaskIndex, activated, work, ran>>

ActiveNotify(c) ==
    /\ pcC[c] = "notify"
    /\ Wake
    /\ pcC' = [pcC EXCEPT ![c] = "ready"]
    /\ UNCHANGED <<poolVars, slotVars, countVars, mQueueMutex, slotW,
                   k, mTaskIndex, activated, work, ran>>

\* deactive(): the count is lowered without the mutex.
DeactiveTo(c, n) ==
    /\ Ready(c) /\ activated[c]
    /\ mActiveCount' = n
    /\ activated' = [activated EXCEPT ![c] = FALSE]
    /\ UNCHANGED <<poolVars, slotVars, mStop, workerVars, pcC, k, mTaskIndex, work, ran>>

\* Mutant: the count is a flag that the last caller clears for everyone.
DeactiveAll(c) == DeactiveTo(c, 0)
Deactive(c) == DeactiveTo(c, mActiveCount - 1)

\* enqueue(task, index): too small a task, or no slot, runs in the caller.
Enqueue(c, w) ==
    /\ Ready(c)
    /\ activated[c] \/ mTaskIndex[c] = -1 \/ c \in InactiveClient
    /\ work' = [work EXCEPT ![c] = w]
    /\ pcC' = [pcC EXCEPT ![c] = IF 1 >= w \/ 0 > mTaskIndex[c]
                                 THEN "serial" ELSE "internal"]
    /\ UNCHANGED <<poolVars, slotVars, countVars, workerVars, k, mTaskIndex, activated, ran>>

\* The loop that runs every index of the task in the caller's thread.
RunSerial(c) ==
    /\ pcC[c] = "serial"
    /\ ran' = [ran EXCEPT ![c] = [v \in Work |-> IF v < work[c] THEN @[v] + 1 ELSE @[v]]]
    /\ pcC' = [pcC EXCEPT ![c] = "join"]
    /\ UNCHANGED <<poolVars, slotVars, countVars, workerVars, k, mTaskIndex, activated, work>>

\* enqueueInternal, up to the store of the task pointer.
EnqueueInternal(c) ==
    /\ pcC[c] = "internal"
    /\ \/ /\ mActiveCount = 0
          /\ pcC' = [pcC EXCEPT ![c] = "serial"]
          /\ UNCHANGED <<mTasksFirst, k>>
       \/ /\ mActiveCount # 0
          /\ mTasksFirst' = [mTasksFirst EXCEPT ![mTaskIndex[c]] = c]
          /\ k' = [k EXCEPT ![c] = 1]
          /\ pcC' = [pcC EXCEPT ![c] = "publish"]
    /\ UNCHANGED <<poolVars, mTaskAvailable, mTasksSecond, countVars, workerVars,
                   mTaskIndex, activated, work, ran>>

\* One turn of the loop that raises the flags of workers 1..n-1.
PublishBelow(c, n) ==
    /\ pcC[c] = "publish"
    /\ \/ /\ k[c] < n
          /\ mTasksSecond' = [mTasksSecond EXCEPT ![mTaskIndex[c]][k[c]] = TRUE]
          /\ k' = [k EXCEPT ![c] = @ + 1]
          /\ UNCHANGED pcC
       \/ /\ k[c] >= n
          /\ pcC' = [pcC EXCEPT ![c] = "zero"]
          /\ UNCHANGED <<mTasksSecond, k>>
    /\ UNCHANGED <<poolVars, mTaskAvailable, mTasksFirst, countVars, workerVars,
                   mTaskIndex, activated, work, ran>>

\* Mutant: the last worker's flag is never raised.
PublishSkipsLast(c) == PublishBelow(c, WorkSize(c) - 1)
Publish(c) == PublishBelow(c, WorkSize(c))

\* The caller's own share.
RunZero(c) ==
    /\ pcC[c] = "zero"
    /\ RunShare(c, 0)
    /\ k' = [k EXCEPT ![c] = 1]
    /\ pcC' = [pcC EXCEPT ![c] = "poll"]
    /\ UNCHANGED <<poolVars, slotVars, countVars, workerVars, mTaskIndex, activated, work>>

\* One read of a flag in the polling loop; a raised flag sets the scan back to
\* worker again.
PollAgainFrom(c, again) ==
    /\ pcC[c] = "poll"
    /\ \/ /\ k[c] < WorkSize(c)
          /\ k' = [k EXCEPT ![c] = IF mTasksSecond[mTaskIndex[c]][k[c]] THEN again ELSE @ + 1]
          /\ UNCHANGED pcC
       \/ /\ k[c] >= WorkSize(c)
          /\ pcC' = [pcC EXCEPT ![c] = "join"]
          /\ UNCHANGED k
    /\ UNCHANGED <<poolVars, slotVars, countVars, workerVars, mTaskIndex, activated, work, ran>>

\* Mutant: complete is not reset, a raised flag is passed over.
PollPassesOver(c) == PollAgainFrom(c, k[c] + 1)
Poll(c) == PollAgainFrom(c, 1)

\* delete tmpTask and return: the task object is gone.
Return(c) ==
    /\ pcC[c] = "join"
    /\ pcC' = [pcC EXCEPT ![c] = "ready"]
    /\ work' = [work EXCEPT ![c] = 0]
    /\ ran' = [ran EXCEPT ![c] = NeverRan]
    /\ k' = [k EXCEPT ![c] = 0]
    /\ UNCHANGED <<poolVars, slotVars, countVars, workerVars, mTaskIndex, activated>>

-----------------------------------------------------------------------------
(* A worker thread.                                                        *)

GoTo(t, label) == pcW' = [pcW EXCEPT ![t] = label]

\* while (!mStop)
WorkerOuter(t) ==
    /\ pcW[t] = "outer"
    /\ GoTo(t, IF mStop THEN "exit" ELSE "inner")
    /\ UNCHANGED <<poolVars, slotVars, countVars, mQueueMutex, slotW, clientVars>>

\* while (mActiveCount > 0)
WorkerInner(t) ==
    /\ pcW[t] = "inner"
    /\ GoTo(t, IF mActiveCount > 0 THEN "scan" ELSE "lock")
    /\ slotW' = [slotW EXCEPT ![t] = 0]
    /\ UNCHANGED <<poolVars, slotVars, countVars, mQueueMutex, clientVars>>

\* The scan moves to the next slot, or ends.
NextSlot(t) ==
    /\ slotW' = [slotW EXCEPT ![t] = IF @ + 1 < MaxTasks THEN @ + 1 ELSE 0]
    /\ GoTo(t, IF slotW[t] + 1 < MaxTasks THEN "scan" ELSE "inner")

\* Mutant: the flag is lowered when the task is taken, not when it is done.
WorkerScanLowers(t) ==
    /\ pcW[t] = "scan"
    /\ \/ /\ mTasksSecond[slotW[t]][t]
          /\ mTasksSecond' = [mTasksSecond EXCEPT ![slotW[t]][t] = FALSE]
          /\ GoTo(t, "run")
          /\ UNCHANGED slotW
       \/ /\ ~mTasksSecond[slotW[t]][t]
          /\ NextSlot(t)
          /\ UNCHANGED mTasksSecond
    /\ UNCHANGED <<poolVars, mTaskAvailable, mTasksFirst, countVars, mQueueMutex, clientVars>>

\* if (*mTasks[i].second[threadIndex])
WorkerScan(t) ==
    /\ pcW[t] = "scan"
    /\ \/ /\ mTasksSecond[slotW[t]][t]
          /\ GoTo(t, "run")
          /\ UNCHANGED slotW
       \/ /\ ~mTasksSecond[slotW[t]][t]
          /\ NextSlot(t)
    /\ UNCHANGED <<poolVars, slotVars, countVars, mQueueMutex, clientVars>>

WorkerRun(t) ==
    /\ pcW[t] = "run"
    /\ RunShare(mTasksFirst[slotW[t]], t)
    /\ GoTo(t, "clear")
    /\ UNCHANGED <<poolVars, slotVars, countVars, mQueueMutex, slotW,
                   pcC, k, mTaskIndex, activated, work>>

WorkerClear(t) ==
    /\ pcW[t] = "clear"
    /\ mTasksSecond' = [mTasksSecond EXCEPT ![slotW[t]][t] = FALSE]
    /\ NextSlot(t)
    /\ UNCHANGED <<poolVars, mTaskAvailable, mTasksFirst, countVars, mQueueMutex, clientVars>>

WorkerLock(t) ==
    /\ pcW[t] = "lock"
    /\ mQueueMutex = NoClient
    /\ mQueueMutex' = t
    /\ GoTo(t, "check")
    /\ UNCHANGED <<poolVars, slotVars, countVars, slotW, clientVars>>

\* The predicate of mCondition.wait: leave the wait, or sleep on it.
CheckPredicate(t, wake) ==
    /\ pcW[t] = "check"
    /\ GoTo(t, IF wake THEN "outer" ELSE "asleep")
    /\ mQueueMutex' = NoClient
    /\ UNCHANGED <<poolVars, slotVars, countVars, slotW, clientVars>>

\* Mutant: the predicate forgets mStop.
WorkerCheckIgnoresStop(t) == CheckPredicate(t, mActiveCount > 0)
WorkerCheck(t) == CheckPredicate(t, mStop \/ mActiveCount > 0)

\* A condition variable may wake without a notification.
SpuriousWake(t) ==
    /\ pcW[t] = "asleep"
    /\ GoTo(t, "lock")
    /\ UNCHANGED <<poolVars, slotVars, countVars, mQueueMutex, slotW, clientVars>>

-----------------------------------------------------------------------------
Init ==
    /\ gInstance = "none"
    /\ mNumberThread = 1
    /\ mTaskAvailable = [s \in Slot |-> TRUE]
    /\ mTasksFirst = [s \in Slot |-> NoClient]
    /\ mTasksSecond = [s \in Slot |-> [t \in Worker |-> FALSE]]
    /\ mActiveCount = 0
    /\ mStop = FALSE
    /\ mQueueMutex = NoClient
    /\ pcW = [t \in Worker |-> "exit"]
    /\ slotW = [t \in Worker |-> 0]
    /\ pcC = [c \in Client |-> "ready"]
    /\ k = [c \in Client |-> 0]
    /\ mTaskIndex = [c \in Client |-> -1]
    /\ activated = [c \in Client |-> FALSE]
    /\ work = [c \in Client |-> 0]
    /\ ran = [c \in Client |-> NeverRan]

\* The steps a client takes on its own once a call has begun.
ClientStep(c) ==
    \/ ActiveNotify(c) \/ RunSerial(c) \/ EnqueueInternal(c) \/ Publish(c)
    \/ RunZero(c) \/ Poll(c) \/ Return(c)

\* The calls a client may make or not.
ClientCall(c) ==
    \/ AcquireWorkIndex(c) \/ ReleaseWorkIndex(c) \/ Active(c) \/ Deactive(c)
    \/ \E w \in WorkSizes : Enqueue(c, w)

WorkerStep(t) ==
    \/ WorkerOuter(t) \/ WorkerInner(t) \/ WorkerScan(t) \/ WorkerRun(t)
    \/ WorkerClear(t) \/ WorkerLock(t) \/ WorkerCheck(t)

Next ==
    \/ \E n \in NumberThreads : Create(n)
    \/ DestroyStop \/ DestroyNotify \/ DestroyJoin
    \/ \E c \in Client : ClientStep(c) \/ ClientCall(c)
    \/ \E t \in Worker : WorkerStep(t) \/ SpuriousWake(t)

Spec == Init /\ [][Next]_vars

\* A thread that can take a step eventually does; no call is ever owed.
Fairness ==
    /\ WF_vars(DestroyNotify) /\ WF_vars(DestroyJoin)
    /\ \A c \in Client : WF_vars(ClientStep(c))
    /\ \A t \in Worker : WF_vars(WorkerStep(t))

FairSpec == Spec /\ Fairness

-----------------------------------------------------------------------------
(* Properties.                                                             *)

\* The members of the pool, and the threads' places in the code, stay in range:
\* no slot index past mTasks, and deactive never below zero.
TypeOK ==
    /\ gInstance \in {"none", "live", "stopping", "joining"}
    /\ mNumberThread \in NumberThreads \cup {1}
    /\ mTaskAvailable \in [Slot -> BOOLEAN]
    /\ mTasksFirst \in [Slot -> Client \cup {NoClient}]
    /\ mTasksSecond \in [Slot -> [Worker -> BOOLEAN]]
    /\ mActiveCount \in Nat
    /\ mStop \in BOOLEAN
    /\ mQueueMutex \in Worker \cup {NoClient}
    /\ pcW \in [Worker -> {"outer", "inner", "scan", "run", "clear",
                           "lock", "check", "asleep", "exit"}]
    /\ slotW \in [Worker -> Slot]
    /\ pcC \in [Client -> {"ready", "notify", "serial", "internal",
                           "publish", "zero", "poll", "join"}]
    /\ k \in [Client -> Nat]
    /\ mTaskIndex \in [Client -> Slot \cup {-1}]
    /\ activated \in [Client -> BOOLEAN]
    /\ work \in [Client -> 0..MaxWork]
    /\ ran \in [Client -> [Work -> Nat]]

\* When enqueue returns (pcC = "join", before tmpTask is deleted), every index
\* of the task has run, and none has run twice: the flag protocol of
\* enqueueInternal and the workers is an exactly-once parallel for.
ExactlyOnce ==
    \A c \in Client : pcC[c] = "join" =>
        \A v \in Work : ran[c][v] = (IF v < work[c] THEN 1 ELSE 0)

\* A worker that is about to call, or has just called, mTasks[i].first->first
\* does so on the task of a client that is still inside enqueueInternal for
\* that slot: the task lives on that client's stack (or in tmpTask, deleted on
\* return), so anything else is a use after free.
TaskAlive ==
    \A t \in Worker : pcW[t] \in {"run", "clear"} =>
        \E c \in Client : /\ mTasksFirst[slotW[t]] = c
                          /\ mTaskIndex[c] = slotW[t]
                          /\ pcC[c] \in {"publish", "zero", "poll"}
                          /\ t < WorkSize(c)

\* Two clients never hold the same work index, and a held index is not on offer.
SlotExclusive ==
    \A c \in Client : mTaskIndex[c] # -1 =>
        /\ ~mTaskAvailable[mTaskIndex[c]]
        /\ \A d \in Client \ {c} : mTaskIndex[d] # mTaskIndex[c]

\* A raised flag of a client that called active() before it enqueued, as
\* CPURuntime::onConcurrencyBegin does, keeps mActiveCount above zero and is
\* never left behind by destroy(): no worker can sleep or exit over it.
RaisedFlagKeepsPoolActive ==
    \A s \in Slot : \A t \in Worker :
        mTasksSecond[s][t] /\ mTasksFirst[s] \notin InactiveClient =>
            mActiveCount > 0 /\ ~mStop

\* The pool implements the parallel for that enqueue promises: every index of
\* a task runs exactly once between the call and the return of enqueue, on
\* whichever threads the flags, the slots and the active count select.
Busy == [c \in Client |-> pcC[c] \notin {"ready", "notify"}]
Abstract == INSTANCE ParallelFor WITH busy <- Busy, size <- work, count <- ran
ImplementsParallelFor == Abstract!Spec

\* Every enqueue returns: no worker that owes a share sleeps through it. It is
\* stated of one client, which stands for all of them: the specification and
\* its fairness are symmetric in the clients that call active() first.
EnqueueReturns ==
    LET one == CHOOSE c \in Client \ InactiveClient : TRUE
    IN  pcC[one] = "internal" ~> pcC[one] = "join"

\* destroy() returns: every worker sees mStop and can be joined.
DestroyReturns == gInstance = "stopping" ~> gInstance = "none"

=============================================================================
