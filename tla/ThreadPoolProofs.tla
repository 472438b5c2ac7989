-------------------------- MODULE ThreadPoolProofs --------------------------
(***************************************************************************)
(* Proofs about ThreadPool, for every number of clients, threads, slots    *)
(* and task sizes.                                                         *)
(***************************************************************************)
EXTENDS ThreadPool, FiniteSetTheorems, TLAPS

\* The client has published, or is publishing, its task in its slot.
InFlight(c) == pcC[c] \in {"publish", "zero", "poll"}

\* Thread t has run its share of c's task.
Done(c, t) ==
    IF t = 0 THEN pcC[c] = "poll"
    ELSE /\ pcC[c] = "publish" => t < k[c]
         /\ mTasksSecond[mTaskIndex[c]][t] => pcW[t] = "clear" /\ slotW[t] = mTaskIndex[c]

\* The pool is only destroyed, and its size only changes, between uses.
PoolInv ==
    /\ gInstance # "live" => \A c \in Client : pcC[c] = "ready" /\ mTaskIndex[c] = -1 /\ ~activated[c]
    /\ mStop => gInstance # "live"

CountInv == mActiveCount = Cardinality({c \in Client : activated[c]})

\* What a client inside enqueue holds.
ClientOK(c) ==
    /\ pcC[c] \in {"internal", "publish", "zero", "poll"} =>
          /\ mTaskIndex[c] # -1
          /\ work[c] > 1
          /\ c \notin InactiveClient => activated[c]
    /\ InFlight(c) => mTasksFirst[mTaskIndex[c]] = c
    /\ pcC[c] \in {"publish", "poll"} => k[c] >= 1

ClientInv == \A c \in Client : ClientOK(c)

\* Client c still has to see worker t's flag in slot s lowered.
Waits(c, s, t) ==
    /\ InFlight(c)
    /\ mTaskIndex[c] = s
    /\ t < WorkSize(c)
    /\ pcC[c] = "publish" => t < k[c]
    /\ pcC[c] = "poll" => t >= k[c]

\* Behind every raised flag there is a client that waits for it.
FlagInv ==
    \A s \in Slot : \A t \in Worker :
        mTasksSecond[s][t] => \E c \in Client : Waits(c, s, t)

\* A worker only runs a share whose flag is still raised.
WorkerInv ==
    \A t \in Worker : pcW[t] \in {"run", "clear"} => mTasksSecond[slotW[t]][t]

\* How often each index has run, in every phase of enqueue.
RanOK(c) ==
    /\ pcC[c] \in {"ready", "notify", "serial", "internal"} => ran[c] = NeverRan
    /\ InFlight(c) => \A v \in Work :
          ran[c][v] = IF v < work[c] /\ Done(c, Runner(c, v)) THEN 1 ELSE 0
    /\ pcC[c] = "join" => \A v \in Work :
          ran[c][v] = IF v < work[c] THEN 1 ELSE 0

RanInv == \A c \in Client : RanOK(c)

IInv ==
    /\ TypeOK
    /\ PoolInv
    /\ CountInv
    /\ SlotExclusive
    /\ ClientInv
    /\ FlagInv
    /\ WorkerInv
    /\ RanInv

-----------------------------------------------------------------------------
(* Facts about the operators.                                              *)

\* Worker ids are the positive numbers below some thread count.
LEMMA WorkerIds == \A t \in Worker : t \in Nat /\ t >= 1
BY NumberThreadsAssumption DEF Worker

\* Thread counts and task sizes are natural numbers.
LEMMA SizesAreNat ==
    ASSUME TypeOK
    PROVE  mNumberThread \in Nat /\ mNumberThread >= 1 /\ \A c \in Client : work[c] \in Nat
<1>1. mNumberThread \in Nat /\ mNumberThread >= 1
  BY NumberThreadsAssumption DEF TypeOK
<1>2. \A c \in Client : work[c] \in Nat
  BY WorkAssumption DEF TypeOK
<1> QED
  BY <1>1, <1>2

\* The loops of enqueueInternal only index flags that exist.
LEMMA FlagExists ==
    ASSUME TypeOK, NEW c \in Client, NEW i \in Nat, i >= 1, i < WorkSize(c)
    PROVE  i \in Worker
<1>1. mNumberThread \in Nat /\ work[c] \in Nat
  BY SizesAreNat
<1>2. i < mNumberThread
  BY <1>1 DEF WorkSize
<1>3. mNumberThread \in NumberThreads
  BY <1>1, <1>2 DEF TypeOK
<1>4. i \in 1..(mNumberThread - 1)
  BY <1>1, <1>2
<1> QED
  BY <1>3, <1>4 DEF Worker

\* Every index of a task belongs to a thread that the task reaches.
LEMMA RunnerInRange ==
    ASSUME TypeOK, NEW c \in Client, NEW v \in Work, v < work[c]
    PROVE  Runner(c, v) \in Nat /\ Runner(c, v) < WorkSize(c)
<1>1. mNumberThread \in Nat /\ mNumberThread >= 1 /\ work[c] \in Nat /\ v \in Nat
  BY SizesAreNat, WorkAssumption DEF Work
<1>2. v % mNumberThread \in 0..(mNumberThread - 1)
  BY <1>1
<1> QED
  BY <1>1, <1>2 DEF Runner, WorkSize

\* A store to one flag changes that flag only.
LEMMA StoreFlag ==
    ASSUME NEW f \in [Slot -> [Worker -> BOOLEAN]], NEW a \in Slot, NEW b, NEW x \in BOOLEAN,
           NEW g, g = [f EXCEPT ![a][b] = x], NEW s \in Slot, NEW t \in Worker
    PROVE  g[s][t] = IF s = a /\ t = b THEN x ELSE f[s][t]
OBVIOUS

-----------------------------------------------------------------------------
(* The inductive invariant holds initially.                                *)

\* The inductive invariant holds before any pool exists.
LEMMA InitIInv == Init => IInv
<1> SUFFICES ASSUME Init PROVE IInv
  OBVIOUS
<1>1. TypeOK
  <2>1. 0 \in Slot /\ 0 \in 0..MaxWork
    BY MaxTasksAssumption, WorkAssumption DEF Slot
  <2>2. NeverRan \in [Work -> Nat]
    BY DEF NeverRan
  <2> QED
    BY <2>1, <2>2 DEF Init, TypeOK
<1>2. CountInv
  <2>1. {c \in Client : activated[c]} = {}
    BY DEF Init
  <2> QED
    BY <2>1, FS_EmptySet DEF Init, CountInv
<1>3. PoolInv /\ SlotExclusive /\ ClientInv /\ FlagInv /\ WorkerInv /\ RanInv
  BY DEF Init, PoolInv, SlotExclusive, ClientInv, FlagInv, WorkerInv, RanInv, RanOK, ClientOK, InFlight
<1> QED
  BY <1>1, <1>2, <1>3 DEF IInv

-----------------------------------------------------------------------------
(* Every step preserves it, one conjunct at a time.                        *)

\* Type correctness is preserved; deactive needs CountInv to stay in Nat.
LEMMA TypeStep == IInv /\ [Next]_vars => TypeOK'
<1> SUFFICES ASSUME IInv, [Next]_vars PROVE TypeOK'
  OBVIOUS
<1> USE DEF TypeOK, poolVars, slotVars, countVars, workerVars, clientVars
<1>0. TypeOK /\ CountInv /\ FlagInv /\ WorkerInv /\ ClientInv
  BY DEF IInv
<1>s. 0 \in Slot /\ 0 \in 0..MaxWork /\ WorkSizes \subseteq 0..MaxWork
  BY MaxTasksAssumption, WorkAssumption DEF Slot
<1>n. NeverRan \in [Work -> Nat]
  BY DEF NeverRan
<1>1. ASSUME NEW n \in NumberThreads, Create(n) PROVE TypeOK'
  BY <1>0, <1>1, <1>s DEF Create
<1>2. CASE DestroyStop \/ DestroyNotify \/ DestroyJoin
  BY <1>0, <1>2 DEF DestroyStop, DestroyNotify, DestroyJoin, Wake
<1>3. ASSUME NEW c \in Client, AcquireWorkIndex(c) \/ ReleaseWorkIndex(c) PROVE TypeOK'
  <2>1. mTaskAvailable' \in [Slot -> BOOLEAN]
    BY <1>0, <1>3 DEF AcquireWorkIndex, AcquireAnswering, ReleaseWorkIndex
  <2>2. mTaskIndex' \in [Client -> Slot \cup {-1}]
    BY <1>0, <1>3 DEF AcquireWorkIndex, AcquireAnswering, ReleaseWorkIndex
  <2> QED
    BY <1>0, <1>3, <2>1, <2>2 DEF AcquireWorkIndex, AcquireAnswering, ReleaseWorkIndex
<1>4. ASSUME NEW c \in Client, Active(c) \/ ActiveNotify(c) PROVE TypeOK'
  <2>1. activated' \in [Client -> BOOLEAN]
    BY <1>0, <1>4 DEF Active, ActiveNotify
  <2>2. mActiveCount' \in Nat
    BY <1>0, <1>4 DEF Active, ActiveNotify
  <2> QED
    BY <1>0, <1>4, <2>1, <2>2 DEF Active, ActiveNotify, Wake
<1>5. ASSUME NEW c \in Client, Deactive(c) PROVE TypeOK'
  <2>1. mActiveCount - 1 \in Nat
    <3>1. IsFiniteSet({d \in Client : activated[d]}) /\ c \in {d \in Client : activated[d]}
      BY <1>5, ClientAssumption, FS_Subset DEF Deactive, DeactiveTo
    <3>2. Cardinality({d \in Client : activated[d]}) \in Nat
          /\ Cardinality({d \in Client : activated[d]}) # 0
      BY <3>1, FS_CardinalityType, FS_EmptySet
    <3> QED
      BY <1>0, <3>2 DEF CountInv
  <2> QED
    BY <1>0, <1>5, <2>1 DEF Deactive, DeactiveTo
<1>6. ASSUME NEW c \in Client, NEW w \in WorkSizes, Enqueue(c, w) PROVE TypeOK'
  BY <1>0, <1>6, <1>s DEF Enqueue
<1>7. ASSUME NEW c \in Client, RunSerial(c) PROVE TypeOK'
  <2>1. ran' \in [Client -> [Work -> Nat]]
    BY <1>0, <1>7 DEF RunSerial
  <2> QED
    BY <1>0, <1>7, <2>1 DEF RunSerial
<1>8. ASSUME NEW c \in Client, EnqueueInternal(c) \/ Publish(c) \/ Poll(c) PROVE TypeOK'
  <2>1. CASE EnqueueInternal(c)
    <3>1. mTasksFirst' \in [Slot -> Client \cup {NoClient}]
      BY <1>0, <2>1 DEF EnqueueInternal
    <3>2. k' \in [Client -> Nat]
      BY <1>0, <2>1 DEF EnqueueInternal
    <3> QED
      BY <1>0, <2>1, <3>1, <3>2 DEF EnqueueInternal
  <2>2. CASE Publish(c)
    <3>1. mTasksSecond' \in [Slot -> [Worker -> BOOLEAN]]
      <4>1. CASE UNCHANGED mTasksSecond
        BY <1>0, <4>1
      <4>2. CASE mTasksSecond' = [mTasksSecond EXCEPT ![mTaskIndex[c]][k[c]] = TRUE]
        BY <1>0, <4>2
      <4> QED
        BY <2>2, <4>1, <4>2 DEF Publish, PublishBelow
    <3>2. k' \in [Client -> Nat]
      BY <1>0, <2>2 DEF Publish, PublishBelow
    <3> QED
      BY <1>0, <2>2, <3>1, <3>2 DEF Publish, PublishBelow
  <2>3. CASE Poll(c)
    <3>1. k' \in [Client -> Nat]
      <4>1. (IF mTasksSecond[mTaskIndex[c]][k[c]] THEN 1 ELSE k[c] + 1) \in Nat
        BY <1>0
      <4> QED
        BY <1>0, <2>3, <4>1 DEF Poll, PollAgainFrom
    <3> QED
      BY <1>0, <2>3, <3>1 DEF Poll, PollAgainFrom
  <2> QED
    BY <1>8, <2>1, <2>2, <2>3
<1>9. ASSUME NEW c \in Client, RunZero(c) PROVE TypeOK'
  <2>1. ran' \in [Client -> [Work -> Nat]]
    BY <1>0, <1>9 DEF RunZero, RunShare
  <2> QED
    BY <1>0, <1>9, <2>1 DEF RunZero
<1>10. ASSUME NEW c \in Client, Return(c) PROVE TypeOK'
  BY <1>0, <1>10, <1>s, <1>n DEF Return
<1>11. ASSUME NEW t \in Worker, WorkerOuter(t) \/ WorkerInner(t) \/ WorkerLock(t)
                                \/ WorkerCheck(t) \/ SpuriousWake(t) PROVE TypeOK'
  BY <1>0, <1>11, <1>s DEF WorkerOuter, WorkerInner, WorkerLock, WorkerCheck, CheckPredicate, SpuriousWake, GoTo
<1>12. ASSUME NEW t \in Worker, WorkerScan(t) \/ WorkerClear(t) PROVE TypeOK'
  <2>1. \A s \in Slot : s + 1 < MaxTasks => s + 1 \in Slot
    BY MaxTasksAssumption DEF Slot
  <2>2. slotW' \in [Worker -> Slot]
    BY <1>0, <1>12, <1>s, <2>1 DEF WorkerScan, WorkerClear, NextSlot
  <2>3. mTasksSecond' \in [Slot -> [Worker -> BOOLEAN]]
    <3>1. CASE UNCHANGED mTasksSecond
      BY <1>0, <3>1
    <3>2. CASE mTasksSecond' = [mTasksSecond EXCEPT ![slotW[t]][t] = FALSE]
      BY <1>0, <3>2
    <3> QED
      BY <1>12, <3>1, <3>2 DEF WorkerScan, WorkerClear
  <2>4. pcW' \in [Worker -> {"outer", "inner", "scan", "run", "clear",
                             "lock", "check", "asleep", "exit"}]
    BY <1>0, <1>12 DEF WorkerScan, WorkerClear, NextSlot, GoTo
  <2> QED
    BY <1>0, <1>12, <2>2, <2>3, <2>4 DEF WorkerScan, WorkerClear
<1>13. ASSUME NEW t \in Worker, WorkerRun(t) PROVE TypeOK'
  <2>1. mTasksFirst[slotW[t]] \in Client
    BY <1>0, <1>13 DEF WorkerRun, WorkerInv, FlagInv, Waits, ClientInv, ClientOK
  <2>2. ran' \in [Client -> [Work -> Nat]]
    BY <1>0, <1>13, <2>1 DEF WorkerRun, RunShare
  <2> QED
    BY <1>0, <1>13, <2>2 DEF WorkerRun, GoTo
<1>14. CASE UNCHANGED vars
  BY <1>0, <1>14 DEF vars
<1> QED
  BY <1>1, <1>2, <1>3, <1>4, <1>5, <1>6, <1>7, <1>8, <1>9, <1>10, <1>11, <1>12, <1>13, <1>14
  DEF Next, ClientStep, ClientCall, WorkerStep

\* mActiveCount counts the clients between active() and deactive().
LEMMA CountStep == IInv /\ [Next]_vars => CountInv'
<1> SUFFICES ASSUME IInv, [Next]_vars PROVE CountInv'
  OBVIOUS
<1> USE DEF poolVars, slotVars, countVars, workerVars, clientVars
<1> DEFINE A == {c \in Client : activated[c]}
<1>0. TypeOK /\ PoolInv /\ mActiveCount = Cardinality(A) /\ IsFiniteSet(A)
  BY ClientAssumption, FS_Subset DEF IInv, CountInv
<1>1. ASSUME NEW n \in NumberThreads, Create(n) PROVE CountInv'
  <2>1. A' = {}
    BY <1>0, <1>1 DEF Create, PoolInv
  <2> QED
    BY <1>1, <2>1, FS_EmptySet DEF Create, CountInv
<1>2. ASSUME NEW c \in Client, Active(c) PROVE CountInv'
  <2>1. A' = A \cup {c} /\ c \notin A
    BY <1>0, <1>2 DEF Active, TypeOK
  <2>2. Cardinality(A') = Cardinality(A) + 1
    BY <1>0, <2>1, FS_AddElement
  <2> QED
    BY <1>0, <1>2, <2>2 DEF Active, CountInv
<1>3. ASSUME NEW c \in Client, Deactive(c) PROVE CountInv'
  <2>1. A' = A \ {c} /\ c \in A
    BY <1>0, <1>3 DEF Deactive, DeactiveTo, TypeOK
  <2>2. Cardinality(A') = Cardinality(A) - 1
    BY <1>0, <2>1, FS_RemoveElement
  <2> QED
    BY <1>0, <1>3, <2>2 DEF Deactive, DeactiveTo, CountInv
<1>4. CASE UNCHANGED <<mActiveCount, activated>>
  BY <1>0, <1>4 DEF CountInv
<1> QED
  BY <1>1, <1>2, <1>3, <1>4
  DEF Next, vars, ClientStep, ClientCall, WorkerStep, DestroyStop, DestroyNotify, DestroyJoin,
      AcquireWorkIndex, AcquireAnswering, ReleaseWorkIndex, ActiveNotify, Enqueue, RunSerial, EnqueueInternal,
      Publish, PublishBelow, RunZero, Poll, PollAgainFrom, Return, WorkerOuter, WorkerInner, WorkerScan, WorkerRun,
      WorkerClear, WorkerLock, WorkerCheck, CheckPredicate, SpuriousWake

\* No step gives a held slot away.
LEMMA SlotStep == IInv /\ [Next]_vars => SlotExclusive'
<1> SUFFICES ASSUME IInv, [Next]_vars PROVE SlotExclusive'
  OBVIOUS
<1> USE DEF poolVars, slotVars, countVars, workerVars, clientVars, SlotExclusive
<1>0. TypeOK /\ PoolInv /\ SlotExclusive
  BY DEF IInv
<1>1. ASSUME NEW n \in NumberThreads, Create(n) PROVE SlotExclusive'
  BY <1>0, <1>1 DEF Create, PoolInv
<1>2. ASSUME NEW c \in Client, AcquireWorkIndex(c) PROVE SlotExclusive'
  <2>1. CASE UNCHANGED <<mTaskAvailable, mTaskIndex>>
    BY <1>0, <2>1
  <2>2. ASSUME NEW s \in Slot, mTaskAvailable[s],
               mTaskAvailable' = [mTaskAvailable EXCEPT ![s] = FALSE],
               mTaskIndex' = [mTaskIndex EXCEPT ![c] = s]
        PROVE  SlotExclusive'
    BY <1>0, <2>2 DEF TypeOK
  <2>3. \/ UNCHANGED <<mTaskAvailable, mTaskIndex>>
        \/ \E s \in Slot : /\ mTaskAvailable[s]
                           /\ mTaskAvailable' = [mTaskAvailable EXCEPT ![s] = FALSE]
                           /\ mTaskIndex' = [mTaskIndex EXCEPT ![c] = s]
    BY <1>0, <1>2 DEF AcquireWorkIndex, AcquireAnswering, TypeOK
  <2> QED
    BY <2>1, <2>2, <2>3
<1>3. ASSUME NEW c \in Client, ReleaseWorkIndex(c) PROVE SlotExclusive'
  BY <1>0, <1>3 DEF ReleaseWorkIndex, TypeOK
<1>4. CASE UNCHANGED <<mTaskAvailable, mTaskIndex>>
  BY <1>0, <1>4
<1> QED
  BY <1>1, <1>2, <1>3, <1>4
  DEF Next, vars, ClientStep, ClientCall, WorkerStep, DestroyStop, DestroyNotify, DestroyJoin,
      Active, Deactive, DeactiveTo, ActiveNotify, Enqueue, RunSerial, EnqueueInternal,
      Publish, PublishBelow, RunZero, Poll, PollAgainFrom, Return, WorkerOuter, WorkerInner, WorkerScan, WorkerRun,
      WorkerClear, WorkerLock, WorkerCheck, CheckPredicate, SpuriousWake

\* The pool is created and destroyed only while no client uses it.
LEMMA PoolStep == IInv /\ [Next]_vars => PoolInv'
<1> SUFFICES ASSUME IInv, [Next]_vars PROVE PoolInv'
  OBVIOUS
<1> USE DEF poolVars, slotVars, countVars, workerVars, clientVars, PoolInv
<1>0. TypeOK /\ PoolInv
  BY DEF IInv
<1>1. ASSUME NEW n \in NumberThreads, Create(n) PROVE PoolInv'
  BY <1>1 DEF Create
<1>2. CASE DestroyStop \/ DestroyNotify \/ DestroyJoin
  BY <1>0, <1>2 DEF DestroyStop, DestroyNotify, DestroyJoin
<1>3. ASSUME NEW c \in Client, ClientStep(c) PROVE PoolInv'
  BY <1>0, <1>3 DEF ClientStep, ActiveNotify, RunSerial, EnqueueInternal, Publish, PublishBelow, RunZero, Poll, PollAgainFrom, Return
<1>4. ASSUME NEW c \in Client, ClientCall(c) PROVE PoolInv'
  BY <1>0, <1>4 DEF ClientCall, Ready, AcquireWorkIndex, AcquireAnswering, ReleaseWorkIndex, Active, Deactive, DeactiveTo, Enqueue
<1>5. CASE UNCHANGED <<gInstance, mStop, clientVars>>
  BY <1>0, <1>5
<1>6. CASE UNCHANGED <<gInstance, mStop, pcC, mTaskIndex, activated>>
  BY <1>0, <1>6
<1> QED
  BY <1>1, <1>2, <1>3, <1>4, <1>5, <1>6
  DEF Next, vars, WorkerStep, WorkerOuter, WorkerInner, WorkerScan, WorkerRun,
      WorkerClear, WorkerLock, WorkerCheck, CheckPredicate, SpuriousWake

\* A client inside enqueueInternal keeps its slot, its task and its activation.
LEMMA ClientInvStep == IInv /\ [Next]_vars => ClientInv'
<1> SUFFICES ASSUME IInv, [Next]_vars, NEW d \in Client PROVE ClientOK(d)'
  BY DEF ClientInv
<1> USE DEF poolVars, slotVars, countVars, workerVars, clientVars, InFlight
<1>0. TypeOK /\ PoolInv /\ SlotExclusive /\ ClientInv
  BY DEF IInv
<1>1. ASSUME NEW n \in NumberThreads, Create(n) PROVE pcC'[d] = "ready"
  BY <1>0, <1>1 DEF Create, PoolInv
<1>2. ASSUME NEW c \in Client, AcquireWorkIndex(c) \/ ReleaseWorkIndex(c) \/ Active(c)
                                \/ Deactive(c) \/ ActiveNotify(c) \/ RunSerial(c) \/ Return(c)
      PROVE IF d = c THEN pcC'[d] \in {"ready", "notify", "join"}
                     ELSE /\ UNCHANGED <<pcC[d], mTaskIndex[d], work[d], k[d], activated[d]>>
                          /\ UNCHANGED mTasksFirst
  BY <1>0, <1>2 DEF AcquireWorkIndex, AcquireAnswering, ReleaseWorkIndex, Active, Deactive, DeactiveTo, ActiveNotify,
                    RunSerial, Return, Ready, TypeOK
<1>3. ASSUME NEW c \in Client, NEW w \in WorkSizes, Enqueue(c, w)
      PROVE IF d = c THEN \/ pcC'[d] = "serial"
                          \/ /\ pcC'[d] = "internal" /\ mTaskIndex'[d] # -1 /\ work'[d] > 1
                             /\ d \notin InactiveClient => activated'[d]
                     ELSE /\ UNCHANGED <<pcC[d], mTaskIndex[d], work[d], k[d], activated[d]>>
                          /\ UNCHANGED mTasksFirst
  <2>1. w \in Nat
    BY WorkAssumption
  <2>2. mTaskIndex[c] \in Int
    BY <1>0, MaxTasksAssumption DEF TypeOK, Slot
  <2> QED
    BY <1>0, <1>3, <2>1, <2>2 DEF Enqueue, TypeOK
<1>4. ASSUME NEW c \in Client, EnqueueInternal(c)
      PROVE /\ UNCHANGED <<mTaskIndex[d], work[d], activated[d]>>
            /\ IF d = c THEN \/ pcC'[d] = "serial"
                             \/ /\ pcC[d] = "internal" /\ pcC'[d] = "publish"
                                /\ k'[d] = 1 /\ mTasksFirst'[mTaskIndex[d]] = d
                        ELSE /\ UNCHANGED <<pcC[d], k[d]>>
                             /\ InFlight(d) => UNCHANGED mTasksFirst[mTaskIndex[d]]
  <2>1. mTaskIndex[c] \in Slot
    BY <1>0, <1>4 DEF EnqueueInternal, ClientInv, ClientOK, TypeOK
  <2> QED
    BY <1>0, <1>4, <2>1 DEF EnqueueInternal, TypeOK, SlotExclusive, ClientInv, ClientOK
<1>5. ASSUME NEW c \in Client, Publish(c) \/ RunZero(c) \/ Poll(c)
      PROVE /\ UNCHANGED <<mTaskIndex[d], work[d], activated[d]>> /\ UNCHANGED mTasksFirst
            /\ IF d = c THEN InFlight(d) /\ (pcC'[d] \in {"publish", "poll"} => k'[d] >= 1)
                        ELSE UNCHANGED <<pcC[d], k[d]>>
  <2>1. CASE Publish(c)
    BY <1>0, <2>1 DEF Publish, PublishBelow, TypeOK, ClientInv, ClientOK
  <2>2. CASE RunZero(c)
    BY <1>0, <2>2 DEF RunZero, TypeOK
  <2>3. CASE Poll(c)
    <3>1. (IF mTasksSecond[mTaskIndex[c]][k[c]] THEN 1 ELSE k[c] + 1) >= 1
      BY <1>0 DEF TypeOK
    <3> QED
      BY <1>0, <2>3, <3>1 DEF Poll, PollAgainFrom, TypeOK, ClientInv, ClientOK
  <2> QED
    BY <1>5, <2>1, <2>2, <2>3
<1>6. CASE UNCHANGED <<pcC, k, mTaskIndex, activated, work, mTasksFirst>>
  BY <1>0, <1>6 DEF ClientInv, ClientOK
<1>7. ASSUME NEW c \in Client, ClientStep(c) \/ ClientCall(c) PROVE ClientOK(d)'
  <2>1. CASE AcquireWorkIndex(c) \/ ReleaseWorkIndex(c) \/ Active(c)
             \/ Deactive(c) \/ ActiveNotify(c) \/ RunSerial(c) \/ Return(c)
    BY <1>0, <1>2, <2>1 DEF ClientInv, ClientOK
  <2>2. ASSUME NEW w \in WorkSizes, Enqueue(c, w) PROVE ClientOK(d)'
    <3>1. CASE d = c
      <4>1. CASE pcC'[d] = "serial"
        BY <4>1 DEF ClientOK
      <4>2. CASE pcC'[d] # "serial"
        BY <1>3, <2>2, <3>1, <4>2 DEF ClientOK
      <4> QED
        BY <4>1, <4>2
    <3>2. CASE d # c
      BY <1>0, <1>3, <2>2, <3>2 DEF ClientInv, ClientOK
    <3> QED
      BY <3>1, <3>2
  <2>3. CASE EnqueueInternal(c)
    <3>1. CASE d = c
      BY <1>0, <1>4, <2>3, <3>1 DEF ClientInv, ClientOK
    <3>2. CASE d # c
      BY <1>0, <1>4, <2>3, <3>2 DEF ClientInv, ClientOK
    <3> QED
      BY <3>1, <3>2
  <2>4. CASE Publish(c) \/ RunZero(c) \/ Poll(c)
    BY <1>0, <1>5, <2>4 DEF ClientInv, ClientOK
  <2> QED
    BY <1>7, <2>1, <2>2, <2>3, <2>4 DEF ClientStep, ClientCall
<1> QED
  BY <1>1, <1>6, <1>7
  DEF ClientOK, Next, vars, WorkerStep, DestroyStop, DestroyNotify, DestroyJoin, WorkerOuter,
      WorkerInner, WorkerScan, WorkerRun, WorkerClear, WorkerLock, WorkerCheck, CheckPredicate, SpuriousWake

\* Only Publish raises a flag, and Poll never passes a raised one.
LEMMA FlagStep == IInv /\ [Next]_vars => FlagInv'
<1> SUFFICES ASSUME IInv, [Next]_vars, NEW s \in Slot, NEW t \in Worker, mTasksSecond'[s][t]
             PROVE  \E c \in Client : Waits(c, s, t)'
  BY DEF FlagInv
<1> USE DEF poolVars, slotVars, countVars, workerVars, clientVars, InFlight
<1>0. TypeOK /\ PoolInv /\ SlotExclusive /\ ClientInv /\ FlagInv /\ t \in Nat /\ t >= 1
  BY WorkerIds DEF IInv
<1>n. mNumberThread \in Nat /\ \A c \in Client : work[c] \in Nat
  BY <1>0, SizesAreNat
<1>1. ASSUME NEW n \in NumberThreads, Create(n) PROVE FALSE
  BY <1>1 DEF Create
<1>2. ASSUME NEW c \in Client, Publish(c), s = mTaskIndex[c], t = k[c], k[c] < WorkSize(c)
      PROVE  Waits(c, s, t)'
  <2>1. k'[c] = k[c] + 1 /\ pcC'[c] = "publish" /\ mTaskIndex' = mTaskIndex
        /\ work' = work /\ mNumberThread' = mNumberThread
    BY <1>0, <1>2, <1>n DEF Publish, PublishBelow, TypeOK, WorkSize
  <2> QED
    BY <1>0, <1>2, <1>n, <2>1 DEF Waits, WorkSize
<1>3. ASSUME NEW d \in Client, Waits(d, s, t),
             UNCHANGED <<mNumberThread, pcC[d], k[d], mTaskIndex[d], work[d]>>
      PROVE  Waits(d, s, t)'
  BY <1>3 DEF Waits, WorkSize
<1>4. ASSUME NEW d \in Client, Waits(d, s, t),
             NEW c \in Client, ClientStep(c) \/ ClientCall(c)
      PROVE  Waits(d, s, t)'
  <2>1. CASE d # c
    BY <1>0, <1>3, <1>4, <2>1
    DEF ClientStep, ClientCall, ActiveNotify, RunSerial, EnqueueInternal, Publish, PublishBelow, RunZero, Poll, PollAgainFrom,
        Return, AcquireWorkIndex, AcquireAnswering, ReleaseWorkIndex, Active, Deactive, DeactiveTo, Enqueue, TypeOK
  <2>2. CASE d = c
    <3>1. CASE Publish(d)
      <4>1. UNCHANGED <<mNumberThread, mTaskIndex[d], work[d]>>
        BY <3>1 DEF Publish, PublishBelow
      <4>2. \/ pcC'[d] = "zero"
            \/ pcC'[d] = "publish" /\ k'[d] = k[d] + 1 /\ pcC[d] = "publish"
        BY <1>0, <3>1 DEF Publish, PublishBelow, TypeOK
      <4>3. k[d] \in Nat
        BY <1>0 DEF TypeOK
      <4> QED
        BY <1>0, <1>4, <4>1, <4>2, <4>3 DEF Waits, WorkSize
    <3>2. CASE RunZero(d)
      <4>1. UNCHANGED <<mNumberThread, mTaskIndex[d], work[d]>>
        BY <3>2 DEF RunZero
      <4>2. pcC'[d] = "poll" /\ k'[d] = 1
        BY <1>0, <3>2 DEF RunZero, TypeOK
      <4> QED
        BY <1>0, <1>4, <4>1, <4>2 DEF Waits, WorkSize
    <3>3. CASE Poll(d)
      <4>1. UNCHANGED <<mNumberThread, mTaskIndex[d], work[d]>> /\ pcC[d] = "poll"
        BY <3>3 DEF Poll, PollAgainFrom
      <4>u. mTasksSecond[s][t]
        BY <3>3 DEF Poll, PollAgainFrom
      <4>2. k[d] < WorkSize(d) /\ t >= k[d] /\ s = mTaskIndex[d]
        BY <1>0, <1>4, <1>n, <4>1 DEF Waits, TypeOK, WorkSize
      <4>3. pcC'[d] = "poll"
        BY <1>0, <1>n, <3>3, <4>2 DEF Poll, PollAgainFrom, TypeOK, WorkSize
      <4>4. k'[d] = IF mTasksSecond[s][k[d]] THEN 1 ELSE k[d] + 1
        BY <1>0, <1>n, <3>3, <4>2 DEF Poll, PollAgainFrom, TypeOK, WorkSize
      <4>5. k'[d] <= t
        <5>1. CASE mTasksSecond[s][k[d]]
          BY <1>0, <4>4, <5>1
        <5>2. CASE ~mTasksSecond[s][k[d]]
          <6>1. t # k[d]
            BY <4>u, <5>2
          <6>2. k'[d] = k[d] + 1
            BY <4>4, <5>2
          <6>3. k[d] \in Nat
            BY <1>0 DEF TypeOK
          <6> QED
            BY <1>0, <4>2, <6>1, <6>2, <6>3
        <5> QED
          BY <5>1, <5>2
      <4> QED
        BY <1>0, <1>4, <4>1, <4>3, <4>4, <4>5 DEF Waits, WorkSize, TypeOK
    <3> QED
      BY <1>4, <2>2, <3>1, <3>2, <3>3
      DEF Waits, ClientStep, ClientCall, Ready, ActiveNotify, RunSerial, EnqueueInternal,
          Return, AcquireWorkIndex, AcquireAnswering, ReleaseWorkIndex, Active, Deactive, DeactiveTo, Enqueue
  <2> QED
    BY <2>1, <2>2
<1>5. CASE ~mTasksSecond[s][t]
  <2>1. PICK c \in Client : Publish(c)
    <3>1. ~UNCHANGED mTasksSecond
      BY <1>5
    <3>2. ASSUME NEW u \in Worker PROVE ~WorkerClear(u)
      <4> SUFFICES ASSUME WorkerClear(u) PROVE FALSE
        OBVIOUS
      <4>1. mTasksSecond' = [mTasksSecond EXCEPT ![slotW[u]][u] = FALSE]
        BY DEF WorkerClear
      <4>2. mTasksSecond \in [Slot -> [Worker -> BOOLEAN]] /\ slotW[u] \in Slot
        BY <1>0 DEF TypeOK
      <4>3. CASE s = slotW[u]
        <5>1. mTasksSecond'[s] = [mTasksSecond[s] EXCEPT ![u] = FALSE]
          BY <4>1, <4>2, <4>3
        <5> QED
          BY <1>5, <4>2, <5>1
      <4>4. CASE s # slotW[u]
        <5>1. mTasksSecond'[s] = mTasksSecond[s]
          BY <4>1, <4>2, <4>4
        <5> QED
          BY <1>5, <5>1
      <4> QED
        BY <4>3, <4>4
    <3> QED
      BY <1>1, <3>1, <3>2
      DEF Next, vars, ClientStep, ClientCall, WorkerStep, DestroyStop, DestroyNotify, DestroyJoin,
          AcquireWorkIndex, AcquireAnswering, ReleaseWorkIndex, Active, Deactive, DeactiveTo, ActiveNotify, Enqueue, RunSerial,
          EnqueueInternal, RunZero, Poll, PollAgainFrom, Return, WorkerOuter, WorkerInner, WorkerScan, WorkerRun,
          WorkerLock, WorkerCheck, CheckPredicate, SpuriousWake
  <2>2. s = mTaskIndex[c] /\ t = k[c] /\ k[c] < WorkSize(c)
    BY <1>0, <1>5, <2>1 DEF Publish, PublishBelow, TypeOK
  <2> QED
    BY <1>2, <2>1, <2>2
<1>6. CASE mTasksSecond[s][t]
  <2>1. PICK d \in Client : Waits(d, s, t)
    BY <1>0, <1>6 DEF FlagInv
  <2>2. CASE \E c \in Client : ClientStep(c) \/ ClientCall(c)
    BY <1>4, <2>1, <2>2
  <2>3. CASE UNCHANGED <<mNumberThread, pcC, k, mTaskIndex, work>>
    BY <1>3, <2>1, <2>3
  <2> QED
    BY <1>1, <2>2, <2>3
    DEF Next, vars, WorkerStep, DestroyStop, DestroyNotify, DestroyJoin, WorkerOuter,
        WorkerInner, WorkerScan, WorkerRun, WorkerClear, WorkerLock, WorkerCheck, CheckPredicate, SpuriousWake
<1> QED
  BY <1>5, <1>6

\* A worker's flag stays up from its read of the flag to its store of false.
LEMMA WorkerInvStep == IInv /\ [Next]_vars => WorkerInv'
<1> SUFFICES ASSUME IInv, [Next]_vars, NEW t \in Worker, pcW'[t] \in {"run", "clear"}
             PROVE  mTasksSecond'[slotW'[t]][t]
  BY DEF WorkerInv
<1> USE DEF poolVars, slotVars, countVars, workerVars, clientVars
<1>0. TypeOK /\ WorkerInv
  BY DEF IInv
<1>1. ASSUME NEW n \in NumberThreads, Create(n) PROVE FALSE
  BY <1>1 DEF Create
<1>2. ASSUME NEW u \in Worker, WorkerScan(u) \/ WorkerRun(u) PROVE mTasksSecond'[slotW'[t]][t]
  BY <1>0, <1>2 DEF WorkerScan, WorkerRun, NextSlot, GoTo, TypeOK, WorkerInv
<1>3. ASSUME NEW u \in Worker, WorkerClear(u) PROVE mTasksSecond'[slotW'[t]][t]
  <2>1. t # u /\ pcW[t] \in {"run", "clear"} /\ slotW'[t] = slotW[t]
    BY <1>0, <1>3 DEF WorkerClear, NextSlot, GoTo, TypeOK
  <2> QED
    BY <1>0, <1>3, <2>1 DEF WorkerClear, TypeOK, WorkerInv
<1>4. ASSUME NEW c \in Client, Publish(c) PROVE mTasksSecond'[slotW'[t]][t]
  <2>1. pcW[t] \in {"run", "clear"} /\ slotW'[t] = slotW[t]
    BY <1>4 DEF Publish, PublishBelow
  <2> QED
    <3>1. mTasksSecond[slotW[t]][t] /\ slotW[t] \in Slot
      BY <1>0, <2>1 DEF TypeOK, WorkerInv
    <3>2. CASE mTasksSecond' = mTasksSecond
      BY <2>1, <3>1, <3>2
    <3>3. CASE mTasksSecond' = [mTasksSecond EXCEPT ![mTaskIndex[c]][k[c]] = TRUE]
      <4>1. CASE mTaskIndex[c] \in Slot
        BY <1>0, <2>1, <3>1, <3>3, <4>1, StoreFlag DEF TypeOK
      <4>2. CASE mTaskIndex[c] \notin Slot
        <5>1. mTasksSecond' = mTasksSecond
          BY <1>0, <3>3, <4>2 DEF TypeOK
        <5> QED
          BY <2>1, <3>1, <5>1
      <4> QED
        BY <4>1, <4>2
    <3> QED
      BY <1>4, <3>2, <3>3 DEF Publish, PublishBelow
<1>5. CASE DestroyNotify \/ \E c \in Client : ActiveNotify(c)
  BY <1>0, <1>5 DEF DestroyNotify, ActiveNotify, Wake, TypeOK, WorkerInv
<1>6. ASSUME NEW u \in Worker, WorkerOuter(u) \/ WorkerInner(u) \/ WorkerLock(u)
                                \/ WorkerCheck(u) \/ SpuriousWake(u)
      PROVE mTasksSecond'[slotW'[t]][t]
  <2>1. t # u /\ pcW[t] = pcW'[t] /\ slotW'[t] = slotW[t] /\ UNCHANGED mTasksSecond
    BY <1>0, <1>6 DEF WorkerOuter, WorkerInner, WorkerLock, WorkerCheck, CheckPredicate, SpuriousWake, GoTo, TypeOK
  <2> QED
    BY <1>0, <2>1 DEF WorkerInv
<1>7. CASE UNCHANGED <<mTasksSecond, pcW, slotW>>
  BY <1>0, <1>7 DEF WorkerInv
<1> QED
  BY <1>1, <1>2, <1>3, <1>4, <1>5, <1>6, <1>7
  DEF Next, vars, ClientStep, ClientCall, WorkerStep, DestroyStop, DestroyJoin,
      AcquireWorkIndex, AcquireAnswering, ReleaseWorkIndex, Active, Deactive, DeactiveTo, Enqueue, RunSerial,
      EnqueueInternal, RunZero, Poll, PollAgainFrom, Return

\* Each index of a task is counted when, and only when, its thread runs its share.
LEMMA RanStep == IInv /\ [Next]_vars => RanInv'
<1> SUFFICES ASSUME IInv, [Next]_vars, NEW c \in Client PROVE RanOK(c)'
  BY DEF RanInv
<1> USE DEF poolVars, slotVars, countVars, workerVars, clientVars, InFlight
<1>0. TypeOK /\ PoolInv /\ SlotExclusive /\ ClientInv /\ FlagInv /\ WorkerInv /\ RanOK(c)
  BY DEF IInv, RanInv
<1>n. /\ mNumberThread \in Nat /\ work[c] \in Nat /\ k[c] \in Nat
      /\ \A v \in Work : v \in Nat
  <2>1. k[c] \in Nat
    BY <1>0 DEF TypeOK
  <2>2. \A v \in Work : v \in Nat
    BY WorkAssumption DEF Work
  <2> QED
    BY <1>0, <2>1, <2>2, SizesAreNat
<1>r. \A v \in Work : v < work[c] => Runner(c, v) \in Nat /\ Runner(c, v) < WorkSize(c)
  BY <1>0, RunnerInRange
<1>1. ASSUME NEW n \in NumberThreads, Create(n) PROVE RanOK(c)'
  BY <1>0, <1>1 DEF Create, PoolInv, RanOK
<1>i. InFlight(c) => mTaskIndex[c] \in Slot
  BY <1>0 DEF ClientInv, ClientOK, TypeOK
\* Steps that leave c's own state alone only matter through Done.
<1>2. ASSUME UNCHANGED mNumberThread, UNCHANGED pcC[c], UNCHANGED ran[c], UNCHANGED work[c],
             \A t \in Worker : InFlight(c) => (Done(c, t)' <=> Done(c, t))
      PROVE  RanOK(c)'
  <2>1. \A v \in Work : Runner(c, v)' = Runner(c, v)
    BY <1>2 DEF Runner
  <2>2. ASSUME InFlight(c)', NEW v \in Work
        PROVE  ran'[c][v] = IF v < work'[c] /\ Done(c, Runner(c, v))' THEN 1 ELSE 0
    <3>1. InFlight(c)
      BY <1>2, <2>2
    <3>2. ran[c][v] = IF v < work[c] /\ Done(c, Runner(c, v)) THEN 1 ELSE 0
      BY <1>0, <2>2, <3>1 DEF RanOK
    <3>3. CASE v < work[c]
      <4>1. PICK r \in Nat : r = Runner(c, v) /\ r < WorkSize(c)
        BY <1>r, <3>3
      <4>2. Done(c, r)' <=> Done(c, r)
        <5>1. CASE r = 0
          BY <1>2, <5>1 DEF Done
        <5>2. CASE r # 0
          <6>1. r \in Worker
            BY <1>0, <4>1, <5>2, FlagExists
          <6> QED
            BY <1>2, <3>1, <6>1
        <5> QED
          BY <5>1, <5>2
      <4>3. Runner(c, v)' = r
        BY <2>1, <4>1
      <4>4. Done(c, Runner(c, v))' <=> Done(c, r)'
        BY <4>3 DEF Done
      <4>5. Done(c, Runner(c, v)) <=> Done(c, r)
        BY <4>1
      <4> QED
        BY <1>2, <3>2, <3>3, <4>2, <4>4, <4>5
    <3>4. CASE ~(v < work[c])
      BY <1>2, <3>2, <3>4
    <3> QED
      BY <3>3, <3>4
  <2> QED
    BY <1>0, <1>2, <2>2 DEF RanOK
<1>3. ASSUME UNCHANGED pcC[c], UNCHANGED k[c], UNCHANGED mTaskIndex[c],
             InFlight(c) => UNCHANGED mTasksSecond[mTaskIndex[c]],
             NEW t \in Worker, InFlight(c), (pcW'[t] = "clear") <=> (pcW[t] = "clear"),
             pcW[t] = "clear" => UNCHANGED slotW[t]
      PROVE  Done(c, t)' <=> Done(c, t)
  <2>1. mTasksSecond'[mTaskIndex'[c]] = mTasksSecond[mTaskIndex[c]]
    BY <1>3
  <2> QED
    BY <1>3, <2>1 DEF Done
\* Steps of the other clients.
<1>4. ASSUME NEW d \in Client, d # c, ClientStep(d) \/ ClientCall(d) PROVE RanOK(c)'
  <2>1. /\ UNCHANGED mNumberThread /\ UNCHANGED pcC[c] /\ UNCHANGED ran[c] /\ UNCHANGED work[c]
        /\ UNCHANGED k[c] /\ UNCHANGED mTaskIndex[c] /\ UNCHANGED slotW
    BY <1>0, <1>4
    DEF ClientStep, ClientCall, ActiveNotify, RunSerial, EnqueueInternal, Publish, PublishBelow, RunZero, Poll, PollAgainFrom,
        Return, AcquireWorkIndex, AcquireAnswering, ReleaseWorkIndex, Active, Deactive, DeactiveTo, Enqueue, RunShare, TypeOK
  <2>2. \A t \in Worker : (pcW'[t] = "clear") <=> (pcW[t] = "clear")
    BY <1>0, <1>4
    DEF ClientStep, ClientCall, ActiveNotify, RunSerial, EnqueueInternal, Publish, PublishBelow, RunZero, Poll, PollAgainFrom,
        Return, AcquireWorkIndex, AcquireAnswering, ReleaseWorkIndex, Active, Deactive, DeactiveTo, Enqueue, Wake
  <2>3. InFlight(c) => UNCHANGED mTasksSecond[mTaskIndex[c]]
    <3>1. CASE Publish(d)
      <4>1. InFlight(c) => mTaskIndex[c] # mTaskIndex[d]
        BY <1>0, <1>4 DEF SlotExclusive, ClientInv, ClientOK
      <4>2. UNCHANGED mTaskIndex
        BY <3>1 DEF Publish, PublishBelow
      <4> QED
        BY <1>0, <1>i, <3>1, <4>1, <4>2 DEF Publish, PublishBelow, TypeOK
    <3>2. CASE UNCHANGED mTasksSecond
      BY <2>1, <3>2
    <3> QED
      BY <1>4, <3>1, <3>2
      DEF ClientStep, ClientCall, ActiveNotify, RunSerial, EnqueueInternal, RunZero, Poll, PollAgainFrom,
          Return, AcquireWorkIndex, AcquireAnswering, ReleaseWorkIndex, Active, Deactive, DeactiveTo, Enqueue
  <2> QED
    BY <1>2, <1>3, <2>1, <2>2, <2>3
\* Calls of c, and its steps outside the window in which workers run its task.
<1>5. CASE ClientCall(c) \/ ActiveNotify(c) \/ Return(c)
  <2>1. ran'[c] = NeverRan /\ pcC'[c] \in {"ready", "notify", "serial", "internal"}
    BY <1>0, <1>5 DEF ClientCall, ActiveNotify, Return, AcquireWorkIndex, AcquireAnswering, ReleaseWorkIndex, Active,
                      Deactive, DeactiveTo, Enqueue, Ready, RanOK, TypeOK
  <2> QED
    BY <2>1 DEF RanOK
<1>6. CASE RunSerial(c)
  <2>1. pcC'[c] = "join" /\ UNCHANGED work[c] /\ ran[c] = NeverRan
    BY <1>0, <1>6 DEF RunSerial, RanOK, TypeOK
  <2>2. ran'[c] = [v \in Work |-> IF v < work[c] THEN ran[c][v] + 1 ELSE ran[c][v]]
    BY <1>0, <1>6 DEF RunSerial, TypeOK
  <2> QED
    BY <2>1, <2>2 DEF RanOK, NeverRan
<1>7. CASE EnqueueInternal(c)
  <2>1. ran'[c] = NeverRan /\ UNCHANGED work[c]
        /\ (pcC'[c] = "serial" \/ (pcC'[c] = "publish" /\ k'[c] = 1))
    BY <1>0, <1>7 DEF EnqueueInternal, RanOK, TypeOK
  <2>2. ASSUME pcC'[c] = "publish", k'[c] = 1, NEW t \in Nat PROVE ~Done(c, t)'
    BY <2>2 DEF Done
  <2>3. ASSUME pcC'[c] = "publish", k'[c] = 1, NEW v \in Work, v < work[c]
        PROVE  ~Done(c, Runner(c, v))'
    <3>1. PICK r \in Nat : r = Runner(c, v)
      BY <1>r, <2>3
    <3>2. Runner(c, v)' = r
      BY <1>7, <3>1 DEF EnqueueInternal, Runner
    <3>3. ~Done(c, r)'
      BY <2>2, <2>3
    <3> QED
      BY <3>2, <3>3 DEF Done
  <2>4. \A v \in Work : ran'[c][v] = 0
    BY <2>1 DEF NeverRan
  <2> QED
    BY <2>1, <2>3, <2>4 DEF RanOK
\* The flags of c's slot seen from c: raised only for a share c waits for.
<1>f. ASSUME InFlight(c), NEW t \in Worker, mTasksSecond[mTaskIndex[c]][t]
      PROVE  Waits(c, mTaskIndex[c], t)
  <2>1. PICK d \in Client : Waits(d, mTaskIndex[c], t)
    BY <1>0, <1>i, <1>f DEF FlagInv
  <2>2. d = c
    BY <1>0, <1>i, <1>f, <2>1 DEF Waits, SlotExclusive, ClientInv, ClientOK
  <2> QED
    BY <2>1, <2>2
<1>8. CASE Publish(c)
  <2>0. /\ UNCHANGED mNumberThread /\ UNCHANGED ran[c] /\ UNCHANGED work[c]
        /\ UNCHANGED mTaskIndex[c] /\ UNCHANGED pcW /\ UNCHANGED slotW /\ pcC[c] = "publish"
    BY <1>8 DEF Publish, PublishBelow
  <2>1. CASE k[c] >= WorkSize(c)
    <3>1. pcC'[c] = "zero" /\ UNCHANGED mTasksSecond
      BY <1>0, <1>8, <1>n, <2>1 DEF Publish, PublishBelow, TypeOK, WorkSize
    <3>2. ASSUME NEW t \in Nat, t < WorkSize(c) PROVE Done(c, t)' <=> Done(c, t)
      <4>1. t < k[c]
        BY <1>n, <2>1, <3>2 DEF WorkSize
      <4>2. mTasksSecond'[mTaskIndex'[c]] = mTasksSecond[mTaskIndex[c]]
        BY <2>0, <3>1
      <4> QED
        BY <2>0, <3>1, <4>1, <4>2 DEF Done
    <3>3. ASSUME NEW v \in Work
          PROVE  ran'[c][v] = IF v < work'[c] /\ Done(c, Runner(c, v))' THEN 1 ELSE 0
      <4>1. ran[c][v] = IF v < work[c] /\ Done(c, Runner(c, v)) THEN 1 ELSE 0
        BY <1>0, <2>0 DEF RanOK
      <4>2. CASE v < work[c]
        <5>1. PICK r \in Nat : r = Runner(c, v) /\ r < WorkSize(c)
          BY <1>r, <4>2
        <5>2. Runner(c, v)' = r
          BY <2>0, <5>1 DEF Runner
        <5>3. Done(c, Runner(c, v))' <=> Done(c, r)'
          BY <5>2 DEF Done
        <5>4. Done(c, r)' <=> Done(c, r)
          BY <3>2, <5>1
        <5> QED
          BY <2>0, <4>1, <4>2, <5>1, <5>3, <5>4
      <4>3. CASE ~(v < work[c])
        BY <2>0, <4>1, <4>3
      <4> QED
        BY <4>2, <4>3
    <3> QED
      BY <3>1, <3>3 DEF RanOK
  <2>2. CASE k[c] < WorkSize(c)
    <3>1. /\ UNCHANGED pcC[c] /\ k'[c] = k[c] + 1
          /\ mTasksSecond' = [mTasksSecond EXCEPT ![mTaskIndex[c]][k[c]] = TRUE]
      BY <1>0, <1>8, <1>n, <2>2 DEF Publish, PublishBelow, TypeOK, WorkSize
    <3>2. k[c] >= 1 /\ k[c] \in Worker
      BY <1>0, <1>n, <2>0, <2>2, FlagExists DEF ClientInv, ClientOK
    <3>3. mTasksSecond'[mTaskIndex'[c]] = [mTasksSecond[mTaskIndex[c]] EXCEPT ![k[c]] = TRUE]
      BY <1>0, <1>i, <2>0, <3>1 DEF TypeOK
    <3>4. ~mTasksSecond[mTaskIndex[c]][k[c]]
      BY <1>f, <1>n, <2>0, <3>2 DEF Waits
    <3>5. ~(pcW[k[c]] = "clear" /\ slotW[k[c]] = mTaskIndex[c])
      BY <1>0, <3>2, <3>4 DEF WorkerInv
    <3>6. ASSUME NEW t \in Worker PROVE Done(c, t)' <=> Done(c, t)
      <4>0. t \in Nat /\ t # 0
        BY WorkerIds
      <4>1. CASE t = k[c]
        <5>1. ~Done(c, t)
          BY <1>n, <2>0, <4>0, <4>1 DEF Done
        <5>2. mTasksSecond'[mTaskIndex'[c]][t]
          BY <1>0, <1>i, <2>0, <3>2, <3>3, <4>1 DEF TypeOK
        <5>3. ~Done(c, t)'
          BY <2>0, <3>5, <4>0, <4>1, <5>2 DEF Done
        <5> QED
          BY <5>1, <5>3
      <4>2. CASE t # k[c]
        <5>1. mTasksSecond'[mTaskIndex'[c]][t] = mTasksSecond[mTaskIndex[c]][t]
          BY <1>0, <1>i, <2>0, <3>3, <4>2 DEF TypeOK
        <5>2. t < k'[c] <=> t < k[c]
          BY <1>n, <3>1, <4>0, <4>2
        <5> QED
          BY <2>0, <3>1, <5>1, <5>2 DEF Done
      <4> QED
        BY <4>1, <4>2
    <3> QED
      BY <1>2, <2>0, <3>1, <3>6
  <2> QED
    BY <1>n, <2>1, <2>2 DEF WorkSize
\* A share of c's task is run by thread u: RunShare counts it once.
<1>s. ASSUME NEW u \in Nat, InFlight(c), InFlight(c)', RunShare(c, u), UNCHANGED mNumberThread,
             UNCHANGED work[c], ~Done(c, u), Done(c, u)',
             \A t \in Nat : t # u => (Done(c, t)' <=> Done(c, t))
      PROVE  RanOK(c)'
  <2>1. ASSUME NEW v \in Work
        PROVE  ran'[c][v] = IF v < work'[c] /\ Done(c, Runner(c, v))' THEN 1 ELSE 0
    <3>1. ran[c][v] = IF v < work[c] /\ Done(c, Runner(c, v)) THEN 1 ELSE 0
      BY <1>0, <1>s DEF RanOK
    <3>2. ran'[c][v] = IF v \in Share(c, u) THEN ran[c][v] + 1 ELSE ran[c][v]
      BY <1>0, <1>s DEF RunShare, TypeOK
    <3>3. CASE v < work[c]
      <4>1. PICK r \in Nat : r = Runner(c, v)
        BY <1>r, <3>3
      <4>2. Runner(c, v)' = r
        BY <1>s, <4>1 DEF Runner
      <4>3. Done(c, Runner(c, v))' <=> Done(c, r)'
        BY <4>2 DEF Done
      <4>4. v \in Share(c, u) <=> r = u
        BY <3>3, <4>1 DEF Share
      <4>5. CASE r = u
        <5>1. ran[c][v] = 0
          BY <1>s, <3>1, <4>1, <4>5
        <5>2. Done(c, Runner(c, v))'
          BY <1>s, <4>3, <4>5
        <5> QED
          BY <1>s, <3>2, <3>3, <4>4, <4>5, <5>1, <5>2
      <4>6. CASE r # u
        <5>1. Done(c, Runner(c, v))' <=> Done(c, Runner(c, v))
          BY <1>s, <4>1, <4>3, <4>6
        <5> QED
          BY <1>s, <3>1, <3>2, <3>3, <4>4, <4>6, <5>1
      <4> QED
        BY <4>5, <4>6
    <3>4. CASE ~(v < work[c])
      BY <1>s, <3>1, <3>2, <3>4 DEF Share
    <3> QED
      BY <3>3, <3>4
  <2> QED
    BY <1>s, <2>1 DEF RanOK
<1>9. CASE RunZero(c)
  <2>1. /\ UNCHANGED mNumberThread /\ UNCHANGED work[c] /\ UNCHANGED mTaskIndex[c]
        /\ UNCHANGED mTasksSecond /\ UNCHANGED pcW /\ UNCHANGED slotW
        /\ pcC[c] = "zero" /\ pcC'[c] = "poll" /\ RunShare(c, 0)
    BY <1>0, <1>9 DEF RunZero, TypeOK
  <2>2. ~Done(c, 0) /\ Done(c, 0)'
    BY <2>1 DEF Done
  <2>3. ASSUME NEW t \in Nat, t # 0 PROVE Done(c, t)' <=> Done(c, t)
    <3>1. mTasksSecond'[mTaskIndex'[c]] = mTasksSecond[mTaskIndex[c]]
      BY <2>1
    <3> QED
      BY <2>1, <2>3, <3>1 DEF Done
  <2> QED
    BY <1>s, <2>1, <2>2, <2>3
<1>10. CASE Poll(c)
  <2>1. /\ UNCHANGED mNumberThread /\ UNCHANGED work[c] /\ UNCHANGED mTaskIndex[c]
        /\ UNCHANGED mTasksSecond /\ UNCHANGED pcW /\ UNCHANGED slotW /\ UNCHANGED ran[c]
        /\ pcC[c] = "poll"
    BY <1>10 DEF Poll, PollAgainFrom
  <2>2. CASE k[c] < WorkSize(c)
    <3>1. UNCHANGED pcC[c]
      BY <1>0, <1>10, <1>n, <2>2 DEF Poll, PollAgainFrom, TypeOK, WorkSize
    <3>2. mTasksSecond'[mTaskIndex'[c]] = mTasksSecond[mTaskIndex[c]]
      BY <2>1
    <3>3. ASSUME NEW t \in Worker PROVE Done(c, t)' <=> Done(c, t)
      BY <2>1, <3>1, <3>2 DEF Done
    <3> QED
      BY <1>2, <2>1, <3>1, <3>3
  <2>3. CASE k[c] >= WorkSize(c)
    <3>1. pcC'[c] = "join"
      BY <1>0, <1>10, <1>n, <2>3 DEF Poll, PollAgainFrom, TypeOK, WorkSize
    <3>2. ASSUME NEW r \in Nat, r < WorkSize(c) PROVE Done(c, r)
      <4>1. CASE r = 0
        BY <2>1, <4>1 DEF Done
      <4>2. CASE r # 0
        <5>1. r \in Worker
          BY <1>0, <3>2, <4>2, FlagExists
        <5>2. ~mTasksSecond[mTaskIndex[c]][r]
          BY <1>f, <1>n, <2>1, <2>3, <3>2, <5>1 DEF Waits, WorkSize
        <5> QED
          BY <2>1, <4>2, <5>2 DEF Done
      <4> QED
        BY <4>1, <4>2
    <3>3. ASSUME NEW v \in Work PROVE ran'[c][v] = IF v < work'[c] THEN 1 ELSE 0
      <4>1. ran[c][v] = IF v < work[c] /\ Done(c, Runner(c, v)) THEN 1 ELSE 0
        BY <1>0, <2>1 DEF RanOK
      <4>2. v < work[c] => Done(c, Runner(c, v))
        BY <1>r, <3>2
      <4> QED
        BY <2>1, <4>1, <4>2
    <3> QED
      BY <3>1, <3>3 DEF RanOK
  <2> QED
    BY <1>n, <2>2, <2>3 DEF WorkSize
\* Steps of the workers.
<1>11. ASSUME NEW u \in Worker, WorkerRun(u) PROVE RanOK(c)'
  <2>0. /\ UNCHANGED mNumberThread /\ UNCHANGED work[c] /\ UNCHANGED mTaskIndex[c] /\ UNCHANGED k[c]
        /\ UNCHANGED mTasksSecond /\ UNCHANGED slotW /\ UNCHANGED pcC[c]
        /\ pcW[u] = "run" /\ pcW' = [pcW EXCEPT ![u] = "clear"]
        /\ RunShare(mTasksFirst[slotW[u]], u) /\ slotW[u] \in Slot /\ u \in Nat /\ u >= 1
    BY <1>0, <1>11, WorkerIds DEF WorkerRun, GoTo, TypeOK
  <2>m. mTasksSecond'[mTaskIndex'[c]] = mTasksSecond[mTaskIndex[c]]
    BY <2>0
  <2>1. mTasksSecond[slotW[u]][u]
    BY <1>0, <2>0 DEF WorkerInv
  <2>2. PICK d \in Client : Waits(d, slotW[u], u)
    BY <1>0, <2>0, <2>1 DEF FlagInv
  <2>3. mTasksFirst[slotW[u]] = d
    BY <1>0, <2>2 DEF Waits, ClientInv, ClientOK
  <2>4. CASE d = c
    <3>1. InFlight(c) /\ InFlight(c)' /\ mTaskIndex[c] = slotW[u]
      BY <2>0, <2>2, <2>4 DEF Waits
    <3>2. ~Done(c, u)
      BY <2>0, <2>1, <3>1 DEF Done
    <3>3. Done(c, u)'
      <4>1. pcW'[u] = "clear"
        BY <1>0, <2>0 DEF TypeOK
      <4>2. pcC[c] = "publish" => u < k[c]
        BY <2>2, <2>4 DEF Waits
      <4> QED
        BY <2>0, <3>1, <4>1, <4>2 DEF Done
    <3>4. ASSUME NEW t \in Nat, t # u PROVE Done(c, t)' <=> Done(c, t)
      <4>1. pcW'[t] = pcW[t]
        BY <1>0, <2>0, <3>4 DEF TypeOK
      <4> QED
        BY <2>0, <2>m, <4>1 DEF Done
    <3> QED
      BY <1>s, <2>0, <2>3, <2>4, <3>1, <3>2, <3>3, <3>4
  <2>5. CASE d # c
    <3>1. UNCHANGED ran[c]
      BY <1>0, <2>0, <2>3, <2>5 DEF RunShare, TypeOK
    <3>2. ASSUME NEW t \in Worker, InFlight(c) PROVE Done(c, t)' <=> Done(c, t)
      <4>1. mTaskIndex[c] # slotW[u]
        BY <1>0, <2>2, <2>5, <3>2 DEF Waits, SlotExclusive, ClientInv, ClientOK
      <4>2. t # u => pcW'[t] = pcW[t]
        BY <1>0, <2>0 DEF TypeOK
      <4> QED
        BY <2>0, <2>m, <4>1, <4>2 DEF Done
    <3> QED
      BY <1>2, <2>0, <3>1, <3>2
  <2> QED
    BY <2>4, <2>5
<1>12. ASSUME NEW u \in Worker, WorkerClear(u) PROVE RanOK(c)'
  <2>0. /\ UNCHANGED mNumberThread /\ UNCHANGED work[c] /\ UNCHANGED mTaskIndex[c] /\ UNCHANGED k[c]
        /\ UNCHANGED ran[c] /\ UNCHANGED pcC[c] /\ pcW[u] = "clear" /\ pcW'[u] # "clear"
        /\ mTasksSecond' = [mTasksSecond EXCEPT ![slotW[u]][u] = FALSE]
        /\ slotW[u] \in Slot /\ u \in Nat /\ u >= 1
        /\ \A t \in Worker : t # u => pcW'[t] = pcW[t] /\ slotW'[t] = slotW[t]
    BY <1>0, <1>12, WorkerIds DEF WorkerClear, NextSlot, GoTo, TypeOK
  <2>1. ASSUME NEW t \in Worker, InFlight(c) PROVE Done(c, t)' <=> Done(c, t)
    <3>0. mTaskIndex[c] \in Slot
      BY <1>i, <2>1
    <3>1. CASE mTaskIndex[c] = slotW[u]
      <4>1. mTasksSecond'[mTaskIndex'[c]] = [mTasksSecond[mTaskIndex[c]] EXCEPT ![u] = FALSE]
        BY <1>0, <2>0, <3>1 DEF TypeOK
      <4>2. CASE t = u
        <5>1. ~mTasksSecond'[mTaskIndex'[c]][t]
          BY <1>0, <2>0, <3>0, <4>1, <4>2 DEF TypeOK
        <5> QED
          BY <2>0, <3>1, <4>2, <5>1 DEF Done
      <4>3. CASE t # u
        <5>1. mTasksSecond'[mTaskIndex'[c]][t] = mTasksSecond[mTaskIndex[c]][t]
          BY <1>0, <2>0, <3>0, <4>1, <4>3 DEF TypeOK
        <5> QED
          BY <2>0, <4>3, <5>1 DEF Done
      <4> QED
        BY <4>2, <4>3
    <3>2. CASE mTaskIndex[c] # slotW[u]
      <4>1. mTasksSecond'[mTaskIndex'[c]] = mTasksSecond[mTaskIndex[c]]
        BY <1>0, <2>0, <3>0, <3>2 DEF TypeOK
      <4> QED
        BY <2>0, <3>2, <4>1 DEF Done
    <3> QED
      BY <3>1, <3>2
  <2> QED
    BY <1>2, <2>0, <2>1
<1>13. ASSUME NEW u \in Worker, WorkerOuter(u) \/ WorkerInner(u) \/ WorkerScan(u) \/ WorkerLock(u)
                                 \/ WorkerCheck(u) \/ SpuriousWake(u)
       PROVE  RanOK(c)'
  <2>1. /\ UNCHANGED mNumberThread /\ UNCHANGED pcC[c] /\ UNCHANGED ran[c] /\ UNCHANGED work[c]
        /\ UNCHANGED k[c] /\ UNCHANGED mTaskIndex[c] /\ UNCHANGED mTasksSecond
    BY <1>13 DEF WorkerOuter, WorkerInner, WorkerScan, WorkerLock, WorkerCheck, CheckPredicate, SpuriousWake
  <2>2. \A t \in Worker : /\ (pcW'[t] = "clear") <=> (pcW[t] = "clear")
                          /\ pcW[t] = "clear" => slotW'[t] = slotW[t]
    BY <1>0, <1>13 DEF WorkerOuter, WorkerInner, WorkerScan, WorkerLock, WorkerCheck, CheckPredicate, SpuriousWake,
                       NextSlot, GoTo, TypeOK
  <2>3. UNCHANGED mTasksSecond[mTaskIndex[c]]
    BY <2>1
  <2> QED
    BY <1>2, <1>3, <2>1, <2>2, <2>3
<1>14. CASE DestroyStop \/ DestroyNotify \/ DestroyJoin \/ UNCHANGED vars
  <2>1. /\ UNCHANGED mNumberThread /\ UNCHANGED pcC[c] /\ UNCHANGED ran[c] /\ UNCHANGED work[c]
        /\ UNCHANGED k[c] /\ UNCHANGED mTaskIndex[c] /\ UNCHANGED mTasksSecond /\ UNCHANGED slotW
    BY <1>14 DEF DestroyStop, DestroyNotify, DestroyJoin, vars
  <2>2. \A t \in Worker : (pcW'[t] = "clear") <=> (pcW[t] = "clear")
    BY <1>0, <1>14 DEF DestroyStop, DestroyNotify, DestroyJoin, vars, Wake
  <2>3. UNCHANGED mTasksSecond[mTaskIndex[c]]
    BY <2>1
  <2> QED
    BY <1>2, <1>3, <2>1, <2>2, <2>3
<1> QED
  <2>1. ASSUME NEW d \in Client, ClientStep(d) \/ ClientCall(d) PROVE RanOK(c)'
    <3>1. CASE d # c
      BY <1>4, <2>1, <3>1
    <3>2. CASE d = c
      BY <1>5, <1>6, <1>7, <1>8, <1>9, <1>10, <2>1, <3>2 DEF ClientStep
    <3> QED
      BY <3>1, <3>2
  <2> QED
    BY <1>1, <1>11, <1>12, <1>13, <1>14, <2>1 DEF Next, WorkerStep

-----------------------------------------------------------------------------
(* The theorems.                                                           *)

\* IInv is an invariant of the pool.
THEOREM Invariance == Spec => []IInv
<1>1. IInv /\ [Next]_vars => IInv'
  BY TypeStep, PoolStep, CountStep, SlotStep, ClientInvStep, FlagStep, WorkerInvStep, RanStep
  DEF IInv
<1> QED
  BY InitIInv, <1>1, PTL DEF Spec

\* Every variable of the pool keeps its type; in particular the calls to
\* deactive() never take mActiveCount below zero.
THEOREM TypeCorrect == Spec => []TypeOK
BY Invariance, PTL DEF IInv

\* acquireWorkIndex never hands one slot to two clients.
THEOREM SlotsAreExclusive == Spec => []SlotExclusive
BY Invariance, PTL DEF IInv

\* enqueue returns only when every index of its task has run, each once.
THEOREM EnqueueRunsExactlyOnce == Spec => []ExactlyOnce
<1>1. IInv => ExactlyOnce
  BY DEF IInv, RanInv, RanOK, ExactlyOnce
<1> QED
  BY Invariance, <1>1, PTL

\* No worker touches a task whose enqueue has returned.
THEOREM NoUseAfterReturn == Spec => []TaskAlive
<1>1. IInv => TaskAlive
  <2> SUFFICES ASSUME IInv, NEW t \in Worker, pcW[t] \in {"run", "clear"}
               PROVE  \E c \in Client : /\ mTasksFirst[slotW[t]] = c
                                        /\ mTaskIndex[c] = slotW[t]
                                        /\ pcC[c] \in {"publish", "zero", "poll"}
                                        /\ t < WorkSize(c)
    BY DEF TaskAlive
  <2>1. mTasksSecond[slotW[t]][t] /\ slotW[t] \in Slot
    BY DEF IInv, WorkerInv, TypeOK
  <2>2. PICK c \in Client : Waits(c, slotW[t], t)
    BY <2>1 DEF IInv, FlagInv
  <2> QED
    BY <2>2 DEF IInv, ClientInv, ClientOK, Waits, InFlight
<1> QED
  BY Invariance, <1>1, PTL

\* While a flag raised by an active client is up, the workers' inner loop
\* keeps spinning and destroy() has not begun.
THEOREM FlagsKeepPoolActive == Spec => []RaisedFlagKeepsPoolActive
<1>1. IInv => RaisedFlagKeepsPoolActive
  <2> SUFFICES ASSUME IInv, NEW s \in Slot, NEW t \in Worker,
                      mTasksSecond[s][t], mTasksFirst[s] \notin InactiveClient
               PROVE  mActiveCount > 0 /\ ~mStop
    BY DEF RaisedFlagKeepsPoolActive
  <2> DEFINE A == {c \in Client : activated[c]}
  <2>1. PICK c \in Client : Waits(c, s, t)
    BY DEF IInv, FlagInv
  <2>2. c \in A /\ pcC[c] # "ready"
    BY <2>1 DEF IInv, ClientInv, ClientOK, Waits, InFlight
  <2>3. ~mStop
    BY <2>2 DEF IInv, PoolInv
  <2>4. IsFiniteSet(A)
    BY ClientAssumption, FS_Subset
  <2>5. Cardinality(A) \in Nat /\ Cardinality(A) # 0
    BY <2>2, <2>4, FS_CardinalityType, FS_EmptySet
  <2> QED
    BY <2>3, <2>5 DEF IInv, CountInv
<1> QED
  BY Invariance, <1>1, PTL

-----------------------------------------------------------------------------
(* The pool implements ParallelFor.                                        *)

\* Running the share of a thread that is not done is a step of the abstract
\* parallel for.
LEMMA RunShareExecs ==
    ASSUME IInv, NEW c \in Client, NEW u \in Nat, InFlight(c), ~Done(c, u), RunShare(c, u),
           UNCHANGED work, Busy' = Busy
    PROVE  Abstract!Exec(c)
<1> DEFINE S == Share(c, u)
<1>1. TypeOK /\ RanOK(c)
  BY DEF IInv, RanInv
<1>2. ASSUME NEW v \in S PROVE v \in Work /\ v < work[c] /\ ran[c][v] = 0
  <2>1. v \in Work /\ v < work[c] /\ Runner(c, v) = u
    BY <1>2 DEF Share
  <2>2. ran[c][v] = IF v < work[c] /\ Done(c, Runner(c, v)) THEN 1 ELSE 0
    BY <1>1, <2>1 DEF RanOK
  <2> QED
    BY <2>1, <2>2
<1>3. ran' = [ran EXCEPT ![c] = [v \in Work |-> IF v \in S THEN 1 ELSE ran[c][v]]]
  <2>1. [v \in Work |-> IF v \in S THEN ran[c][v] + 1 ELSE ran[c][v]]
          = [v \in Work |-> IF v \in S THEN 1 ELSE ran[c][v]]
    BY <1>2
  <2> QED
    BY <1>1, <2>1 DEF RunShare, TypeOK
<1>4. S \in SUBSET {v \in Work : v < work[c] /\ ran[c][v] = 0}
  BY <1>2
<1>5. Busy[c]
  BY DEF Busy, InFlight
<1> QED
  BY <1>3, <1>4, <1>5 DEF Abstract!Exec, Abstract!Work, Work

\* Every step of the pool is a step of ParallelFor or leaves its state alone.
LEMMA StepRefines == IInv /\ [Next]_vars => [Abstract!Next]_Abstract!vars
<1> SUFFICES ASSUME IInv, [Next]_vars PROVE [Abstract!Next]_Abstract!vars
  OBVIOUS
<1> USE DEF poolVars, slotVars, countVars, workerVars, clientVars
<1>0. TypeOK /\ RanInv
  BY DEF IInv
<1>1. ASSUME NEW c \in Client, NEW w \in WorkSizes, Enqueue(c, w) PROVE Abstract!Start(c)
  <2>1. Busy' = [Busy EXCEPT ![c] = TRUE] /\ ~Busy[c]
    BY <1>0, <1>1 DEF Enqueue, Ready, Busy, TypeOK
  <2> QED
    BY <1>1, <2>1 DEF Enqueue, Abstract!Start
<1>2. ASSUME NEW c \in Client, Return(c) PROVE Abstract!Finish(c)
  <2>1. Busy' = [Busy EXCEPT ![c] = FALSE] /\ Busy[c]
    BY <1>0, <1>2 DEF Return, Busy, TypeOK
  <2>2. \A v \in Work : ran[c][v] = IF v < work[c] THEN 1 ELSE 0
    BY <1>0, <1>2 DEF Return, RanInv, RanOK
  <2> QED
    BY <1>2, <2>1, <2>2 DEF Return, Abstract!Finish, Abstract!None, Abstract!Work, Work, NeverRan
<1>3. ASSUME NEW c \in Client, RunSerial(c) PROVE Abstract!Exec(c)
  <2> DEFINE S == {v \in Work : v < work[c]}
  <2>1. ran[c] = NeverRan /\ Busy[c] /\ UNCHANGED work
    BY <1>0, <1>3 DEF RunSerial, RanInv, RanOK, Busy
  <2>2. Busy' = Busy
    BY <1>0, <1>3 DEF RunSerial, Busy, TypeOK
  <2>3. ran' = [ran EXCEPT ![c] = [v \in Work |-> IF v \in S THEN 1 ELSE ran[c][v]]]
    <3>1. [v \in Work |-> IF v < work[c] THEN ran[c][v] + 1 ELSE ran[c][v]]
            = [v \in Work |-> IF v \in S THEN 1 ELSE ran[c][v]]
      BY <2>1 DEF NeverRan
    <3> QED
      BY <1>0, <1>3, <3>1 DEF RunSerial, TypeOK
  <2>4. S \in SUBSET {v \in Work : v < work[c] /\ ran[c][v] = 0}
    BY <2>1 DEF NeverRan
  <2> QED
    BY <2>1, <2>2, <2>3, <2>4 DEF Abstract!Exec, Abstract!Work, Work
<1>4. ASSUME NEW c \in Client, RunZero(c) PROVE Abstract!Exec(c)
  <2>1. InFlight(c) /\ ~Done(c, 0) /\ RunShare(c, 0) /\ UNCHANGED work
    BY <1>4 DEF RunZero, InFlight, Done
  <2>2. Busy' = Busy
    BY <1>0, <1>4 DEF RunZero, Busy, TypeOK
  <2> QED
    BY <2>1, <2>2, RunShareExecs
<1>5. ASSUME NEW t \in Worker, WorkerRun(t) PROVE \E c \in Client : Abstract!Exec(c)
  <2>1. /\ t \in Nat /\ t # 0 /\ pcW[t] = "run" /\ slotW[t] \in Slot /\ mTasksSecond[slotW[t]][t]
        /\ RunShare(mTasksFirst[slotW[t]], t) /\ UNCHANGED work /\ Busy' = Busy
    BY <1>0, <1>5, WorkerIds DEF WorkerRun, IInv, WorkerInv, TypeOK, Busy
  <2>2. PICK c \in Client : Waits(c, slotW[t], t)
    BY <2>1 DEF IInv, FlagInv
  <2>3. InFlight(c) /\ mTasksFirst[slotW[t]] = c /\ mTaskIndex[c] = slotW[t]
    BY <2>2 DEF IInv, ClientInv, ClientOK, Waits
  <2>4. ~Done(c, t)
    BY <2>1, <2>3 DEF Done
  <2> QED
    BY <2>1, <2>3, <2>4, RunShareExecs
<1>6. CASE UNCHANGED <<pcC, work, ran>>
  BY <1>6 DEF Abstract!vars, Busy
<1>7. ASSUME NEW c \in Client, AcquireWorkIndex(c) \/ ReleaseWorkIndex(c) \/ Active(c) \/ Deactive(c)
             \/ ActiveNotify(c) \/ EnqueueInternal(c) \/ Publish(c) \/ Poll(c)
      PROVE  UNCHANGED Abstract!vars
  <2>1. UNCHANGED work /\ UNCHANGED ran
    BY <1>7 DEF AcquireWorkIndex, AcquireAnswering, ReleaseWorkIndex, Active, Deactive, DeactiveTo, ActiveNotify,
                EnqueueInternal, Publish, PublishBelow, Poll, PollAgainFrom
  <2>2. Busy' = Busy
    BY <1>0, <1>7 DEF AcquireWorkIndex, AcquireAnswering, ReleaseWorkIndex, Active, Deactive, DeactiveTo, ActiveNotify,
                      EnqueueInternal, Publish, PublishBelow, Poll, PollAgainFrom, Ready, Busy, TypeOK
  <2> QED
    BY <2>1, <2>2 DEF Abstract!vars
<1> QED
  BY <1>1, <1>2, <1>3, <1>4, <1>5, <1>6, <1>7
  DEF Next, vars, ClientStep, ClientCall, WorkerStep, Create, DestroyStop, DestroyNotify, DestroyJoin,
      WorkerOuter, WorkerInner, WorkerScan, WorkerClear, WorkerLock, WorkerCheck, CheckPredicate, SpuriousWake,
      Abstract!Next

\* The flags, slots and active count of the pool implement the parallel for
\* that enqueue promises its callers.
THEOREM PoolRefinesParallelFor == Spec => ImplementsParallelFor
<1>1. Init => Abstract!Init
  <2> SUFFICES ASSUME Init PROVE Abstract!Init
    OBVIOUS
  <2>1. Busy = [c \in Client |-> FALSE]
    BY DEF Init, Busy
  <2>2. NeverRan = Abstract!None
    BY DEF Abstract!None, Abstract!Work, Work, NeverRan
  <2> QED
    BY <2>1, <2>2 DEF Init, Abstract!Init
<1> QED
  BY <1>1, StepRefines, Invariance, PTL DEF Spec, ImplementsParallelFor, Abstract!Spec

=============================================================================
