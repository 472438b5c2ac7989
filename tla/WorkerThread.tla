---------------------------- MODULE WorkerThread ----------------------------
(***************************************************************************)
(* WorkerThread of source/core/WorkerThread.cpp: a queue of tasks, worker  *)
(* threads that take them from the front, and a destructor that joins the  *)
(* workers and runs what they left.  A step is what happens between two    *)
(* operations other threads can see: a critical section of mQueueMutex, a  *)
(* notify_all, a read of mStop, the start or the end of a task.            *)
(***************************************************************************)
EXTENDS Integers, Sequences, SequencesExt, FiniteSets

CONSTANTS
    Worker,   \* mWorkers
    Poster,   \* threads that call postTask
    Task      \* the tasks they post, each once

ASSUME WorkerAssumption == IsFiniteSet(Worker) /\ IsFiniteSet(Task)

VARIABLES
    mTasks,  \* queue
    mStop,
    wpc,     \* worker -> "loop", "lock", "asleep", "run", "exited"
    hand,    \* worker -> the task it runs, as a set of at most one
    ppc,     \* poster -> "idle", "notify"
    dpc,     \* the owner: "alive", "notify", "join", "drain", "destroyed"
    posted,  \* history: the tasks handed over so far
    done     \* history: the tasks in the order they ended

taskVars == <<mTasks, mStop, wpc, hand, ppc, dpc, posted, done>>

TasksInit ==
    /\ mTasks = << >> /\ mStop = FALSE
    /\ wpc = [w \in Worker |-> "loop"]
    /\ hand = [w \in Worker |-> {}]
    /\ ppc = [p \in Poster |-> "idle"]
    /\ dpc = "alive"
    /\ posted = {} /\ done = << >>

\* mCondition.notify_all(): sleepers will take the mutex and look again.
NotifyAll == wpc' = [w \in Worker |-> IF wpc[w] = "asleep" THEN "lock" ELSE wpc[w]]

-----------------------------------------------------------------------------
(* postTask; it is not called once the owner has started to destroy. *)

Post(p, t) ==
    /\ ppc[p] = "idle" /\ dpc = "alive" /\ t \notin posted
    /\ mTasks' = Append(mTasks, t)
    /\ posted' = posted \union {t}
    /\ ppc' = [ppc EXCEPT ![p] = "notify"]
    /\ UNCHANGED <<mStop, wpc, hand, dpc, done>>

\* Mutant: the task is queued and nobody is told.
PostNotifyLost(p) ==
    /\ ppc[p] = "notify"
    /\ ppc' = [ppc EXCEPT ![p] = "idle"]
    /\ UNCHANGED <<mTasks, mStop, wpc, hand, dpc, posted, done>>

PostNotify(p) ==
    /\ ppc[p] = "notify"
    /\ NotifyAll
    /\ ppc' = [ppc EXCEPT ![p] = "idle"]
    /\ UNCHANGED <<mTasks, mStop, hand, dpc, posted, done>>

-----------------------------------------------------------------------------
(* A worker *)

\* while (!mStop)
Loop(w) ==
    /\ wpc[w] = "loop"
    /\ wpc' = [wpc EXCEPT ![w] = IF mStop THEN "exited" ELSE "lock"]
    /\ UNCHANGED <<mTasks, mStop, hand, ppc, dpc, posted, done>>

\* Under mQueueMutex: wait unless stopped or a task is there; then take the
\* front task, or go round when there is none.
TakeFrom(w, removed) ==
    /\ wpc[w] = "lock"
    /\ \/ /\ ~mStop /\ mTasks = << >>
          /\ wpc' = [wpc EXCEPT ![w] = "asleep"]
          /\ UNCHANGED <<mTasks, hand>>
       \/ /\ mStop /\ mTasks = << >>
          /\ wpc' = [wpc EXCEPT ![w] = "loop"]
          /\ UNCHANGED <<mTasks, hand>>
       \/ /\ mTasks # << >>
          /\ hand' = [hand EXCEPT ![w] = {Head(mTasks)}]
          /\ mTasks' = removed
          /\ wpc' = [wpc EXCEPT ![w] = "run"]
    /\ UNCHANGED <<mStop, ppc, dpc, posted, done>>

\* Mutant: the front is read and not popped in the same critical section.
TakeKeepsFront(w) == TakeFrom(w, mTasks)

Take(w) == TakeFrom(w, Tail(mTasks))

\* f->content() ends, and the task is deleted.
RunLeaving(w, left) ==
    /\ wpc[w] = "run"
    /\ done' = done \o SetToSeq(hand[w])
    /\ hand' = [hand EXCEPT ![w] = left]
    /\ wpc' = [wpc EXCEPT ![w] = "loop"]
    /\ UNCHANGED <<mTasks, mStop, ppc, dpc, posted>>

\* Mutant: the worker goes on with the task still in its hands.
RunKeepsTask(w) == RunLeaving(w, hand[w])

Run(w) == RunLeaving(w, {})

\* A condition variable may wake without a notification.
SpuriousWake(w) ==
    /\ wpc[w] = "asleep"
    /\ wpc' = [wpc EXCEPT ![w] = "lock"]
    /\ UNCHANGED <<mTasks, mStop, hand, ppc, dpc, posted, done>>

-----------------------------------------------------------------------------
(* The destructor *)

DestroyStop ==
    /\ dpc = "alive" /\ \A p \in Poster : ppc[p] = "idle"
    /\ mStop' = TRUE
    /\ dpc' = "notify"
    /\ UNCHANGED <<mTasks, wpc, hand, ppc, posted, done>>

\* Mutant: the destructor stops the workers without waking them.
DestroyNotifyLost ==
    /\ dpc = "notify"
    /\ dpc' = "join"
    /\ UNCHANGED <<mTasks, mStop, wpc, hand, ppc, posted, done>>

DestroyNotify ==
    /\ dpc = "notify"
    /\ NotifyAll
    /\ dpc' = "join"
    /\ UNCHANGED <<mTasks, mStop, hand, ppc, posted, done>>

DestroyJoin ==
    /\ dpc = "join" /\ \A w \in Worker : wpc[w] = "exited"
    /\ dpc' = "drain"
    /\ UNCHANGED <<mTasks, mStop, wpc, hand, ppc, posted, done>>

\* Complete Remain work
DrainWhile(more) ==
    /\ dpc = "drain"
    /\ \/ /\ more
          /\ done' = Append(done, Head(mTasks))
          /\ mTasks' = Tail(mTasks)
          /\ UNCHANGED dpc
       \/ /\ ~more
          /\ dpc' = "destroyed"
          /\ UNCHANGED <<mTasks, done>>
    /\ UNCHANGED <<mStop, wpc, hand, ppc, posted>>

\* Mutant: what the workers left is dropped.
DrainDrops == DrainWhile(FALSE)

Drain == DrainWhile(mTasks # << >>)

TasksNext ==
    \/ \E p \in Poster : (\E t \in Task : Post(p, t)) \/ PostNotify(p)
    \/ \E w \in Worker : Loop(w) \/ Take(w) \/ Run(w) \/ SpuriousWake(w)
    \/ DestroyStop \/ DestroyNotify \/ DestroyJoin \/ Drain

TasksSpec == TasksInit /\ [][TasksNext]_taskVars

\* The threads keep running and tasks end; nobody has to post or to destroy,
\* and nothing rests on a spurious wake-up.
FairTasksSpec ==
    /\ TasksSpec
    /\ \A p \in Poster : WF_taskVars(PostNotify(p))
    /\ \A w \in Worker : WF_taskVars(Loop(w) \/ Take(w) \/ Run(w))
    /\ WF_taskVars(DestroyNotify \/ DestroyJoin \/ Drain)

-----------------------------------------------------------------------------

\* Workers hold a task exactly while they run one.
TasksTypeOK ==
    /\ mTasks \in Seq(Task) /\ mStop \in BOOLEAN
    /\ wpc \in [Worker -> {"loop", "lock", "asleep", "run", "exited"}]
    /\ hand \in [Worker -> SUBSET Task]
    /\ \A w \in Worker : Cardinality(hand[w]) = IF wpc[w] = "run" THEN 1 ELSE 0
    /\ ppc \in [Poster -> {"idle", "notify"}]
    /\ dpc \in {"alive", "notify", "join", "drain", "destroyed"}
    /\ posted \subseteq Task /\ done \in Seq(Task)

\* Every posted task is at one place: waiting once, with one worker, or done
\* once.  Once the destructor has returned that is done, also for the tasks
\* no worker had taken when it began.
RunsOnce ==
    \A t \in posted :
        LET at(s) == Cardinality({i \in DOMAIN s : s[i] = t})
            holders == Cardinality({w \in Worker : t \in hand[w]})
        IN  /\ at(mTasks) + holders + at(done) = 1
            /\ dpc = "destroyed" => at(done) = 1

\* A posted task is run without the help of a destructor: the worker that looked
\* at the empty queue just before the push is woken by the notification.
PostedRuns ==
    \A t \in Task : (t \in posted) ~> (\E i \in DOMAIN done : done[i] = t)

\* The destructor returns whatever the workers were doing when it began.
DestroyReturns == (dpc = "notify") ~> (dpc = "destroyed")

=============================================================================
