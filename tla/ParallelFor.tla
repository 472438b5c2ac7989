---------------------------- MODULE ParallelFor ----------------------------
(***************************************************************************)
(* What ThreadPool::enqueue promises its callers, whatever threads run the *)
(* work: enqueue of a task of size w runs every index 0..w-1 exactly once, *)
(* in any order and any grouping, and returns only when all of them ran.   *)
(***************************************************************************)
EXTENDS Integers

CONSTANTS
    Client,    \* callers
    WorkSizes, \* task sizes
    MaxWork    \* an upper bound on WorkSizes

Work == 0..(MaxWork - 1)

VARIABLES
    busy,  \* busy[c]: c is inside enqueue
    size,  \* size[c]: the size of c's task, 0 when it has none
    count  \* count[c][v]: how often index v of that task has run

vars == <<busy, size, count>>

None == [v \in Work |-> 0]

Init ==
    /\ busy = [c \in Client |-> FALSE]
    /\ size = [c \in Client |-> 0]
    /\ count = [c \in Client |-> None]

Start(c) ==
    /\ ~busy[c]
    /\ \E w \in WorkSizes : size' = [size EXCEPT ![c] = w]
    /\ busy' = [busy EXCEPT ![c] = TRUE]
    /\ UNCHANGED count

\* Some indices that have not run yet run.
Exec(c) ==
    /\ busy[c]
    /\ \E S \in SUBSET {v \in Work : v < size[c] /\ count[c][v] = 0} :
          count' = [count EXCEPT ![c] = [v \in Work |-> IF v \in S THEN 1 ELSE count[c][v]]]
    /\ UNCHANGED <<busy, size>>

Finish(c) ==
    /\ busy[c]
    /\ \A v \in Work : count[c][v] = (IF v < size[c] THEN 1 ELSE 0)
    /\ busy' = [busy EXCEPT ![c] = FALSE]
    /\ size' = [size EXCEPT ![c] = 0]
    /\ count' = [count EXCEPT ![c] = None]

Next == \E c \in Client : Start(c) \/ Exec(c) \/ Finish(c)

Spec == Init /\ [][Next]_vars

=============================================================================
