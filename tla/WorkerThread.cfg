SPECIFICATION FairTasksSpec
CONSTANTS
    w1 = w1
    w2 = w2
    p1 = p1
    p2 = p2
    t1 = t1
    t2 = t2
    t3 = t3
    Worker = {w1, w2}
    Poster = {p1, p2}
    Task = {t1, t2, t3}
INVARIANTS TasksTypeOK RunsOnce
PROPERTIES PostedRuns DestroyReturns
CHECK_DEADLOCK FALSE
