SPECIFICATION Spec
CONSTANTS
    r1 = r1
    r2 = r2
    NoPool = NoPool
    Runtime = {r1, r2}
    Mask = {0, 1}
    Tid = {1, 2}
    NumThreads = {1, 2, 4}
    MAX_THREAD_NUMBER = 3
    MNN_THREAD_POOL_MAX_TASKS = 1
    MaxDepth = 3
SYMMETRY RuntimeSymmetry
INVARIANTS TypeOK PoolsAccounted RegionProtocol ThreadNumberFits
