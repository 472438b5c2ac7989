SPECIFICATION FairSpec
CONSTANTS
    NoClient = NoClient
    Client = {c1, c2, c3}
    NumberThreads = {2}
    MaxTasks = 2
    WorkSizes = {3}
    MaxWork = 3
    InactiveClient = {}
INVARIANTS TypeOK ExactlyOnce TaskAlive SlotExclusive RaisedFlagKeepsPoolActive
PROPERTIES ImplementsParallelFor EnqueueReturns DestroyReturns
