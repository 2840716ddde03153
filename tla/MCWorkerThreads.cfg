SPECIFICATION Spec
CONSTANTS
    p1 = p1
    p2 = p2
    h1 = h1
    h2 = h2
    none = none
    NumberOfThreads = 2
    Posters <- MCPosters
    Heap <- MCHeap
    PrivateList = FALSE
    None <- none
CHECK_DEADLOCK FALSE
INVARIANTS
    PoolInvariant
    IdleThreadsAreCalled
PROPERTIES
    SynchronousPostReturns
    PoolStops
