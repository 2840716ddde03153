SPECIFICATION RwSpec
CONSTANTS
    t1 = t1
    t2 = t2
    t3 = t3
    t4 = t4
    Threads <- MCThreads
    MaxProcessors = 3
    Bias = 8
INVARIANTS
    CounterIsExact
    MutualExclusion
PROPERTIES
    SomeoneEnters
    WritersLeave
    ImplementsRwLock
