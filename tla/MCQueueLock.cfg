SPECIFICATION Spec
CONSTANTS
    p1 = p1
    p2 = p2
    p3 = p3
    p4 = p4
    c1 = c1
    c2 = c2
    none = none
    Procs <- MCProcs
    Contexts <- MCContexts
    ContextsOf <- MCContextsOf
    NoBlock <- none
INVARIANTS
    QueueInvariant
PROPERTIES
    ImplementsBarrierLock
    WaitersGetTheLock
