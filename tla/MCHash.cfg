SPECIFICATION Spec
CONSTANTS
    t1 = t1
    t2 = t2
    t3 = t3
    c1 = c1
    c2 = c2
    key = key
    none = none
    Threads <- MCThreads
    Contexts <- MCContexts
    Keys <- MCKeys
    KeyOf <- MCKeyOf
    MaxEntries = 2
    MaxOwned = 1
    None <- none
CHECK_DEADLOCK FALSE
INVARIANTS
    HashInvariant
    FoundContextIsValid
PROPERTIES
    ImplementsContextTable
    OperationsEnd
