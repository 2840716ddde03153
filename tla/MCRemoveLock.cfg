SPECIFICATION RlSpec
CONSTANTS
    p1 = p1
    p2 = p2
    p3 = p3
    p4 = p4
    Callers <- MCCallers
    Removers <- MCRemovers
\* After the removal every caller is gone, refused or never came.
CHECK_DEADLOCK FALSE
INVARIANTS
    CountIsExact
    SignalMeansEmpty
PROPERTIES
    SomeRemoverReturns
    ImplementsRundown
