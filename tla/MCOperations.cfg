CONSTANTS
  r1 = r1
  r2 = r2
  Irps = {r1, r2}
  Depth = 2
  Requests <- MCRequests
  Faults <- MCFaults
SPECIFICATION FairSpec
CHECK_DEADLOCK FALSE
INVARIANTS
    OperationInvariant
    PagesUnlockedAtCompletion
    CompletedOnce
PROPERTIES
    RequestsEnd
