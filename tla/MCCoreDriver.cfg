CONSTANTS
  r1 = r1
  r2 = r2
  d1 = d1
  d2 = d2
  Requests = {r1, r2}
  Devices = {d1, d2}
  BootDevices = {d1}
  Kinds <- MCKinds
  Faults = {"pools", "hashes", "pnp", "hooker", "filter", "copy", "post", "context"}
SPECIFICATION FairSpec
CHECK_DEADLOCK FALSE
INVARIANTS
    DriverInvariant
    CodeOutlivesItsCallers
    PassedOnce
PROPERTIES
    UnloadEnds
