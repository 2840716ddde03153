CONSTANTS
  t1 = t1
  t2 = t2
  t3 = t3
  child = child
  bus = bus
  legacy = legacy
  Threads = {t1, t2, t3}
  Devices = {child, bus, legacy}
  PnpDevices = {child, bus}
  Boot <- MCBoot
  Scripts <- MCScripts
  MaxExts = 7
  Faults = {"create", "hook", "pool"}
SPECIFICATION FairSpec
CHECK_DEADLOCK FALSE
INVARIANTS
    FilterInvariant
    ExtensionsOutliveTheirUsers
    DeletionIsTheLastWord
PROPERTIES
    RequestsEnd
