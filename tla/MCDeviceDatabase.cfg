CONSTANTS
  t1 = t1
  t2 = t2
  w = w
  un = un
  bus = bus
  busFilter = busFilter
  child = child
  childFilter = childFilter
  between = between
  Threads = {t1, t2, w, un}
  Workers = {w}
  Devices = {bus, busFilter, child, childFilter, between}
  Pdos = {bus, child}
  Filters = {busFilter, childFilter}
  Boot <- MCBoot
  Eligible = {}
  Removal <- MCRemoval
  Scripts <- MCScripts
  MaxObjs = 9
  Faults = {"create", "insert", "post"}
SPECIFICATION FairSpec
CHECK_DEADLOCK FALSE
INVARIANTS
    DatabaseInvariant
    ObjectsOutliveTheirUsers
    DevicesOutliveTheirQueries
PROPERTIES
    ReportsEnd
