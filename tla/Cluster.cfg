\* The terminal starts and ends servers while one client adds and disposes
\* structures, writes keys and reads ranges.
CONSTANTS
  c1 = c1
  Clients = {c1}
  NCollections = 1
  NKeys = 2
  ClientCmds = {"ADD_POOL", "ADD_SCHEMA", "ADD_COLLECTION", "DISPOSE_POOL", "DISPOSE_SCHEMA", "DISPOSE_COLLECTION", "ADD", "DISPOSE", "OBTAIN_BETWEEN"}
  ChangesPerServer = 2
  MaxReqId = 1
  MaxSpawned = 2
  StopAfter = {"crossed", "half_disposed", "stray_range", "unknown_path", "dropped_above", "fault", "short_count"}
  Uninitialised = {0}
  MaxFaults = 1
SPECIFICATION Spec
INVARIANTS TypeOK StructuresAgree RoutesKnown RoutesInside OrderlyUseIsSafe
PROPERTIES EndedEmpty RangeExact ShutdownEnds
CHECK_DEADLOCK FALSE
