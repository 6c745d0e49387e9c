\* Two servers, a pool and a schema, and a client that disposes the schema.
CONSTANTS
  c1 = c1
  Clients = {c1}
  NCollections = 1
  NKeys = 1
  ClientCmds = {"ADD_POOL", "ADD_SCHEMA", "DISPOSE_SCHEMA"}
  ChangesPerServer = 2
  MaxReqId = 1
  MaxSpawned = 2
  StopAfter = {}
  Uninitialised = {0}
  MaxFaults = 0
SPECIFICATION Spec
PROPERTIES DisposedEverywhere
CHECK_DEADLOCK FALSE
