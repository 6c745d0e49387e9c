CONSTANTS
  Clients = {c1, c2}
  c1 = c1
  c2 = c2
  ManagerPid = ManagerPid
  NoKey = NoKey
  NServers = 2
  NKeys = 2
  ClientCmds = {"ADD", "DISPOSE"}
  ChangesPerServer = 1
  MaxReqId = 1
  Uninitialised = {0}
  MaxTimeouts = 0
SPECIFICATION Spec
INVARIANTS
  OneMessagePerClient
PROPERTIES
  TransfersKeepKeys
  ImplementsKeyMap
SYMMETRY ClientSymmetry
