CONSTANTS
  Clients = {c1}
  c1 = c1
  ManagerPid = ManagerPid
  NoKey = NoKey
  NServers = 2
  NKeys = 1
  ClientCmds = {"ADD", "DISPOSE"}
  ChangesPerServer = 2
  MaxReqId = 2
  Uninitialised = {0, 2}
  MaxTimeouts = 1
SPECIFICATION Spec
PROPERTIES
  TransfersKeepKeys
  EveryRequestReturns
  ManagerReturns
