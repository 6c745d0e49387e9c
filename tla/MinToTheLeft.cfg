CONSTANTS
  Clients = {c1}
  c1 = c1
  ManagerPid = ManagerPid
  NoKey = NoKey
  NServers = 2
  NKeys = 3
  ClientCmds = {"ADD", "DISPOSE"}
  ChangesPerServer = 2
  MaxReqId = 1
  Uninitialised = {0}
  MaxTimeouts = 0
SPECIFICATION Spec
PROPERTIES
  SendsMinToTheLeft
