CONSTANTS
  Clients = {c1}
  c1 = c1
  ManagerPid = ManagerPid
  NoKey = NoKey
  NServers = 3
  NKeys = 3
  ClientCmds = {"ADD", "DISPOSE", "UPDATE", "OBTAIN"}
  ChangesPerServer = 1
  MaxReqId = 1
  Uninitialised = {0, 2}
  MaxTimeouts = 0
SPECIFICATION Spec
INVARIANTS
  TypeOK
  NeverCrossed
  KnownStored
  AnswersMatch
  SeparatorsSorted
  RoutableBeforeLeft
PROPERTIES
  EveryRequestReturns
  ImplementsKeyMap
