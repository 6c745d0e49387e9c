CONSTANTS
  NServers = 4
  MaxCount = 3
  MaxExcess = 2
SPECIFICATION Spec
INVARIANTS
  TypeOK
  NeverDrained
  EndsBalanced
  FewestMoves
PROPERTY AlwaysReturns
CHECK_DEADLOCK FALSE
