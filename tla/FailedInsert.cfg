CONSTANTS
  T = 2
  MaxKey = 4
  Failures = {0, 1, 2}
SPECIFICATION Spec
PROPERTY FailedInsertKeepsTree
CHECK_DEADLOCK FALSE
