CONSTANTS
  T = 2
  MaxKey = 10
  Failures = {0, 1, 2}
SPECIFICATION Spec
INVARIANTS TypeOK WellFormed ReadsExact
PROPERTY ChangesExact
CHECK_DEADLOCK FALSE
