CONSTANTS
  Size = 9
  MaxReq = 4
SPECIFICATION Spec
INVARIANT OnlyForeignRefused
