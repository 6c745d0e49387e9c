CONSTANTS
  ListSize = 9
  ListMaxReq = 4
  TagsSize = 26
  TagsMaxReq = 4
  BuddiesPower = 3
SPECIFICATION Spec
INVARIANTS TypeOK Tiled Coalesced FreeSpaceExact StaleRefused Linked NoSlivers Halved
PROPERTIES ImplementsArena
CHECK_DEADLOCK FALSE
