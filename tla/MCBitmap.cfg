CONSTANTS
  NBlocks = 3
  NInodes = 2
  SuperMod = 8
  GroupMod = 4
  MaxCrashes = 2
  MaxStrays = 1
SPECIFICATION Spec
INVARIANTS TypeOK Exclusive CountsBounded
PROPERTY CleanHandout
