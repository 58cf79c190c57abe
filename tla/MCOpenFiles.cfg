CONSTANTS
  NMINODE = 3
  NOFT = 2
  NFD = 2
  MaxIno = 5
  MaxSize = 0
  Mode <- RefModes
  MaxWrong = 1
  Dirs = {2, 3, 5}
  Image = {2,3,4}
SPECIFICATION Spec
CHECK_DEADLOCK FALSE
INVARIANTS RefsAccounted Pinned OwnEntry SingleWriter
