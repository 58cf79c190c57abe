CONSTANTS
  NMINODE = 3
  NOFT = 3
  NFD = 2
  MaxIno = 3
  MaxSize = 2
  Mode <- CatModes
  MaxWrong = 1
  Dirs = {2}
  Image = {2, 3}
SPECIFICATION Spec
CHECK_DEADLOCK FALSE
INVARIANT CatFromStart
