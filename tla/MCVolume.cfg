CONSTANTS
  NUM_DIRECT = 3
  PER_BLOCK = 4
  NBLOCKS = 26
  File = {1, 2}
  Setup <- MCSetup
  MaxAfter = 3
  ShortA = ShortA
  ShortB = ShortB
  LongA = LongA
  LongB = LongB
  LongC = LongC
  Name = {ShortA, ShortB, LongA, LongB, LongC}
  Long = {LongA, LongB, LongC}
  DIR_UNITS = 3
  Lost = Lost
SPECIFICATION Spec
SYMMETRY Symmetry
INVARIANTS Owned ChainOK
PROPERTIES FilesRefine NamesRefine LeaksOnlyMiddle
CHECK_DEADLOCK FALSE
