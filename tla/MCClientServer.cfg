CONSTANTS
  Cap = 1
  MaxLines = 2
  MaxCmds = 2
  MaxClients = 2
SPECIFICATION Spec
CHECK_DEADLOCK FALSE
INVARIANTS NeverStarved InStep WholeTransfer
PROPERTIES Answered FreedByDeath
