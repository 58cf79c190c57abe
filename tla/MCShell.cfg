CONSTANTS
  MaxProc = 4
  Command <- SomeCommands
  Lines = 2
  Cap = 1
  MaxTyped = 3
SPECIFICATION Spec
CHECK_DEADLOCK FALSE
INVARIANTS OneReader Quiet
PROPERTIES ProgramsEnd
