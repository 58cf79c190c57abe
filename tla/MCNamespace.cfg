CONSTANTS
  MaxIno = 4
  MaxBlock = 4
  Name <- TwoNames
  Prefix <- Begins
  Target = {4, 5}
  Room = 3
  MaxLinks = 2
  MaxKills = 2
SPECIFICATION Spec
CHECK_DEADLOCK FALSE
INVARIANTS NamesLead BlocksOwned Tree
