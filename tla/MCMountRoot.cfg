CONSTANTS
  NMINODE = 4
  ROOT_INODE = 2
  Image <- MCImage
  Paths <- MCPaths
  Begins <- MCBegins
  Lost = Lost
SPECIFICATION Spec
INVARIANTS SlotsTrue PwdReturns
PROPERTIES Walks
