CONSTANTS
  MaxNode = 4
  Name = {A, B}
  Path <- SomePaths
  MaxDname = 1
  MaxLine = 2
SPECIFICATION Spec
SYMMETRY Symmetry
INVARIANTS TreeOK SavedWhole
