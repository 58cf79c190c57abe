CONSTANTS
  NMINODE = 3
  MaxIno = 5
  Value = {v1, v2}
  MaxRefs = 2
SPECIFICATION Spec
SYMMETRY Symmetry
INVARIANTS TypeOK Unique PointersStable EvictionSafe Settled
PROPERTY ImplementsStore
