SPECIFICATION Spec
CONSTANTS
  Id = {a, b, c, o}
  Overlay = o
  None = None
  MaxQueue = 2
  MaxStructs = 3
SYMMETRY Symmetry
INVARIANTS
  TypeOK
  InOrder
