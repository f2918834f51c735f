CONSTANTS
  Area = {a1, a2}
  MaxAge = 5
SPECIFICATION BuffersSpec
INVARIANTS BuffersTypeOK BackCovered
PROPERTY Implements
