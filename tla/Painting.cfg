CONSTANTS
  Configs <- MCConfigs
  Sizes = {s1, s2}
  RootSizes = {r1, r2}
  MaxEvents = 2
SPECIFICATION Spec
SYMMETRY AnySize
INVARIANTS TypeOK Current Accounted
