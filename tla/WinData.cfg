CONSTANTS
  None = None
  Win = {w1, w2}
  Kid = {c1}
  Group = {g}
  w1 = w1
  w2 = w2
  c1 = c1
  g = g
  Parent <- MCParent
  Configs <- MCConfigs
  MaxRecursion = 20
  MaxChanges = 3
  MaxQueue = 2
SPECIFICATION Spec
CHECK_DEADLOCK FALSE
INVARIANTS TypeOK CopiesFresh DecisionsFresh ActiveLeads
