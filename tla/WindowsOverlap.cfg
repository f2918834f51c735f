SPECIFICATION Spec
CONSTANTS
  Id = {a}
  Ptr = {p1, p2}
  Null = Null
  MaxQueue = 2
  Opaque = 3
  Faint = 0
  MaxSteps = 1
  ViewTargets = {3}
  Fading = {a}
  ArgbFramed = {}
  Hidden = {}
  TrackFocus = TRUE
  NoFadingOpenclose = FALSE
  UnredirIfPossible = FALSE
  LeaveTo = {"gone", "elsewhere"}
  Overlap = TRUE
SYMMETRY Symmetry
INVARIANTS
  DestroyedIffCallback
