SPECIFICATION Spec
CONSTANTS
  Id = {a, b}
  Ptr = {p1, p2}
  Null = Null
  MaxQueue = 2
  Opaque = 2
  Faint = 0
  MaxSteps = 1
  ViewTargets = {2}
  Fading = {a, b}
  ArgbFramed = {}
  Hidden = {}
  TrackFocus = TRUE
  NoFadingOpenclose = FALSE
  UnredirIfPossible = FALSE
  LeaveTo = {"gone"}
  Overlap = FALSE
SYMMETRY Symmetry
INVARIANTS
  NoDangling
  FocusIsViewable
