SPECIFICATION Spec
CONSTANTS
  Id = {a}
  Ptr = {p1, p2}
  Null = Null
  MaxQueue = 3
  Opaque = 3
  Faint = 1
  MaxSteps = 2
  ViewTargets = {1, 3}
  Fading = {a}
  ArgbFramed = {}
  Hidden = {}
  TrackFocus = TRUE
  NoFadingOpenclose = FALSE
  UnredirIfPossible = TRUE
  LeaveTo = {"gone", "elsewhere"}
  Overlap = FALSE
SYMMETRY Symmetry
INVARIANTS
  TypeOK
  DestroyedIffCallback
  NoDamageAfterPaint
  NoLostFade
  InSync
PROPERTIES
  FreedWhenFaded
