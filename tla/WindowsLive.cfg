SPECIFICATION FairSpec
CONSTANTS
  Id = {a}
  Ptr = {p1, p2}
  Null = Null
  MaxQueue = 2
  Opaque = 2
  Faint = 0
  MaxSteps = 1
  ViewTargets = {2}
  Fading = {a}
  ArgbFramed = {}
  Hidden = {}
  TrackFocus = FALSE
  NoFadingOpenclose = FALSE
  UnredirIfPossible = FALSE
  LeaveTo = {"gone", "elsewhere"}
  Overlap = FALSE
PROPERTIES
  DestroyedIsFreed
