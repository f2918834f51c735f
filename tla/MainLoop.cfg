SPECIFICATION FairSpec
CONSTANTS
  FadeDelta = 5
  Delay = 20
  MaxFade = 2
  MaxLag = 9
  MaxEvents = 1
INVARIANTS
  TypeOK
  NothingForgotten
PROPERTIES
  FadePace
  UnredirDelayed
  FadesEnd
