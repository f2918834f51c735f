SPECIFICATION FairSpec
CONSTANTS
  FadeDelta = 5
  Delay = 5
  MaxFade = 1
  MaxLag = 6
  MaxEvents = 1
PROPERTIES
  UnredirHappens
