SPECIFICATION FairSpec
CONSTANTS
  a = a
  b = b
  Keys = {a, b}
  Fallback <- NoFallback
  TextureBudget = 1
  Screens = {"map"}
  UserActions = {}
  Faults = FALSE
  NoTask = NoTask
PROPERTIES
  StopTerminates
  VisibleTileServed
