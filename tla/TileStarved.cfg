SPECIFICATION FairSpec
CONSTANTS
  a = a
  b = b
  Keys = {a, b}
  Fallback <- ChildFallback
  TextureBudget = 1
  Screens = {"map"}
  UserActions = {}
  Faults = FALSE
  NoTask = NoTask
PROPERTIES
  VisibleTileServed
