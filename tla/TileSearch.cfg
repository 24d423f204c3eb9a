SPECIFICATION FairSpec
CONSTANTS
  a = a
  b = b
  Keys = {a}
  Fallback <- NoFallback
  TextureBudget = 1
  Screens = {"map", "other"}
  UserActions = {"search", "clear"}
  Faults = FALSE
  NoTask = NoTask
PROPERTIES
  SearchAnswered
