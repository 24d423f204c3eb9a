SPECIFICATION Spec
CONSTANTS
  a = a
  b = b
  Keys = {a, b}
  Fallback <- NoFallback
  TextureBudget = 1
  Screens = {"map", "other"}
  UserActions = {"clear"}
  Faults = FALSE
  NoTask = NoTask
SYMMETRY Symmetry
INVARIANTS
  ReadyHasTexture
