SPECIFICATION Spec
CONSTANTS
  a = a
  b = b
  Keys = {a, b}
  Fallback <- NoFallback
  TextureBudget = 1
  Screens = {"map", "atlas", "other"}
  UserActions = {}
  Faults = FALSE
  NoTask = NoTask
SYMMETRY Symmetry
INVARIANTS
  AtlasStaysOffline
