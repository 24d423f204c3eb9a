SPECIFICATION Spec
CONSTANTS
  a = a
  b = b
  Keys = {a, b}
  Fallback <- NoFallback
  TextureBudget = 1
  Screens = {"map", "atlas", "other"}
  UserActions = {"search"}
  Faults = TRUE
  NoTask = NoTask
SYMMETRY Symmetry
INVARIANTS
  TypeOK
  ObsoleteTransferCancelled
  SuccessNeverCharged
  NoDuplicateWork
  ReadyHasTexture
PROPERTIES
  DocumentedLifecycle
