SPECIFICATION Spec
CONSTANTS
  a1 = a1
  a2 = a2
  b1 = b1
  small = small
  large = large
  spoiled = spoiled
  Keys = {a1, a2, b1}
  Style <- MCStyle
  Payloads = {small, large}
  Spoiled = {spoiled}
  Partial = Partial
  Nothing = Nothing
  Size <- MCSize
  MaxTile = 2
  MemoryBudget = 2
  DiskBudget = 3
  ScanEvery = 2
  Refusals <- MCRefusals
  Earlier <- MCEarlier
INVARIANTS
  TypeOK
  MemoryAgrees
PROPERTIES
  GrowsWithinBudget
  OldestFirst
  StylesIndependent
  StoreSpec
