SPECIFICATION Spec
CONSTANTS
  n = n
  p = p
  q = q
  plain = plain
  flagged = flagged
  Names = {n}
  Styles = {plain, flagged}
  Plain = plain
  Flagged = flagged
  Places = {p, q}
  Unmeasured = Unmeasured
  Nothing = Nothing
  MaxLists = 3
  MaxPins = 2
  ClosingPins = 2
  Earlier <- MCEarlier
  Listings <- MCListings
  Files <- MCFiles
  Patient = TRUE
  MaxEdits = 2
INVARIANTS
  TypeOK
  RepositoryBounds
  SavedLoads
  SelectedListExists
  SelectedPinExists
  DiskFollowsMemory
  ElevationOfPlace
  PinModeShowsList
PROPERTIES
  ImportOnlyAdds
