SPECIFICATION Spec
CONSTANTS
  StyleCount = 2
  Topo = 1
  Gap <- MCGap
  Deepest = 2
  LongMax = 2147483647
  Contents <- MCContents
  Camera <- MCCamera
  Pans <- MCPans
  Habits <- MCHabits
INVARIANTS
  TypeOK
  OnlyClearCancels
  SearchHasAnswer
  ClearIsShown
  ConfirmedOnCacheRow
  StyleFollowsHiking
  AtlasRequestsStored
  FocusRequested
PROPERTIES
  RequestsSpaced
