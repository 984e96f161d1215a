\* BatchFile: three files in calls of every kind.
CONSTANTS
  N = 3
  Shapes <- MCShapes
  NoKey = "none"
  Limit = 2
  Retry = 2
  Chunks = 2
SPECIFICATION Spec
INVARIANTS
  NilMeansSettled
  StoredWhole
  FailuresStayIsolated
  CacheIsEmptied
PROPERTIES
  ExecuteReturns
CHECK_DEADLOCK FALSE
