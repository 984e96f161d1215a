\* FetchTasks: a download of four files, one unselected, one a torrent file.
CONSTANTS
  Files = {f1, f2, f3, f4}
  Selected = {f1, f2, f3}
  Torrents = {f3}
  Meta = meta
  Real = real
  Retry = 2
  Blocks = 2
SPECIFICATION FetchFairSpec
INVARIANTS
  CardTellsResult
  SuccessMeansStored
PROPERTIES
  TaskEnds
CHECK_DEADLOCK FALSE
