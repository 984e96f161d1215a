\* LinkTasks: three links, with a duplicate URL or one file name for two.
CONSTANTS
  N = 3
  u1 = u1
  u2 = u2
  n1 = n1
  n2 = n2
  Urls = {u1, u2}
  Names = {n1, n2}
  Lists <- MCLists
  None = None
  Limit = 2
  Retry = 2
  Chunks = 2
SPECIFICATION Spec
INVARIANTS
  SavedIsOwn
  OutcomeIsTrue
