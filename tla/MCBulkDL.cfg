\* BulkDL: two runs for one chat, each with a choice of media types and a limit of
\* its own, over pages of two that a cap of files can cut, that a service message
\* makes look short and of which two full ones are too many; files left unfinished,
\* a page that is only failures, and a list of failed messages that holds one.
CONSTANTS
  Runs = {r1, r2}
  Initially = 2
  MaxId = 5
  Media = {1, 2, 4}
  Selections <- MCSelections
  Service = {5}
  Caps = {0, 1, 2}
  PageSize = 2
  MaxBlocks = 2
  MaxFailed = 1
  DeadMin = 2
  Interrupts = TRUE
SPECIFICATION Spec
CONSTRAINT Bounded
INVARIANTS
  NothingLost
  CompleteRunCoversHistory
SYMMETRY RunSymmetry
