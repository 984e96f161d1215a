CONSTANTS
    top = top
    below = below
    outer = outer
    inner = inner
    Root = Root
    Nothing = Nothing
    LocalFiles = {top, below}
    Dirs = {Root, outer, inner}
    Parent <- MCParent
    Callbacks = {c1, c2}
    Removable = {top}
    MaxSize = 2
    MaxChanges = 2
    MaxFaults = 1
SPECIFICATION FairWatcherSpec
INVARIANTS ChangesInHand
PROPERTIES ChangesSubmitted
CHECK_DEADLOCK FALSE
