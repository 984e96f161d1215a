\* WatchUploader: two files, two workers, the main loop and a timer; a channel that holds every file.
CONSTANTS
  Files = {f1, f2}
  Workers = {w1, w2}
  Submitters = {main, timer}
  MainLoop = main
  NoFile = NoFile
  QueueSize = 2
  Retry = 2
  MaxVersion = 2
SPECIFICATION Spec
INVARIANTS
  OneJobPerFile
PROPERTIES
  StorageNeverRegresses
  ChangesAreUploaded
CHECK_DEADLOCK FALSE
