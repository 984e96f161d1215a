\* TaskQueue: safety, refinement and liveness on a small instance.
CONSTANTS
  t1 = t1
  t2 = t2
  t3 = t3
  Tasks <- MCTasks
  IDs <- MCIDs
  IdOf <- MCIdOf
  Workers = {w1, w2}
  Cancellers = {c1}
  NoTask = NoTask
  NoOne = NoOne
SPECIFICATION Spec
INVARIANTS
  MapsMatchQueue
  OneLiveTaskPerId
  WakeupsCoverTasks
PROPERTIES
  RejectedOnlyForCause
  ImplementsLifecycle
  EveryTaskSettles
  WorkersDrain
