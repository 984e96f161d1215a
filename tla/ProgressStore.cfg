\* ProgressStore: two API tasks, one with a webhook and a copy goroutine, a DELETE
\* request, and a bot that cancels any of them; two webhook attempts for three.
CONSTANTS
  Tasks = {t1, t2}
  Hooked = {t1}
  Detached = {t1}
  Deleters = {d1}
  NoTask = NoTask
  MaxAttempts = 2
SPECIFICATION Spec
INVARIANTS
  StatusTellsOutcome
  LiveTaskTracked
PROPERTIES
  EveryAcceptedTaskReports
  WebhookDelivered
CHECK_DEADLOCK FALSE
