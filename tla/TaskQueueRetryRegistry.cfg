\* A failed task is requeued under a new id.
SPECIFICATION Spec
CONSTANTS
  t1 = t1  t2 = t2  t3 = t3  NoTask = NoTask
  Task <- TwoTasks
  MaxParallel = 1
  RetainFailed = TRUE
  Faults = {"agent"}
  MaxFaults = 1
  MaxMoves = 1
INVARIANT RunningIsRegistered
CHECK_DEADLOCK FALSE
