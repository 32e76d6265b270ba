\* A failed task is reopened and promoted while its first pipeline is still exiting.
SPECIFICATION Spec
CONSTANTS
  t1 = t1  t2 = t2  t3 = t3  NoTask = NoTask
  Task <- TwoTasks
  MaxParallel = 1
  RetainFailed = TRUE
  Faults = {"agent"}
  MaxFaults = 1
  MaxMoves = 1
INVARIANT DisposedOnce
CHECK_DEADLOCK FALSE
