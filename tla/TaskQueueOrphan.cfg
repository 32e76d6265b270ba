\* The closeout of a pipeline forked by another pipeline throws.
SPECIFICATION FairSpec
CONSTANTS
  t1 = t1  t2 = t2  t3 = t3  NoTask = NoTask
  Task <- TwoTasks
  MaxParallel = 1
  RetainFailed = TRUE
  Faults = {"closeout"}
  MaxFaults = 1
  MaxMoves = 0
PROPERTY ActiveTaskEnds
CHECK_DEADLOCK FALSE
