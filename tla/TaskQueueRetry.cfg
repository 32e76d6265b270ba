\* Two tasks, one slot, a failing agent, one move of a failed task by the operator.
SPECIFICATION FairSpec
CONSTANTS
  t1 = t1  t2 = t2  t3 = t3  NoTask = NoTask
  Task <- TwoTasks
  MaxParallel = 1
  RetainFailed = TRUE
  Faults = {"agent"}
  MaxFaults = 1
  MaxMoves = 1
PROPERTIES FollowsLifecycle ActiveTaskEnds QueueDrains
\* The queue may be idle for good.
CHECK_DEADLOCK FALSE
