\* One slot, two tasks, any two faults, one move of a failed task by the operator.
SPECIFICATION Spec
CONSTANTS
  t1 = t1  t2 = t2  t3 = t3  NoTask = NoTask
  Task <- TwoTasks
  MaxParallel = 1
  RetainFailed = TRUE
  Faults = {"agent", "closeout", "dirty", "conflict", "activate", "spawn", "die", "crash"}
  MaxFaults = 2
  MaxMoves = 1
SYMMETRY Tasks2
INVARIANTS
  QueueInv NoTaskLost CompletedIsArchived UnmovedDisposedOnce CompletedSlotIsResumed SlotInv UnmovedAreListed
PROPERTY UnmovedFollowLifecycle
\* The queue may be idle for good.
CHECK_DEADLOCK FALSE
