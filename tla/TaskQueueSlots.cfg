\* Two slots, three tasks, any one fault.
SPECIFICATION Spec
CONSTANTS
  t1 = t1  t2 = t2  t3 = t3  NoTask = NoTask
  Task <- ThreeTasks
  MaxParallel = 2
  RetainFailed = FALSE
  Faults = {"agent", "closeout", "dirty", "conflict", "activate", "spawn", "die", "crash"}
  MaxFaults = 1
  MaxMoves = 0
SYMMETRY Tasks3
INVARIANTS ActiveCap RunningPipelineOwnsItsSlot
\* The queue may be idle for good.
CHECK_DEADLOCK FALSE
