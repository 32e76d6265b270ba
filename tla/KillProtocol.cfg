SPECIFICATION FairSpec
CONSTANTS
  Faults <- AllFaults
  MaxFaults = 2
  MaxMoves = 2
INVARIANTS KillInv StoppedBeforeCleanup NoPipelineForFailedTask StoppedTaskHasAnOwner NoLockInversion
PROPERTIES RequestOutlivesTask KilledFollowsLifecycle KillTakesEffect
CHECK_DEADLOCK FALSE
