SPECIFICATION Spec
CONSTANTS
  Task = {t1, t2}
  NoTask = NoTask
  N = 2
  Faults <- AllFaults
  MaxFaults = 2
  MaxMoves = 3
SYMMETRY TaskSymmetry
INVARIANTS MergeInv OneTaskPerIndex ArchiveTellsTheTruth
PROPERTY RollbackTakesOnlyItsOwn
CHECK_DEADLOCK FALSE
