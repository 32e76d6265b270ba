SPECIFICATION Spec
CONSTANTS
  Task = {a, b, c}
  Root = root
  NoTask = none
  Faults <- AllFaults
  MaxFaults = 1
  MaxMoves = 1
INVARIANTS ChainInv CompletedWorkStays TipIsReachable
PROPERTY ImplementsChainLog
SYMMETRY Tasks
CHECK_DEADLOCK FALSE
