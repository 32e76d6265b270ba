SPECIFICATION FairSpec
CONSTANTS
  MaxCycles = 3
  Faults <- AllFaults
  MaxFaults = 2
INVARIANTS RunInv ClosedOnReviewOfTheWork FailedRemediationKeepsFindings KilledBeforeReviewNeverCompletes AbortLeavesNoAgent
PROPERTY PipelineEnds
CHECK_DEADLOCK FALSE
