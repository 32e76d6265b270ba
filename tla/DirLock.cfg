SPECIFICATION FairSpec
CONSTANTS
  c1 = c1  c2 = c2  c3 = c3  p1 = p1  p2 = p2
  Client <- MCClient
  Proc <- MCProc
  pidOf <- MCPidOf
  MaxRetries = 2
  PromptWrite = FALSE
  MaxCrashes = 1
  NoDir = NoDir  NoOwner = NoOwner
INVARIANTS ExclusiveUnlessStrayed DirectoryKeptUnlessStrayed LockInv
PROPERTIES AbandonedIsReclaimed ImplementsQueueLock
