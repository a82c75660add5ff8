CONSTANTS
  MaxThreads = 2
  MaxPending = 1
  Addrs = {a1}
  NoAddr = NoAddr
  Counts = {1}
  Delays = {1}
  Budgets = {}
  MaxTid = 2
  MaxTime = 1
  Kinds = {"call", "simple", "indirect"}
  MaxDepth = 2
  MaxIters = 2
SPECIFICATION FairKSpec
INVARIANTS
  RunnersInProgress
  AsyncifyOffWhenIdle
  CallerHasSlot
PROPERTY CallResumes
