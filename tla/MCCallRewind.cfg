CONSTANTS
  MaxThreads = 2
  MaxPending = 1
  Addrs = {a1}
  NoAddr = NoAddr
  Counts = {1}
  Delays = {}
  Budgets = {}
  MaxTid = 2
  MaxTime = 0
  Kinds = {"indirect"}
  MaxDepth = 1
  MaxIters = 2
SPECIFICATION KSpec
INVARIANT RewindsOnlyUnwound
