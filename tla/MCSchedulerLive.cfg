CONSTANTS
  MaxThreads = 3
  MaxPending = 1
  Addrs = {a1}
  NoAddr = NoAddr
  Counts = {2}
  Delays = {1}
  Budgets = {1}
  MaxTid = 2
  MaxTime = 2
SPECIFICATION FairSpec
PROPERTIES
  ReadyRuns
  NoStall
  TimersFire
