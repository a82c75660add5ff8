CONSTANTS
  MaxThreads = 3
  MaxPending = 1
  Addrs = {a1, a2}
  NoAddr = NoAddr
  Counts = {1}
  Delays = {1}
  Budgets = {1}
  MaxTid = 3
  MaxTime = 2
SYMMETRY MCSymmetry
SPECIFICATION HSpec
INVARIANTS
  TypeOK
  OneRunner
  SlotsOwned
  WaitRegistered
  NoParkedWakeup
  ResumesAsSuspended
  EndMeansDead
PROPERTIES
  DeadStaysDead
  NobodyTwice
  ImplementsThreads
