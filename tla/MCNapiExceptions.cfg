SPECIFICATION ExcSpec
CONSTANTS
  w1 = w1
  o1 = o1
  Works <- MCWorks
  Objects <- MCObjects
  Jobs = {}
  NumTsfns = 1
  MaxDepth = 5
  MaxCalls = 2
  MaxSteps = 0
  MaxWorkers = 0
  MaxAsks = 1
  MaxData = 1
  Holders <- MCHolders
  MaxPromises = 1
VIEW MCView
INVARIANTS GoneWithItsFunction FailureIsTold
