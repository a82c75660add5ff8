SPECIFICATION Spec
CONSTANTS
  w1 = w1
  o1 = o1
  j1 = j1
  Works <- MCWorks
  Objects <- MCObjects
  Jobs <- MCJobs
  NumTsfns = 1
  MaxDepth = 5
  MaxCalls = 1
  MaxSteps = 1
  MaxWorkers = 1
  MaxAsks = 2
  MaxData = 2
  Holders <- MCHolders
  MaxPromises = 1
VIEW MCView
INVARIANTS TypeOK NothingWaits WorkIsConserved TsfnDelivers FinalizersInTurn CollectedAreDrained OnePump
PROPERTY FinalizedOnce
