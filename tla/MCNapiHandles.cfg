SPECIFICATION Spec
CONSTANTS
  o1 = o1
  Objects <- MCObjects
  Global = Global
  Undefined = Undefined
  Symbol = Symbol
  NapiVersion = 0
  MaxTotal = 4
  MaxMade = 2
  MaxDepth = 3
INVARIANTS TypeOK OutliveOnly HeldStay StrongKeeps
PROPERTY GivenUpNeverFinalized
