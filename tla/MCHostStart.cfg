SPECIFICATION KeptSpec
CONSTANTS
  Guests <- MCGuests
  Registers <- MCRegisters
  BridgeFuncs = 17
  WasiFirst = 3
  FaultSlot = 16
  Cuts <- MCCuts
  NapiMethods <- MCNapiMethods
  HostWasi <- MCHostWasi
  UserWasi <- MCUserWasi
  MaxLoads = 3
INVARIANTS AnsweredByOwn ArgumentsWhole RegisteredInOrder
CHECK_DEADLOCK FALSE
