SPECIFICATION LockstepSpec
CONSTANTS
  ByteSize = 4
  CounterSize = 2
  TcmWords = 16
  NopWord = 1
  InstrOf <- MCInstrOf
  Images <- BranchPrograms
INVARIANTS
  TakenBranchCostsTwo
