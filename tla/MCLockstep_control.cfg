SPECIFICATION LockstepSpec
CONSTANTS
  ByteSize = 4
  CounterSize = 2
  TcmWords = 16
  NopWord = 1
  InstrOf <- MCInstrOf
  Images <- ControlPrograms
INVARIANTS
  TypeOK
  FetchAligned
  BubblesAreInert
  NoMisalignedAccess
  ForwardsFinalValue
  AtMostThreeBubbles
PROPERTIES
  ImplementsISA
