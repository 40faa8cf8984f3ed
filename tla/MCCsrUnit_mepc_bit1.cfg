SPECIFICATION Spec
CONSTANTS
  ByteSize = 4
  CounterSize = 2
  Ports <- EpcPorts
INVARIANTS
  MepcForcesOnlyBit0
