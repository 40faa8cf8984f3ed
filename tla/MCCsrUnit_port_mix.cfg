SPECIFICATION Spec
CONSTANTS
  ByteSize = 4
  CounterSize = 4
  Ports <- MixedPorts
INVARIANTS
  MinstretCounts
  McycleCounts
  HandlerNesting
