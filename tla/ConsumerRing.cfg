CONSTANTS
  Size = 2
  Modulus = 4
  Value = {v1, v2}
  NoDesc = NoDesc
SPECIFICATION Spec
INVARIANT TypeOK
INVARIANT NeverPastProducer
PROPERTY ImplementsFifo
