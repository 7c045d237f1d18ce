CONSTANTS
  Size = 2
  Modulus = 4
  Value = {v1, v2}
  NoDesc = NoDesc
  StoresInOrder = TRUE
  MaxStores = 3
SPECIFICATION FairSpec
INVARIANT TypeOK
INVARIANT CountersOrdered
INVARIANT ConsumesSubmitted
PROPERTY ImplementsFifo
PROPERTY EverySubmissionConsumed
