CONSTANTS
  NumFrames = 5
  FrameSize = 2
  FillRingNumDescs = 2
  CompletionRingNumDescs = 2
  RxRingNumDescs = 2
  TxRingNumDescs = 2
  Headroom = 1
SPECIFICATION Spec
INVARIANT TypeOK
INVARIANT FrameExclusive
INVARIANT CountersExact
INVARIANT FreeListsExact
INVARIANT FreeFramesFit
INVARIANT RxRingHasRoom
INVARIANT RingsFit
CHECK_DEADLOCK FALSE
