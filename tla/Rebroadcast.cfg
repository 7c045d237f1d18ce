CONSTANTS
  NumFrames = 4
  FrameSize = 2
  FillRingNumDescs = 2
  CompletionRingNumDescs = 2
  RxRingNumDescs = 2
  TxRingNumDescs = 2
  Headroom = 1
SPECIFICATION ExampleSpec
INVARIANT GetDescsNotInUse
