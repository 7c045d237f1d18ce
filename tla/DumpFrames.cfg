CONSTANTS
  NumFrames = 5
  FrameSize = 2
  FillRingNumDescs = 4
  CompletionRingNumDescs = 2
  RxRingNumDescs = 4
  TxRingNumDescs = 2
  Headroom = 1
SPECIFICATION FairDumpSpec
INVARIANT PollCountStillHolds
PROPERTY ImplementsSocket
PROPERTY EveryFrameDumped
PROPERTY KernelResupplied
CHECK_DEADLOCK FALSE
