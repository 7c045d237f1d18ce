CONSTANTS
  Proc = {p1, p2, e1}
  EventProc = {e1}
  None = None
SPECIFICATION FairSpec
INVARIANT TypeOK
INVARIANT QidconfMeansSocket
INVARIANT AttachedHasOwner
INVARIANT LoopIsServed
PROPERTY StartEnds
