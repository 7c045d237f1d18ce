CONSTANTS
  Modulus = 32
  Iss = {5, 26, 27, 28, 29, 30, 31}
  GetLen = 3
  RespLen = 5
  Chunk = {2, 3, 5}
SPECIFICATION FairSpec
CHECK_DEADLOCK FALSE
INVARIANT TypeOK
INVARIANT SuccessMeansRequestHeard
PROPERTY EndsUnlessLost
