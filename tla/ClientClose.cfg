CONSTANTS
  Modulus = 32
  Iss = {5}
  GetLen = 3
  RespLen = 5
  Chunk = {2, 3, 5}
SPECIFICATION Spec
CHECK_DEADLOCK FALSE
INVARIANT ClosesConnection
