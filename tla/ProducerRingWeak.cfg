CONSTANTS
  Size = 2
  Modulus = 4
  Value = {v1, v2}
  NoDesc = NoDesc
  StoresInOrder = FALSE
  MaxStores = 3
SPECIFICATION Spec
INVARIANT ConsumesSubmitted
