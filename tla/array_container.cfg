SPECIFICATION Spec
CONSTANTS
  b1 = b1
  b2 = b2
  v = v
  Nil = Nil
  Buffers <- TwoBuffers
  Values <- TwoValues
  Sizes = {0, 2}
  Fresh <- Zero
  CopyOf <- Same
  MoveOf <- Same
  LeftOf <- MovedOut
  MayThrow = TRUE
SYMMETRY Identical
INVARIANT TypeOK
PROPERTY EarlierElementsStay
PROPERTY ImplementsContainer
