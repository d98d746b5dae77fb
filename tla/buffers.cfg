SPECIFICATION IteratorSpec
CONSTANTS
  b1 = b1
  b2 = b2
  v1 = v1
  v2 = v2
  i1 = i1
  i2 = i2
  Nil = Nil
  CopyOf <- Same
  Buffers <- TwoBuffers
  Values <- TwoValues
  Capacities = {0, 2}
  MayThrow = FALSE
  Iterators <- TwoIterators
  Offsets <- FewOffsets
SYMMETRY Identical
INVARIANTS ConstructedExactly NoRawDestroyed IteratorTypeOK NoRawDesignated
PROPERTIES PushKeepsDesignated ImplementsPositions
