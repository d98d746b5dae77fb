SPECIFICATION Spec
CONSTANTS
  b1 = b1
  b2 = b2
  v1 = v1
  v2 = v2
  Nil = Nil
  CopyOf <- Same
  Buffers <- TwoBuffers
  Values <- TwoValues
  Capacities = {3}
  MayThrow = FALSE
INVARIANT NoElementLeaked
