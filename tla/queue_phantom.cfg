SPECIFICATION Spec
CONSTANTS
  t1 = t1
  t2 = t2
  t3 = t3
  v1 = v1
  v2 = v2
  Nil = Nil
  Threads <- TwoThreads
  Values <- OneValue
  Capacity = 2
  Menu <- AllOps
  Throws = {"construct"}
INVARIANT ConstructedExactly
