SPECIFICATION Spec
CONSTANTS
  t1 = t1
  t2 = t2
  t3 = t3
  v1 = v1
  v2 = v2
  Nil = Nil
  Threads <- ThreeThreads
  Values <- OneValue
  Capacity = 1
  Menu <- AllOps
  Throws = {"assign"}
INVARIANT NoLostWakeup
