SPECIFICATION Spec
CONSTANTS
  t1 = t1
  t2 = t2
  t3 = t3
  v1 = v1
  v2 = v2
  Nil = Nil
  Threads <- ThreeThreads
  Values <- TwoValues
  Capacity = 2
  Menu <- AllOps
  Throws = {"construct", "assign"}
SYMMETRY Identical
INVARIANT TypeOK
INVARIANT MutexOwner
INVARIANT PredicateStillHolds
PROPERTY ImplementsFifo
