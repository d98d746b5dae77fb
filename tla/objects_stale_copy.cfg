SPECIFICATION Spec
CONSTANTS
  t1 = t1
  t2 = t2
  a = a
  b = b
  c = c
  d = d
  v1 = v1
  v2 = v2
  Nil = Nil
  Unmade = Unmade
  Threads <- TwoThreads
  Queues <- FourQueues
  Values <- TwoValues
  Start <- Sizes
  Menu <- Racing
  Throws = {}
CHECK_DEADLOCK FALSE
INVARIANT RingsIntact
