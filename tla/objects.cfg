SPECIFICATION BoundedFairSpec
CONSTANTS
  t1 = t1
  t2 = t2
  a = a
  b = b
  c = c
  d = d
  v1 = v1
  v2 = v2
  Nil = Nil
  Unmade = Unmade
  Threads <- TwoThreads
  Queues <- FourQueues
  Values <- TwoValues
  Start <- Sizes
  Menu <- AnyScenario
  Throws = {"construct", "assign"}
  MaxCalls = 3
\* The calls are used up, or both threads wait for an element or for space.
CHECK_DEADLOCK FALSE
INVARIANTS TypeOK RingsIntact NoRawDestroyed StrandedOnlyUnnotified
PROPERTIES ImplementsShared CallsReturn
