SPECIFICATION FairSpec
CONSTANTS
  p1 = p1
  p2 = p2
  c1 = c1
  c2 = c2
  a = a
  b = b
  c = c
  d = d
  Nil = Nil
  Threads <- Tasks
  Values <- Elements
  Capacity = 2
  Menu <- Anything
  Throws = {"construct", "assign"}
  Programs <- SuitePrograms
  MaxSpurious = 1
  MaxThrown = 1
\* The tasks end: a state in which all are done has no successor.
CHECK_DEADLOCK FALSE
INVARIANTS ProducerOrder Conservation SizeAccounted WakeupsAccounted NeverAllBlocked
PROPERTY AllReturn
