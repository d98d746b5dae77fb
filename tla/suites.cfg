SPECIFICATION Spec
CONSTANTS
  Nil = Nil
  MaxLocks = 5
INVARIANTS AssertionsHold NothingOverlooked CallsAsAnnounced ElementsAccounted
