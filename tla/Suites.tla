------------------------------- MODULE Suites -------------------------------
(***************************************************************************)
(* The test programs of weeks 3, 5 and 10, each behaviour being one test of *)
(* one of them: with week 10 built on either kind of std::lock.  Where the *)
(* doubles of week 10 count, calls in any order count as well.             *)
(***************************************************************************)
EXTENDS Integers, MemoryOperationCounter

CONSTANTS Nil,
          MaxLocks      \* bound: of the calls in any order, none begins after so many locks

VARIABLES object, outcome,              \* of all
          leaked, misused, iterator,    \* of BufferSuites
          doubles, docheck,             \* of QueueSuites
          tally, test, at,
          program                       \* what is run

common == <<object, outcome, test, at>>
ofBuffers == <<leaked, misused, iterator>>
ofQueues  == <<doubles, docheck>>
all == <<common, ofBuffers, ofQueues, tally, program>>

\* The names that the tests use, and the values and arguments.
Names == {"buffer", "otherBuffer", "buffer2", "queue", "otherQueue", "queueCopied", "queueMoved",
          "copy", "moved", "other", "intermediate1", "intermediate2", "last"}
IteratorNames == {"iterator", "begin", "end", "first", "second", "old", "sum", "other"}
Elements == {Copied(Element(v)) : v \in {0, 1, 5, 23}} \cup {Moved(Element(v)) : v \in 0 .. 27}

\* An element that is always the same.
Same(e) == e

Week3 == INSTANCE ArraySuites WITH
           Buffers <- Names, Values <- Elements, Sizes <- {0, 1, 2, 3, 5, 23, 75, 1000},
           Fresh <- Element(0), CopyOf <- Copied, MoveOf <- Moved, LeftOf <- MovedFrom,
           MayThrow <- FALSE
Week5 == INSTANCE BufferSuites WITH
           Buffers <- Names, Values <- Elements,
           Capacities <- {0, 1, 2, 3, 4, 5, 15, 23, 75, 100, 1000},
           CopyOf <- Copied, MayThrow <- FALSE, Iterators <- IteratorNames, Offsets <- -6 .. 5
Week10 == INSTANCE QueueSuites WITH
            Queues <- Names, Values <- Elements,
            Capacities <- {0, 1, 2, 3, 4, 5, 15, 23, 75, 100, 1000},
            FalseTries <- {0, 1, 3}, CopyOf <- Copied, MoveOf <- Moved, Rotates <- FALSE
Rotating == INSTANCE QueueSuites WITH
            Queues <- Names, Values <- Elements,
            Capacities <- {0, 1, 2, 3, 4, 5, 15, 23, 75, 100, 1000},
            FalseTries <- {0, 1, 3}, CopyOf <- Copied, MoveOf <- Moved, Rotates <- TRUE
Any == INSTANCE QueueDoubles WITH
         Queues <- {"q1", "q2"}, Values <- {"v"}, Capacities <- {0, 2},
         FalseTries <- {0, 1}, CopyOf <- Same, MoveOf <- Same, Rotates <- TRUE

NoBuffers == leaked = FALSE /\ misused = FALSE /\ iterator = Nil
NoQueues  == doubles = Nil /\ docheck = FALSE

Init ==
  \/ program = "week03" /\ Week3!SuiteInit /\ NoBuffers /\ NoQueues /\ tally = Nil
  \/ program = "week05" /\ Week5!SuiteInit /\ NoQueues
  \/ program = "week10" /\ Week10!SuiteInit /\ NoBuffers
  \/ program = "week10, rotating" /\ Rotating!SuiteInit /\ NoBuffers
  \/ program = "any calls" /\ Any!Init /\ NoBuffers /\ test = Nil /\ at = 1

AnyCall == tally.lock < MaxLocks /\ Any!Next /\ UNCHANGED <<test, at>>
Enough  == tally.lock >= MaxLocks /\ UNCHANGED all

Next ==
  /\ \/ program = "week03" /\ Week3!SuiteNext /\ UNCHANGED <<ofBuffers, ofQueues, tally>>
     \/ program = "week05" /\ Week5!SuiteNext /\ UNCHANGED ofQueues
     \/ program = "week10" /\ Week10!SuiteNext /\ UNCHANGED ofBuffers
     \/ program = "week10, rotating" /\ Rotating!SuiteNext /\ UNCHANGED ofBuffers
     \/ program = "any calls" /\ (AnyCall \/ Enough) /\ UNCHANGED ofBuffers
  /\ UNCHANGED program

Spec == Init /\ [][Next]_all

-----------------------------------------------------------------------------
(* Properties. *)

\* No assertion of a test fails, in any of the programs, and no test ends with an
\* exception or waits for ever.
AssertionsHold ==
  /\ program = "week03" => Week3!AssertionsHold
  /\ program = "week05" => Week5!AssertionsHold
  /\ program = "week10" => Week10!AssertionsHold
  /\ program = "week10, rotating" => Rotating!AssertionsHold

\* No test on MemoryOperationCounter passes only because its operator== compares
\* comparisons: where counters are compared, they agree in every member.
NothingOverlooked ==
  /\ program = "week03" => Week3!NothingOverlooked
  /\ program = "week05" => Week5!NothingOverlooked
  /\ program = "week10" => Week10!NothingOverlooked

\* The tests of the lock suite make the calls of wait and notify that they
\* announce, but for the one whose temporary disarms the comparison.
CallsAsAnnounced == program = "week10" => Week10!CallsAsAnnounced

\* Whatever is copied, moved, swapped and destroyed, every element that was ever
\* constructed has been destroyed once, was handed out, or lives in a slot.
ElementsAccounted == program = "any calls" => Any!ElementsAccounted
=============================================================================
