----------------------------- MODULE ArraySuites -----------------------------
(***************************************************************************)
(* The test suites of exercises/week03: each behaviour is one test, whose  *)
(* steps are operations of ArrayBuffer.                                    *)
(***************************************************************************)
EXTENDS ArrayBuffer, Sequences, TLC

VARIABLES test,         \* the name of the test
          at            \* the step that follows

svars == <<vars, test, at>>

S == INSTANCE ArrayScripts

\* The suite of signatures asserts types only, that of the students has no test.
runAllTests == S!make_suite_bounded_buffer_default_behavior_suite
                 @@ S!make_suite_bounded_buffer_content_suite
                 @@ S!make_suite_bounded_buffer_semantic_suite

Suite == runAllTests

SuiteInit == Init /\ test \in DOMAIN Suite /\ at = 1

Perform(s) ==
  \/ s.op = "new" /\ Construct(s.b, s.x)
  \/ s.op = "push" /\ Push(s.b, s.x)
  \/ s.op = "pop" /\ Pop(s.b)
  \/ s.op = "front" /\ Front(s.b)
  \/ s.op = "back" /\ Back(s.b)
  \/ s.op = "measure" /\ Measure(s.b)
  \/ s.op = "copy_construct" /\ CopyConstruct(s.b, s.x)
  \/ s.op = "copy_assign" /\ CopyAssign(s.b, s.x)
  \/ s.op = "move_construct" /\ MoveConstruct(s.b, s.x)
  \/ s.op = "move_assign" /\ MoveAssign(s.b, s.x)
  \/ s.op = "swap" /\ Swap(s.b, s.x)

Run == /\ at <= Len(Suite[test])
       /\ Perform(Suite[test][at])
       /\ at' = at + 1
       /\ UNCHANGED test

Finished == at > Len(Suite[test]) /\ UNCHANGED svars

SuiteNext == Run \/ Finished

SuiteSpec == SuiteInit /\ [][SuiteNext]_svars

-----------------------------------------------------------------------------
(* Properties. *)

Before == Suite[test][at - 1]

\* No assertion of a test fails, counters being compared with operator== as it
\* is written, and no test ends with an exception.
AssertionsHold == at > 1 => S!Holds(Before.expect, outcome, <<>>)

\* Where a test compares counters, they are the same in every member: no suite
\* passes only because operator== compares comparisons.
NothingOverlooked ==
  (at > 1 /\ Before.expect[1] = "counter")
    => /\ outcome[1] = "element"
       /\ S!CountersIdentical(Before.expect[2], outcome[2])
=============================================================================
