----------------------------- MODULE QueueSuites -----------------------------
(***************************************************************************)
(* The single-threaded test suites of exercises/week10: each behaviour is  *)
(* one test, whose steps are functions of QueueDoubles.  Where a test uses *)
(* std::mutex or elements that count nothing, the counts go unread.        *)
(***************************************************************************)
EXTENDS QueueDoubles, Sequences, TLC

VARIABLES test,         \* the name of the test
          at            \* the step that follows

svars == <<vars, test, at>>

L == INSTANCE LockScripts

\* The tests of one thread, by their names.  The suite of signatures asserts types
\* only, that of the students has no test; QueueClients has the threads.
Suite ==
  L!make_suite_bounded_queue_default_behavior_suite
    @@ L!make_suite_bounded_queue_content_suite
    @@ L!make_suite_bounded_queue_semantic_suite
    @@ L!make_suite_bounded_queue_heap_memory_suite
    @@ L!make_suite_bounded_queue_non_default_constructible_element_type_suite
    @@ L!make_suite_bounded_queue_single_threaded_lock_suite

SuiteInit == Init /\ test \in DOMAIN Suite /\ at = 1

OnOne(s) ==
  \/ s.op = "new" /\ Construct(s.b, s.x, 0, FALSE)
  \/ s.op = "new_double" /\ Construct(s.b, s.x, s.y[1], s.y[2])
  \/ s.op \in {"push", "try_push", "try_push_for"}
       /\ Push(s.b, s.x, s.op, IF s.y = "lvalue" THEN "copied" ELSE "moved")
  \/ s.op = "pop" /\ Pop(s.b)
  \/ s.op \in {"try_pop", "try_pop_for"} /\ PopTo(s.b, s.op)
  \/ s.op = "measure" /\ Measure(s.b)
  \/ s.op = "destroy" /\ Destroy(s.b)
  \/ s.op = "reset" /\ reset_counters

\* s.b is copied, moved or swapped with s.x.
OnTwo(s) ==
  \/ s.op = "copy_construct" /\ CopyConstruct(s.b, s.x)
  \/ s.op = "copy_assign" /\ CopyAssign(s.b, s.x)
  \/ s.op = "move_construct" /\ MoveConstruct(s.b, s.x)
  \/ s.op = "move_assign" /\ MoveAssign(s.b, s.x)
  \/ s.op = "swap" /\ Swap(s.b, s.x)

Run == /\ at <= Len(Suite[test])
       /\ OnOne(Suite[test][at]) \/ OnTwo(Suite[test][at])
       /\ at' = at + 1
       /\ UNCHANGED test

Finished == at > Len(Suite[test]) /\ UNCHANGED svars

SuiteNext == Run \/ Finished

SuiteSpec == SuiteInit /\ [][SuiteNext]_svars

-----------------------------------------------------------------------------
(* Properties. *)

Before == Suite[test][at - 1]

\* What a test can see of the counters.
Seen == tally @@ [claims   |-> tally.lock + tally.try_lock,
                  balanced |-> tally.unlock = tally.lock + tally.try_lock,
                  docheck  |-> docheck]

\* No assertion of a test fails, those in the destructors of its condition
\* variables included, and no test ends with an exception or waits for ever.  How
\* often std::lock tries is left open by the standard: the test that counts it is
\* right for one that begins again with the same mutex.
AssertionsHold ==
  (at > 1 /\ ~(Rotates /\ Before.expect[1] = "try_lock"))
    => L!Holds(Before.expect, outcome, Seen)

\* Where a test compares counters, they are the same in every member: no suite
\* passes only because operator== compares comparisons.
NothingOverlooked ==
  (at > 1 /\ Before.expect[1] = "counter")
    => /\ outcome[1] = "element"
       /\ L!CountersIdentical(Before.expect[2], outcome[2])

\* Every test makes the calls of wait and notify that the template arguments of
\* its condition variables announce, whether or not the destructor looks, but for
\* one: a copy assignment notifies nobody, and its temporary disarms docheck.
CallsAsAnnounced ==
  (at > 1 /\ Before.expect[1] = "doubles"
     /\ test # "test_symmetric_lock_and_unlock_on_copy_assignment")
    => <<tally.wait, tally.notify>> = Before.expect[2]
=============================================================================
