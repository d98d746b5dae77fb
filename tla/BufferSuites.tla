---------------------------- MODULE BufferSuites ----------------------------
(***************************************************************************)
(* The test suites of exercises/week05 on the BoundedBuffer and its        *)
(* iterators: each behaviour is one test, whose steps are operations of    *)
(* BufferIterator.                                                         *)
(*                                                                         *)
(* tally holds the static counters of the suites' element types.  Only     *)
(* what the buffer does to elements is counted, not the temporaries of the *)
(* tests, which are gone before a test resets its counters.                *)
(***************************************************************************)
EXTENDS BufferIterator, Sequences, TLC

VARIABLES test,         \* the name of the test
          at,           \* the step that follows
          tally

svars == <<ivars, test, at, tally>>

B == INSTANCE BufferScripts
I == INSTANCE IteratorScripts

\* The tests the program runs, by their names.  The suite of signatures asserts
\* types only, that of the students has no test.
runAllTests ==
  B!make_suite_bounded_buffer_default_behavior_suite
    @@ B!make_suite_bounded_buffer_content_suite
    @@ B!make_suite_bounded_buffer_semantic_suite
    @@ B!make_suite_bounded_buffer_heap_memory_suite
    @@ I!make_suite_bounded_buffer_iterator_suite

\* The suite on elements without a default constructor is built and not run.
Suite ==
  runAllTests @@ B!make_suite_bounded_buffer_non_default_constructible_element_type_suite

Zero == [copied |-> 0, moved |-> 0, assigned |-> 0, destroyed |-> 0,
         allocatedArrays |-> 0, deallocatedArrays |-> 0]

SuiteInit == /\ IteratorInit
             /\ test \in DOMAIN Suite
             /\ at = 1
             /\ tally = Zero

Count(which, n) == tally' = [tally EXCEPT ![which] = @ + n]

\* new char[] and delete[] on char: the element type's operators are not used.
StorageOf(s) == UNCHANGED tally

\* The elements that the destructor of b destroys.
DestroyedIn(b) == Passes(object[b].m_size)

ToBuffer(s) ==
  \/ s.op = "new" /\ Construct(s.b, s.x) /\ StorageOf(s)
  \/ s.op = "push" /\ Push(s.b, s.x)
       /\ Count(IF s.y = "lvalue" THEN "copied" ELSE "moved", IF full(object[s.b]) THEN 0 ELSE 1)
  \/ s.op = "pop" /\ Pop(s.b) /\ Count("destroyed", IF empty(object[s.b]) THEN 0 ELSE 1)
  \/ s.op = "front" /\ Front(s.b) /\ UNCHANGED tally
  \/ s.op = "back" /\ Back(s.b) /\ UNCHANGED tally
  \/ s.op = "measure" /\ Measure(s.b) /\ UNCHANGED tally
  \/ s.op = "destroy" /\ Destroy(s.b) /\ Count("destroyed", DestroyedIn(s.b))

\* s.b is copied, moved or swapped with s.x.
Between(s) ==
  \/ s.op = "copy_construct" /\ CopyConstruct(s.b, s.x) /\ Count("copied", object[s.x].m_size)
  \/ /\ s.op = "copy_assign" /\ CopyAssign(s.b, s.x)
     /\ IF s.b = s.x THEN UNCHANGED tally
                     ELSE tally' = [tally EXCEPT !.copied = @ + object[s.x].m_size,
                                                 !.destroyed = @ + DestroyedIn(s.b)]
  \/ s.op = "move_construct" /\ MoveConstruct(s.b, s.x) /\ UNCHANGED tally
  \/ s.op \in {"move_assign", "swap"} /\ Swap(s.b, s.x) /\ UNCHANGED tally

\* std::equal from s.b's begin to its end and from s.x's begin.
EqualRanges(s) == Leave(<<"bool", \A k \in DOMAIN content[s.b] :
                                    content[s.b][k].value = content[s.x][k].value>>)

ToIterator(s) ==
  \/ s.op = "begin" /\ Begin(s.x, s.b)
  \/ s.op = "end" /\ End(s.x, s.b)
  \/ s.op = "advance" /\ Advance(s.x, s.y, s.b)
  \/ s.op = "increment" /\ Increment(s.x)
  \/ s.op = "decrement" /\ Decrement(s.x)
  \/ s.op = "dereference" /\ Dereference(s.x)
  \/ s.op = "overwrite" /\ Overwrite(s.x, s.y)
  \/ s.op = "equal" /\ Equal(s.x, s.y)
  \/ s.op = "less" /\ Less(s.x, s.y)
  \/ s.op = "difference" /\ Difference(s.x, s.y)

Perform(s) ==
  \/ ToBuffer(s) /\ UNCHANGED iterator
  \/ Between(s) /\ UNCHANGED iterator
  \/ ToIterator(s) /\ UNCHANGED tally
  \/ s.op = "equal_ranges" /\ EqualRanges(s) /\ UNCHANGED <<iterator, tally>>
  \/ s.op = "reset" /\ tally' = Zero /\ UNCHANGED ivars

Run == /\ at <= Len(Suite[test])
       /\ Perform(Suite[test][at])
       /\ at' = at + 1
       /\ UNCHANGED test

Finished == at > Len(Suite[test]) /\ UNCHANGED svars

SuiteNext == Run \/ Finished

SuiteSpec == SuiteInit /\ [][SuiteNext]_svars

-----------------------------------------------------------------------------
(* Properties. *)

Before == Suite[test][at - 1]

\* No assertion of a test fails, counters being compared with operator== as it
\* is written, and no test ends with an exception.
AssertionsHold == at > 1 => B!Holds(Before.expect, outcome, tally)

\* Where a test compares counters, they are the same in every member: no suite
\* passes only because operator== compares comparisons.
NothingOverlooked ==
  (at > 1 /\ Before.expect[1] = "counter")
    => /\ outcome[1] = "element"
       /\ B!CountersIdentical(Before.expect[2], outcome[2])
=============================================================================
