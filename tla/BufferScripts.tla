---------------------------- MODULE BufferScripts ----------------------------
(***************************************************************************)
(* exercises/week05/src: the suites on the default behaviour, the semantics *)
(* and the storage of the BoundedBuffer.                                   *)
(***************************************************************************)
EXTENDS ContentTests, SemanticTests

\* bounded_buffer_default_behavior_suite.cpp
DefaultTests == [
  test_buffer_constructor_for_capacity_zero_throws |-> <<ThrowsInvalid(New(buffer, 0))>>,
  test_int_buffer_of_capacity_thousand_is_empty |-> <<New(buffer, 1000), EmptyIs(buffer, TRUE)>>,
  test_const_int_buffer_of_capacity_thousand_is_not_full |->
    <<New(buffer, 1000), FullIs(buffer, FALSE)>>,
  test_int_buffer_of_capacity_thousand_has_size_zero |-> <<New(buffer, 1000), SizeIs(buffer, 0)>>,
  test_empty_bounded_buffer_throws_on_front |-> <<New(buffer, 23), Throws(Front(buffer))>>,
  test_empty_const_bounded_buffer_throws_on_front |-> <<New(buffer, 23), Throws(Front(buffer))>>,
  test_empty_bounded_buffer_throws_on_back |-> <<New(buffer, 23), Throws(Back(buffer))>>,
  test_empty_const_bounded_buffer_throws_on_back |-> <<New(buffer, 23), Throws(Back(buffer))>>,
  test_empty_bounded_buffer_throws_on_pop |-> <<New(buffer, 23), Throws(Pop(buffer))>>,
  test_full_bounded_buffer_throws_on_push_const_lvalue |->
    <<New(buffer, 1), PushCopy(buffer, 23), Throws(PushCopy(buffer, 23))>>,
  test_full_bounded_buffer_throws_on_push_rvalue |->
    <<New(buffer, 1), PushCopy(buffer, 23), Throws(PushMove(buffer, 23))>>]

\* bounded_buffer_semantic_suite.cpp: a move of the buffer moves no element.
ElementTests == CopyTests @@ MoveTests(1, 1)

ReturnedTests == [
  test_element_buffer_copy_is_returned_from_assignment |->
    OneCopied \o <<New("copy", 1), CopyAssignTo("copy", buffer),
                   CounterIs("copy", Counter(0, 2, TRUE))>>,
  test_element_buffer_moved_is_returned_from_assignment |->
    OneMoved \o <<New("moved", 1), MoveAssignTo("moved", buffer),
                  CounterIs("moved", Counter(1, 0, TRUE))>>]

\* Two elements of four, and two more after the copy or the move.
TwoOfFour == <<New(buffer, 4), PushMove(buffer, 0), PushMove(buffer, 0)>>
ThenFull  == <<PushMove("copy", 0), PushMove("copy", 0), FullIs("copy", TRUE)>>

CapacityTests == [
  test_capacity_is_copied_in_ctor |-> TwoOfFour \o <<CopyTo("copy", buffer)>> \o ThenFull,
  test_capacity_is_copied_in_assignment |->
    TwoOfFour \o <<New("copy", 1), CopyAssignTo("copy", buffer)>> \o ThenFull,
  test_capacity_is_moved_in_ctor |-> TwoOfFour \o <<MoveTo("copy", buffer)>> \o ThenFull,
  test_capacity_is_moved_in_assignment |->
    TwoOfFour \o <<New("copy", 1), MoveAssignTo("copy", buffer)>> \o ThenFull]

\* bounded_buffer_heap_memory_suite.cpp: AllocationTracker, whose operator new[]
\* no test expects to be called.
NoArrays(step) == Expect(step, "allocatedArrays", 0)
TwoOfThree     == <<New(buffer, 3), PushMove(buffer, 0), PushMove(buffer, 0)>>

AllocationTests == [
  test_allocation_of_default_bounded_buffer |-> <<New(buffer, 2), NoArrays(EndOf(buffer))>>,
  test_deallocation_of_default_bounded_buffer |->
    <<New(buffer, 2), Expect(EndOf(buffer), "deallocatedArrays", 0)>>,
  test_no_undeleted_allocation_on_exception |-> <<ThrowsInvalid(New(buffer, 0))>>,
  test_copy_constructor_allocates_a_new_buffer |->
    <<New(buffer, 15), NoArrays(CopyTo("copy", buffer))>>,
  test_move_constructor_does_not_allocate_a_new_buffer |->
    <<New(buffer, 15), NoArrays(MoveTo("moved", buffer))>>,
  test_copy_assignment_one_additional_allocation |->
    TwoOfThree \o <<New("copy", 2), NoArrays(CopyAssignTo("copy", buffer))>>,
  test_move_assignment_no_additional_allocation |->
    TwoOfThree \o <<New("moved", 2), NoArrays(MoveAssignTo("moved", buffer))>>,
  test_copy_self_assignment_no_additional_allocation |->
    TwoOfThree \o <<NoArrays(CopyAssignTo(buffer, buffer))>>,
  test_move_self_assignment_no_addtional_allocation |->
    TwoOfThree \o <<NoArrays(MoveAssignTo(buffer, buffer))>>]

\* The same suite: CopyCounter.  The ring of 100 slots is
\* filled, and 50 elements are left that lie on both sides of its end.
Wrapped == Times(100, <<PushMove(buffer, 0)>>) \o Times(75, <<Pop(buffer)>>)
             \o Times(25, <<PushMove(buffer, 0)>>)

CopyCounterTests == [
  test_copy_only_initialized_elements_in_copy_construction |->
    <<New(buffer, 100)>> \o Wrapped \o <<Expect(CopyTo("copy", buffer), "copied", 50)>>,
  test_copy_only_initialized_elements_in_copy_assignment |->
    <<New(buffer, 100), New("copy", 1)>> \o Wrapped
      \o <<Expect(CopyAssignTo("copy", buffer), "copied", 50)>>]

\* bounded_buffer_non_default_constructible_element_type_suite.cpp: the counters
\* of NonDefaultConstructible.
resetCounters == Step("reset", buffer, 0, 0)
OneOfFive     == <<New(buffer, 5), PushMove(buffer, 23), resetCounters>>

LifetimeTests == [
  test_new_buffer_of_nondefaultconstructible_invokes_no_destructors |->
    <<resetCounters, Expect(New(buffer, 5), "destroyed", 0)>>,
  test_element_in_buffer_is_destroyed_once |->
    OneOfFive \o <<Expect(EndOf(buffer), "destroyed", 1)>>,
  test_element_in_moved_buffer_is_destroyed_once |->
    OneOfFive \o <<MoveTo("moved", buffer), EndOf("moved"), Expect(EndOf(buffer), "destroyed", 1)>>,
  test_every_element_in_copied_buffer_is_destroyed_once |->
    OneOfFive \o <<CopyTo("copy", buffer), EndOf("copy"), Expect(EndOf(buffer), "destroyed", 2)>>,
  test_pop_destroys_element |-> OneOfFive \o <<Expect(Pop(buffer), "destroyed", 1)>>,
  test_lvalue_push_copies_element |->
    <<resetCounters, New(buffer, 5), Expect(PushCopy(buffer, 23), "copied", 1)>>,
  test_rvalue_push_moves_element |->
    <<resetCounters, New(buffer, 5), Expect(PushMove(buffer, 23), "moved", 1)>>,
  test_lvalue_push_must_not_copy_assign |->
    <<New(buffer, 5), resetCounters, Expect(PushCopy(buffer, 23), "assigned", 0)>>,
  test_rvalue_push_must_not_move_assign |->
    <<New(buffer, 5), resetCounters, Expect(PushMove(buffer, 23), "assigned", 0)>>]

\* The registrations.
make_suite_bounded_buffer_default_behavior_suite == DefaultTests
make_suite_bounded_buffer_content_suite ==
  SizeTests @@ AccessTests @@ ConstAccessTests @@ SequenceTests @@ SwapTests
make_suite_bounded_buffer_semantic_suite == ElementTests @@ ReturnedTests @@ CapacityTests
make_suite_bounded_buffer_heap_memory_suite == AllocationTests @@ CopyCounterTests
make_suite_bounded_buffer_non_default_constructible_element_type_suite == LifetimeTests
=============================================================================
