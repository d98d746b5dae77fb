---------------------------- MODULE QueueScripts ----------------------------
(***************************************************************************)
(* exercises/week10/src: the single-threaded suites of the BoundedQueue on *)
(* its contents, default behaviour, semantics, storage and elements.       *)
(***************************************************************************)
EXTENDS Script, TLC

queue      == "queue"
otherQueue == "otherQueue"

PopIs(q, v)       == Expect(Pop(q), "value", v)
PopCounts(q, moves, copies) == Expect(Pop(q), "counter", Counter(moves, copies, TRUE))
TryPop(q)         == Step("try_pop", q, 0, 0)
TryPopFor(q)      == Step("try_pop_for", q, 0, 0)
TryPushMove(q, v) == [PushMove(q, v) EXCEPT !.op = "try_push"]
TryPushCopy(q, v) == [PushCopy(q, v) EXCEPT !.op = "try_push"]
TryPushFor(q, v)  == [PushCopy(q, v) EXCEPT !.op = "try_push_for"]
Refused(step)     == Expect(step, "bool", FALSE)

Pushes(q, first, last) == [k \in 1 .. last - first + 1 |-> PushMove(q, first + k - 1)]
PopsOf(q, first, last) == [k \in 1 .. last - first + 1 |-> PopIs(q, first + k - 1)]

SwapScript(swap) ==
  <<New(queue, 5), New(otherQueue, 5)>> \o Pushes(queue, 1, 3) \o <<swap>>
    \o PopsOf(otherQueue, 1, 3)

\* bounded_queue_content_suite.cpp
ContentTests == [
  test_queue_is_not_empty_after_push_rvalue |->
    <<New(queue, 5), PushMove(queue, 5), EmptyIs(queue, FALSE)>>,
  test_queue_is_not_empty_after_push_lvalue |->
    <<New(queue, 5), PushCopy(queue, 5), EmptyIs(queue, FALSE)>>,
  test_queue_is_empty_after_one_push_and_pop |->
    <<New(queue, 5), PushMove(queue, 5), Pop(queue), EmptyIs(queue, TRUE)>>,
  test_queue_of_size_two_is_full_after_two_pushs |->
    <<New(queue, 2)>> \o Times(2, <<PushMove(queue, 5)>>) \o <<FullIs(queue, TRUE)>>,
  test_queue_size_is_one_after_push |->
    <<New(queue, 2), PushMove(queue, 1), SizeIs(queue, 1)>>,
  test_queue_size_is_fifty_after_fifty_pushs |->
    <<New(queue, 75)>> \o Times(50, <<PushMove(queue, 5)>>) \o <<SizeIs(queue, 50)>>,
  test_queue_pop_gets_first_element_of_pushs |->
    <<New(queue, 5)>> \o Pushes(queue, 1, 2) \o <<PopIs(queue, 1)>>,
  test_queue_pop_in_sequence_of_push |->
    <<New(queue, 5)>> \o Pushes(queue, 1, 2) \o PopsOf(queue, 1, 1) \o Pushes(queue, 3, 4)
      \o PopsOf(queue, 2, 3) \o Pushes(queue, 5, 5) \o PopsOf(queue, 4, 5),
  test_queue_wrap_around_behavior_pop |->
    <<New(queue, 3)>> \o Pushes(queue, 1, 2) \o PopsOf(queue, 1, 2) \o Pushes(queue, 3, 5)
      \o PopsOf(queue, 3, 5) \o Pushes(queue, 6, 7) \o PopsOf(queue, 6, 7),
  test_queue_after_swap_this_has_argument_content |-> SwapScript(Swap(otherQueue, queue)),
  test_queue_after_swap_argument_has_this_content |-> SwapScript(Swap(queue, otherQueue))]

\* bounded_queue_default_behavior_suite.cpp
FullQueue == <<New(queue, 1), PushCopy(queue, 23)>>

DefaultTests == [
  test_queue_constructor_for_capacity_zero_throws |-> <<ThrowsInvalid(New(queue, 0))>>,
  test_int_queue_of_capacity_thousand_is_empty |-> <<New(queue, 1000), EmptyIs(queue, TRUE)>>,
  test_const_int_queue_of_capacity_thousand_is_not_full |->
    <<New(queue, 1000), FullIs(queue, FALSE)>>,
  test_int_queue_of_capacity_thousand_has_size_zero |-> <<New(queue, 1000), SizeIs(queue, 0)>>,
  test_empty_bounded_queue_returns_false_on_try_pop |-> <<New(queue, 23), Refused(TryPop(queue))>>,
  test_full_bounded_queue_returns_false_on_try_push_const_lvalue |->
    FullQueue \o <<Refused(TryPushCopy(queue, 23))>>,
  test_full_bounded_queue_returns_false_on_try_push_rvalue |->
    FullQueue \o <<Refused(TryPushMove(queue, 23))>>,
  test_empty_bounded_queue_returns_false_on_try_pop_for |->
    <<New(queue, 23), Refused(TryPopFor(queue))>>,
  test_full_bounded_queue_returns_false_on_try_push_for_const_lvalue |->
    FullQueue \o <<Refused(TryPushFor(queue, 23))>>]

\* bounded_queue_semantic_suite.cpp: the pop adds a move.
OneCopied == <<New(queue, 1), PushCopy(queue, 0)>>
OneMoved  == <<New(queue, 1), PushMove(queue, 0)>>

CopyAssigned == OneCopied \o <<New("queueCopied", 1), CopyAssignTo("queueCopied", queue),
                               PopCounts("queueCopied", 1, 2)>>
MoveAssigned == OneMoved \o <<New("queueMoved", 1), MoveAssignTo("queueMoved", queue),
                              PopCounts("queueMoved", 2, 0)>>

SemanticTests == [
  test_queue_push_copies_element |-> OneCopied \o <<PopCounts(queue, 1, 1)>>,
  test_queue_push_moves_element |-> OneMoved \o <<PopCounts(queue, 2, 0)>>,
  test_element_in_queue_is_copied_along_copy_constructor |->
    OneCopied \o <<CopyTo("queueCopied", queue), PopCounts("queueCopied", 1, 2)>>,
  test_element_in_queue_is_copied_along_assignment_operator |-> CopyAssigned,
  test_element_in_queue_is_moved_along_move_constructor |->
    OneMoved \o <<MoveTo("queueMoved", queue), PopCounts("queueMoved", 2, 0)>>,
  test_element_in_queue_is_moved_along_assignment_operator |-> MoveAssigned,
  test_element_in_queue_is_copied_along_assignment_operator_multiple_copies |->
    OneCopied \o Chain(New, CopyAssignTo, queue) \o <<PopCounts("last", 1, 4)>>,
  test_element_in_queue_is_moved_along_assignment_operator_multiple_moves |->
    OneMoved \o Chain(New, MoveAssignTo, queue) \o <<PopCounts("last", 2, 0)>>,
  test_element_queue_copy_is_returned_from_assignment |-> CopyAssigned,
  test_element_queue_moved_is_returned_from_assignment |-> MoveAssigned]

\* Two elements of four, and two more after the copy or the move.
TwoOfFour == <<New(queue, 4), PushMove(queue, 0), PushMove(queue, 0)>>
ThenFull  == <<PushMove("copy", 0), PushMove("copy", 0), FullIs("copy", TRUE)>>

CapacityTests == [
  test_capacity_is_copied_in_ctor |-> TwoOfFour \o <<CopyTo("copy", queue)>> \o ThenFull,
  test_capacity_is_copied_in_assignment |->
    TwoOfFour \o <<New("copy", 1), CopyAssignTo("copy", queue)>> \o ThenFull,
  test_capacity_is_moved_in_ctor |-> TwoOfFour \o <<MoveTo("copy", queue)>> \o ThenFull,
  test_capacity_is_moved_in_assignment |->
    TwoOfFour \o <<New("copy", 1), MoveAssignTo("copy", queue)>> \o ThenFull]

\* bounded_queue_heap_memory_suite.cpp: AllocationTracker, whose operator new[]
\* no test expects to be called.
NoArrays(step) == Expect(step, "allocatedArrays", 0)
TwoOfThree     == <<New(queue, 3), PushMove(queue, 0), PushMove(queue, 0)>>

AllocationTests == [
  test_allocation_of_default_bounded_queue |-> <<New(queue, 2), NoArrays(EndOf(queue))>>,
  test_deallocation_of_default_bounded_queue |->
    <<New(queue, 2), Expect(EndOf(queue), "deallocatedArrays", 0)>>,
  test_no_undeleted_allocation_on_exception |-> <<ThrowsInvalid(New(queue, 0))>>,
  test_copy_constructor_allocates_a_new_queue |->
    <<New(queue, 15), NoArrays(CopyTo("copy", queue))>>,
  test_move_constructor_does_not_allocate_a_new_queue |->
    <<New(queue, 15), NoArrays(MoveTo("moved", queue))>>,
  test_copy_assignment_one_additional_allocation |->
    TwoOfThree \o <<New("copy", 2), NoArrays(CopyAssignTo("copy", queue))>>,
  test_move_assignment_no_additional_allocation |->
    TwoOfThree \o <<New("moved", 2), NoArrays(MoveAssignTo("moved", queue))>>,
  test_copy_self_assignment_no_additional_allocation |->
    TwoOfThree \o <<NoArrays(CopyAssignTo(queue, queue))>>,
  test_move_self_assignment_no_addtional_allocation |->
    TwoOfThree \o <<NoArrays(MoveAssignTo(queue, queue))>>]

\* The same suite: CopyCounter.  The ring of 100 slots is filled, and 50 elements
\* are left that lie on both sides of its end.
Wrapped == Times(100, <<PushMove(queue, 0)>>) \o Times(75, <<Pop(queue)>>)
             \o Times(25, <<PushMove(queue, 0)>>)

CopyCounterTests == [
  test_copy_only_initialized_elements_in_copy_construction |->
    <<New(queue, 100)>> \o Wrapped \o <<Expect(CopyTo("copy", queue), "copied", 50)>>,
  test_copy_only_initialized_elements_in_copy_assignment |->
    <<New(queue, 100), New("copy", 1)>> \o Wrapped
      \o <<Expect(CopyAssignTo("copy", queue), "copied", 50)>>]

\* bounded_queue_non_default_constructible_element_type_suite.cpp
resetCounters == Step("reset", queue, 0, 0)
OneOfFive     == <<New(queue, 5), PushMove(queue, 23), resetCounters>>
OneAndOther   == <<New(queue, 5), New("other", 5), PushMove(queue, 23), resetCounters>>

LifetimeTests == [
  test_new_queue_of_nondefaultconstructible_invokes_no_destructors |->
    <<resetCounters, Expect(New(queue, 5), "destroyed", 0)>>,
  test_element_in_queue_is_destroyed_once |-> OneOfFive \o <<Expect(EndOf(queue), "destroyed", 1)>>,
  test_element_in_moved_queue_is_destroyed_once |->
    OneOfFive \o <<MoveTo("moved", queue), EndOf("moved"), Expect(EndOf(queue), "destroyed", 1)>>,
  test_every_element_in_copied_queue_is_destroyed_once |->
    OneOfFive \o <<CopyTo("copy", queue), EndOf("copy"), Expect(EndOf(queue), "destroyed", 2)>>,
  test_pop_destroys_element |-> OneOfFive \o <<Expect(Pop(queue), "destroyed", 1)>>,
  test_lvalue_push_copies_element |->
    <<resetCounters, New(queue, 5), Expect(PushCopy(queue, 23), "copied", 1)>>,
  test_rvalue_push_moves_element |->
    <<resetCounters, New(queue, 5), Expect(PushMove(queue, 23), "moved", 1)>>,
  test_lvalue_push_must_not_copy_assign |->
    <<New(queue, 5), resetCounters, Expect(PushCopy(queue, 23), "assigned", 0)>>,
  test_rvalue_push_must_not_move_assign |->
    <<New(queue, 5), resetCounters, Expect(PushMove(queue, 23), "assigned", 0)>>]

AssignmentTests == [
  test_self_copy_assignment_unchanged_size |->
    OneOfFive \o <<CopyAssignTo(queue, queue), SizeIs(queue, 1)>>,
  test_self_move_assignment_unchanged_size |->
    OneOfFive \o <<MoveAssignTo(queue, queue), SizeIs(queue, 1)>>,
  test_self_copy_assignment_no_copy_construction |->
    OneOfFive \o <<Expect(CopyAssignTo(queue, queue), "copied", 0)>>,
  test_self_move_assignment_no_move_construction |->
    OneOfFive \o <<Expect(MoveAssignTo(queue, queue), "moved", 0)>>,
  test_copy_assignment_deletes_previous_elements |->
    OneAndOther \o <<Expect(CopyAssignTo(queue, "other"), "destroyed", 1)>>,
  test_move_assignment_deletes_previous_elements_upon_destruction |->
    OneAndOther \o <<MoveAssignTo(queue, "other"), EndOf("other"),
                     Expect(EndOf(queue), "destroyed", 1)>>]

\* The registrations.
make_suite_bounded_queue_default_behavior_suite == DefaultTests
make_suite_bounded_queue_content_suite == ContentTests
make_suite_bounded_queue_semantic_suite == SemanticTests @@ CapacityTests
make_suite_bounded_queue_heap_memory_suite == AllocationTests @@ CopyCounterTests
make_suite_bounded_queue_non_default_constructible_element_type_suite ==
  LifetimeTests @@ AssignmentTests
=============================================================================
