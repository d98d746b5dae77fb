---------------------------- MODULE ArrayScripts ----------------------------
(***************************************************************************)
(* exercises/week03/src: the suites on the BoundedBuffer over a std::array *)
(* as scripts.  Its content suite is that of week 5 (ContentTests), with   *)
(* the capacities as template arguments.                                   *)
(***************************************************************************)
EXTENDS ContentTests, SemanticTests

\* bounded_buffer_default_behavior_suite.cpp, on the sizes 1000, 23 and 0.
DefaultTests == [
  test_default_constructed_const_int_buffer_of_size_thousand_is_empty |->
    <<New(buffer, 1000), EmptyIs(buffer, TRUE)>>,
  test_default_constructed_const_int_buffer_of_size_one_is_empty |->
    <<New(buffer, 0), EmptyIs(buffer, TRUE)>>,
  test_default_constructed_const_int_buffer_of_size_thousand_is_not_full |->
    <<New(buffer, 1000), FullIs(buffer, FALSE)>>,
  test_default_constructed_const_int_buffer_of_size_one_is_full |->
    <<New(buffer, 0), FullIs(buffer, TRUE)>>,
  test_default_constructed_const_int_buffer_of_size_thousand_has_size_zero |->
    <<New(buffer, 1000), EmptyIs(buffer, TRUE)>>,
  test_default_constructed_const_int_buffer_of_size_size_has_size_zero |->
    <<New(buffer, 0), EmptyIs(buffer, TRUE)>>,
  test_empty_bounded_buffer_throws_on_front |-> <<New(buffer, 23), Throws(Front(buffer))>>,
  test_empty_const_bounded_buffer_throws_on_front |-> <<New(buffer, 23), Throws(Front(buffer))>>,
  test_empty_bounded_buffer_throws_on_back |-> <<New(buffer, 23), Throws(Back(buffer))>>,
  test_empty_const_bounded_buffer_throws_on_back |-> <<New(buffer, 23), Throws(Back(buffer))>>,
  test_empty_bounded_buffer_throws_on_pop |-> <<New(buffer, 23), Throws(Pop(buffer))>>,
  test_full_bounded_buffer_throws_on_push_const_lvalue |->
    <<New(buffer, 0), Throws(PushCopy(buffer, 23))>>,
  test_full_bounded_buffer_throws_on_push_rvalue |->
    <<New(buffer, 0), Throws(PushMove(buffer, 23))>>]

\* bounded_buffer_semantic_suite.cpp: a move of the buffer moves every element.
ElementTests == CopyTests @@ MoveTests(2, 4)

\* bounded_buffer_content_suite.cpp, in two halves.
PushTests == SizeTests @@ AccessTests @@ ConstAccessTests
RingTests == SequenceTests @@ SwapTests

\* The registrations.
make_suite_bounded_buffer_default_behavior_suite == DefaultTests
make_suite_bounded_buffer_content_suite == PushTests @@ RingTests
make_suite_bounded_buffer_semantic_suite == ElementTests
=============================================================================
