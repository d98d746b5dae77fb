--------------------------- MODULE IteratorScripts ---------------------------
(***************************************************************************)
(* exercises/week05/src/bounded_buffer_iterator_suite.cpp.  A temporary    *)
(* iterator in an expression has a name here.                              *)
(***************************************************************************)
EXTENDS Script, Integers, TLC

buffer2  == "buffer2"
iterator == "iterator"

BeginOf(i, b)          == Step("begin", b, i, 0)
EndIteratorOf(i, b)    == Step("end", b, i, 0)
MoveBy(i, j, n)        == Step("advance", n, i, j)
Increment(i)           == Step("increment", 0, i, 0)
Decrement(i)           == Step("decrement", 0, i, 0)
Dereference(i)         == Step("dereference", 0, i, 0)
Difference(i, j)       == Step("difference", 0, i, j)
Less(i, j)             == Step("less", 0, i, j)
Overwrite(i, v)        == Step("overwrite", 0, i, Element(v))
EqualIs(i, j, t)       == Expect(Step("equal", 0, i, j), "bool", t)
LessIs(i, j, t)        == Expect(Less(i, j), "bool", t)
DifferenceIs(i, j, d)  == Expect(Difference(i, j), "difference", d)
PointsTo(i, v)         == Expect(Dereference(i), "value", v)
RangesEqual(b, c)      == Expect(Step("equal_ranges", b, c, 0), "bool", TRUE)

createBufferWithFiveConsecutiveInts(b, startValue) ==
  <<New(b, 5)>> \o [k \in 1 .. 5 |-> PushMove(b, startValue + k - 1)]

\* ... and the usual iterator.
FromBegin == createBufferWithFiveConsecutiveInts(buffer, 15) \o <<BeginOf(iterator, buffer)>>
FromEnd   == createBufferWithFiveConsecutiveInts(buffer, 15) \o <<EndIteratorOf(iterator, buffer)>>
EmptyBegin == <<New(buffer, 5), BeginOf(iterator, buffer)>>
EmptyEnd   == <<New(buffer, 5), EndIteratorOf(iterator, buffer)>>

BothOf(b) == <<BeginOf("begin", b), EndIteratorOf("end", b)>>
Twice(steps) == createBufferWithFiveConsecutiveInts(buffer, 0)
  \o steps \o <<EqualIs("first", "second", TRUE)>>
TwoBegins == Twice(<<BeginOf("first", buffer), BeginOf("second", buffer)>>)
TwoEnds   == Twice(<<EndIteratorOf("first", buffer), EndIteratorOf("second", buffer)>>)

\* Three of the five elements leave and two more follow: the ring wraps around.
WrappedBuffer == createBufferWithFiveConsecutiveInts(buffer, 15)
  \o Times(3, <<Pop(buffer)>>) \o <<PushMove(buffer, 20), PushMove(buffer, 21)>>

EqualityTests == [
  test_begin_and_end_of_empty_buffer_are_equal |->
    <<New(buffer, 5)>> \o BothOf(buffer) \o <<EqualIs("begin", "end", TRUE)>>,
  test_begin_and_end_of_non_empty_buffer_are_inequal |->
    <<New(buffer, 5), PushMove(buffer, 23)>> \o BothOf(buffer) \o <<EqualIs("begin", "end", FALSE)>>,
  test_begin_and_end_of_full_buffer_are_inequal |->
    <<New(buffer, 5)>> \o Times(5, <<PushMove(buffer, 23)>>) \o BothOf(buffer)
      \o <<EqualIs("begin", "end", FALSE)>>,
  test_two_begins_of_same_buffer_are_equal |-> TwoBegins,
  test_two_ends_of_same_buffer_are_equal |-> TwoEnds,
  test_two_begins_of_same_const_buffer_are_equal |-> TwoBegins,
  test_two_ends_of_same_const_buffer_are_equal |-> TwoEnds,
  test_two_cbegins_of_same_const_buffer_are_equal |-> TwoBegins,
  test_two_cends_of_same_const_buffer_are_equal |-> TwoEnds]

IncrementTests == [
  test_begin_points_to_the_correct_element |-> FromBegin \o <<PointsTo(iterator, 15)>>,
  test_prefix_incremented_begin_points_to_the_correct_element |->
    FromBegin \o <<Increment(iterator), PointsTo(iterator, 16)>>,
  test_expression_of_prefix_incremented_begin_points_to_the_correct_element |->
    FromBegin \o <<Increment(iterator), PointsTo(iterator, 16)>>,
  test_twice_prefix_incremented_begin_points_to_the_correct_element |->
    FromBegin \o Times(2, <<Increment(iterator)>>) \o <<PointsTo(iterator, 17)>>,
  test_postfix_incremented_begin_points_to_the_correct_element |->
    FromBegin \o <<Increment(iterator), PointsTo(iterator, 16)>>,
  test_expression_of_postfix_incremented_begin_points_to_the_correct_element |->
    FromBegin \o <<MoveBy("old", iterator, 0), Increment(iterator), PointsTo("old", 15)>>,
  test_iterator_prefix_incremented_to_the_end_equals_end |->
    FromBegin \o Times(5, <<Increment(iterator)>>)
      \o <<EndIteratorOf("end", buffer), EqualIs("end", iterator, TRUE)>>,
  test_iterator_incremented_wrap_around_leads_to_equal_end |->
    WrappedBuffer \o <<BeginOf(iterator, buffer)>> \o Times(4, <<Increment(iterator)>>)
      \o <<EndIteratorOf("end", buffer), EqualIs("end", iterator, TRUE)>>,
  test_prefix_incrementing_end_iterator_throws |-> EmptyEnd \o <<Throws(Increment(iterator))>>,
  test_postfix_incrementing_end_iterator_throws |-> EmptyEnd \o <<Throws(Increment(iterator))>>]

OffsetTests == [
  test_plus_expression_for_iterator |->
    FromBegin \o <<MoveBy("sum", iterator, 2), PointsTo("sum", 17)>>,
  test_plus_assign_expression_for_iterator |->
    FromBegin \o <<MoveBy(iterator, iterator, 3), PointsTo(iterator, 18)>>,
  test_plus_beyond_end_throws |-> FromEnd \o <<Throws(MoveBy("sum", iterator, 6))>>,
  test_plus_assign_beyond_end_throws |-> FromEnd \o <<Throws(MoveBy(iterator, iterator, 6))>>,
  test_minus_expression_for_iterator |->
    FromEnd \o <<MoveBy("sum", iterator, -2), PointsTo("sum", 18)>>,
  test_minus_assign_expression_for_iterator |->
    FromEnd \o <<MoveBy(iterator, iterator, -3), PointsTo(iterator, 17)>>,
  test_minus_beyond_begin_throws |-> FromEnd \o <<Throws(MoveBy("sum", iterator, -6))>>,
  test_minus_assign_beyond_begin_throws |-> FromEnd \o <<Throws(MoveBy(iterator, iterator, -6))>>,
  test_accessing_element_at_end_throws |-> EmptyEnd \o <<Throws(Dereference(iterator))>>]

DecrementTests == [
  test_postfix_decrementing_on_empty_buffer_begin_throws |->
    EmptyBegin \o <<Throws(Decrement(iterator))>>,
  test_prefix_decrementing_on_empty_buffer_begin_throws |->
    EmptyBegin \o <<Throws(Decrement(iterator))>>,
  test_postfix_decrementing_on_non_empty_buffer_begin_throws |->
    FromBegin \o <<Throws(Decrement(iterator))>>,
  test_prefix_decrementing_on_non_empty_buffer_begin_throws |->
    FromBegin \o <<Throws(Decrement(iterator))>>,
  test_postfix_decremented_end_points_to_last_element |->
    FromEnd \o <<Decrement(iterator), PointsTo(iterator, 19)>>,
  test_prefix_decremented_end_points_to_last_element |->
    FromEnd \o <<Decrement(iterator), PointsTo(iterator, 19)>>]

RangeTests == [
  test_begin_end_ranges_of_the_same_buffer_are_equal |->
    createBufferWithFiveConsecutiveInts(buffer, 0) \o <<RangesEqual(buffer, buffer)>>,
  test_begin_end_ranges_of_buffers_with_the_same_elements_are_equal |->
    createBufferWithFiveConsecutiveInts(buffer, 0)
      \o createBufferWithFiveConsecutiveInts(buffer2, 0) \o <<RangesEqual(buffer, buffer2)>>]

DifferenceTests == [
  test_difference_on_different_buffers_throws |->
    <<New(buffer, 5), New(buffer2, 5), BeginOf("begin", buffer), BeginOf("other", buffer2),
      Throws(Difference("begin", "other"))>>,
  test_difference_between_begin_and_end_on_empty_buffer |->
    <<New(buffer, 5)>> \o BothOf(buffer) \o <<DifferenceIs("end", "begin", 0)>>,
  test_difference_between_begin_and_end_on_buffer_with_some_elements |->
    <<New(buffer, 5)>> \o Times(3, <<PushMove(buffer, 27)>>) \o BothOf(buffer)
      \o <<DifferenceIs("end", "begin", 3)>>,
  test_difference_between_begin_and_end_on_buffer_with_some_elements_wrapped_around |->
    WrappedBuffer \o BothOf(buffer) \o <<DifferenceIs("end", "begin", 4)>>,
  test_difference_between_arbitrary_iterators_on_buffer_with_some_elements_wrapped_around |->
    WrappedBuffer \o BothOf(buffer)
      \o <<Increment("begin"), Decrement("end"), DifferenceIs("end", "begin", 2)>>,
  test_difference_between_begin_and_end_on_full_buffer |->
    createBufferWithFiveConsecutiveInts(buffer, 0) \o BothOf(buffer)
      \o <<DifferenceIs("end", "begin", 5)>>]

ShiftedTests == [
  test_begin_end_ranges_of_buffers_with_the_same_elements_but_not_at_the_same_location_are_equal |->
    <<New(buffer, 5)>> \o Times(3, <<PushMove(buffer, 23), Pop(buffer)>>)
      \o [k \in 1 .. 5 |-> PushMove(buffer, k - 1)]
      \o createBufferWithFiveConsecutiveInts(buffer2, 0) \o <<RangesEqual(buffer, buffer2)>>]

\* lower and greater, one step inside begin and end.
Inside == createBufferWithFiveConsecutiveInts(buffer, 0) \o BothOf(buffer)
            \o <<Increment("begin"), Decrement("end")>>

OrderTests == [
  test_begin_is_smaller_than_end_for_non_empty_buffers |->
    createBufferWithFiveConsecutiveInts(buffer, 0) \o BothOf(buffer)
      \o <<LessIs("begin", "end", TRUE)>>,
  test_begin_is_greater_than_end_for_non_empty_buffers |->
    createBufferWithFiveConsecutiveInts(buffer, 0) \o BothOf(buffer)
      \o <<LessIs("begin", "end", TRUE)>>,
  test_arbitrary_iterators_compare_less_than_for_non_empty_buffers |->
    Inside \o <<LessIs("begin", "end", TRUE)>>,
  test_arbitrary_iterators_compare_greater_than_for_non_empty_buffers |->
    Inside \o <<LessIs("begin", "end", TRUE)>>,
  test_relative_comparison_of_iterators_to_different_buffers_throws |->
    <<New(buffer, 5), New(buffer2, 5), BeginOf("begin", buffer), BeginOf("other", buffer2),
      Throws(Less("begin", "other"))>>]

OperatorTests == [
  test_non_const_begin_iterator_overwrites_element |->
    createBufferWithFiveConsecutiveInts(buffer, 0)
      \o <<BeginOf("begin", buffer), Overwrite("begin", 23), FrontIs(buffer, 23)>>,
  test_non_const_end_iterator_overwrites_element |->
    createBufferWithFiveConsecutiveInts(buffer, 0)
      \o <<EndIteratorOf(iterator, buffer), Decrement(iterator), Overwrite(iterator, 23),
           BackIs(buffer, 23)>>,
  test_index_operator |->
    createBufferWithFiveConsecutiveInts(buffer, 0)
      \o <<BeginOf("begin", buffer), MoveBy("sum", "begin", 2), PointsTo("sum", 2)>>,
  test_index_end_minus_one_operator |->
    createBufferWithFiveConsecutiveInts(buffer, 0)
      \o <<EndIteratorOf("end", buffer), MoveBy("sum", "end", -1), PointsTo("sum", 4)>>,
  test_arrow_operator |->
    <<New(buffer, 5), PushMove(buffer, 23), BeginOf("begin", buffer), PointsTo("begin", 23)>>]

make_suite_bounded_buffer_iterator_suite ==
  EqualityTests @@ IncrementTests @@ OffsetTests @@ DecrementTests @@ RangeTests
    @@ DifferenceTests @@ ShiftedTests @@ OrderTests @@ OperatorTests
=============================================================================
