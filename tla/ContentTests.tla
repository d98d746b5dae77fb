---------------------------- MODULE ContentTests ----------------------------
(***************************************************************************)
(* exercises/week05/src/bounded_buffer_content_suite.cpp.  The content      *)
(* suite of week 3 has the same tests.                                     *)
(***************************************************************************)
EXTENDS Script

\* push(1) and push(2) on a new buffer, or push(5).
OnePushed == <<New(buffer, 5), PushMove(buffer, 5)>>
TwoPushed == <<New(buffer, 5), PushMove(buffer, 1), PushMove(buffer, 2)>>

\* A step and the front or the back after it.
ThenFront(step, v) == <<step, FrontIs(buffer, v)>>

SizeTests == [
  test_buffer_is_not_empty_after_push_rvalue |-> OnePushed \o <<EmptyIs(buffer, FALSE)>>,
  test_buffer_is_not_empty_after_push_lvalue |->
    <<New(buffer, 5), PushCopy(buffer, 5), EmptyIs(buffer, FALSE)>>,
  test_buffer_is_empty_after_one_push_and_pop |->
    OnePushed \o <<Pop(buffer), EmptyIs(buffer, TRUE)>>,
  test_buffer_of_size_two_is_full_after_two_pushs |->
    <<New(buffer, 2)>> \o Times(2, <<PushMove(buffer, 5)>>) \o <<FullIs(buffer, TRUE)>>,
  test_buffer_size_is_one_after_push |->
    <<New(buffer, 2), PushMove(buffer, 1), SizeIs(buffer, 1)>>,
  test_buffer_size_is_fifty_after_fifty_pushs |->
    <<New(buffer, 75)>> \o Times(50, <<PushMove(buffer, 5)>>) \o <<SizeIs(buffer, 50)>>]

AccessTests == [
  test_buffer_front_gets_element_of_push |-> OnePushed \o <<FrontIs(buffer, 5)>>,
  test_buffer_back_gets_element_of_push |-> OnePushed \o <<BackIs(buffer, 5)>>,
  test_buffer_front_gets_first_element_of_pushs |-> TwoPushed \o <<FrontIs(buffer, 1)>>,
  test_buffer_back_gets_last_element_of_two_pushs |-> TwoPushed \o <<BackIs(buffer, 2)>>,
  test_buffer_front_throws_after_push_pop |->
    OnePushed \o <<Pop(buffer), Throws(Front(buffer))>>,
  test_buffer_back_throws_after_push_pop |->
    OnePushed \o <<Pop(buffer), Throws(Back(buffer))>>]

\* The same through a reference to const.
ConstAccessTests == [
  test_const_buffer_front_gets_element_of_push |-> OnePushed \o <<FrontIs(buffer, 5)>>,
  test_const_buffer_back_gets_element_of_push |-> OnePushed \o <<BackIs(buffer, 5)>>,
  test_const_buffer_front_gets_first_element_of_pushs |-> TwoPushed \o <<FrontIs(buffer, 1)>>,
  test_const_buffer_back_gets_last_element_of_two_pushs |-> TwoPushed \o <<BackIs(buffer, 2)>>,
  test_const_buffer_front_throws_after_push_pop |->
    OnePushed \o <<Pop(buffer), Throws(Front(buffer))>>,
  test_const_buffer_back_throws_after_push_pop |->
    OnePushed \o <<Pop(buffer), Throws(Back(buffer))>>]

FrontsInSequence ==
  <<New(buffer, 5)>> \o ThenFront(PushMove(buffer, 1), 1) \o ThenFront(PushMove(buffer, 2), 1)
    \o ThenFront(PushMove(buffer, 3), 1) \o ThenFront(Pop(buffer), 2)
    \o ThenFront(PushMove(buffer, 4), 2) \o ThenFront(Pop(buffer), 3)
    \o ThenFront(Pop(buffer), 4) \o ThenFront(PushMove(buffer, 5), 4) \o ThenFront(Pop(buffer), 5)

\* Pushes (v > 0) and pops (0) that take a ring of three slots around twice.
WrapAround == <<1, 2, 0, 3, 4, 0, 0, 5, 0, 6, 7, 0, 0>>
WrapSteps(looks) ==
  [i \in 1 .. 26 |-> LET k == (i + 1) \div 2
                     IN  IF i % 2 = 0 THEN looks[k]
                         ELSE IF WrapAround[k] = 0 THEN Pop(buffer)
                         ELSE PushMove(buffer, WrapAround[k])]
Fronts(expected) == [k \in DOMAIN expected |-> FrontIs(buffer, expected[k])]
Backs(expected)  == [k \in DOMAIN expected |-> BackIs(buffer, expected[k])]

SequenceTests == [
  test_buffer_fronts_in_sequence_of_push_pop |-> FrontsInSequence,
  test_buffer_wrap_around_behavior_front |->
    <<New(buffer, 3)>> \o WrapSteps(Fronts(<<1, 1, 2, 2, 2, 3, 4, 4, 5, 5, 5, 6, 7>>)),
  test_buffer_wrap_around_behavior_back |->
    <<New(buffer, 3)>> \o WrapSteps(Backs(<<1, 2, 2, 3, 4, 4, 4, 5, 5, 6, 7, 7, 7>>))]

\* 1, 2 and 3 pushed, the swap, and the fronts of the other buffer in turn.
SwapScript(swap) ==
  <<New(buffer, 5), New(otherBuffer, 5)>> \o [v \in 1 .. 3 |-> PushMove(buffer, v)] \o <<swap>>
    \o [i \in 1 .. 6 |-> IF i % 2 = 1 THEN FrontIs(otherBuffer, (i + 1) \div 2) ELSE Pop(otherBuffer)]

SwapTests == [
  test_buffer_after_swap_this_has_argument_content |-> SwapScript(Swap(otherBuffer, buffer)),
  test_buffer_after_swap_argument_has_this_content |-> SwapScript(Swap(buffer, otherBuffer))]
=============================================================================
