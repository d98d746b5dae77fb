---------------------------- MODULE SemanticTests ----------------------------
(***************************************************************************)
(* The tests on copies and moves that the semantic suites of weeks 3 and 5 *)
(* share.  What they count on a move depends on the buffer.  The counters  *)
(* carry no value.                                                         *)
(***************************************************************************)
EXTENDS Script, TLC

OneCopied == <<New(buffer, 1), PushCopy(buffer, 0)>>
OneMoved  == <<New(buffer, 1), PushMove(buffer, 0)>>

CopyTests == [
  test_buffer_push_copies_element |-> OneCopied \o <<CounterIs(buffer, Counter(0, 1, TRUE))>>,
  test_element_in_buffer_is_copied_along_copy_constructor |->
    OneCopied \o <<CopyTo("copy", buffer), CounterIs("copy", Counter(0, 2, TRUE))>>,
  test_element_in_buffer_is_copied_along_assignment_operator |->
    OneCopied \o <<New("copy", 1), CopyAssignTo("copy", buffer),
                   CounterIs("copy", Counter(0, 2, TRUE))>>,
  test_element_in_buffer_is_copied_along_assignment_operator_multiple_copies |->
    OneCopied \o Chain(New, CopyAssignTo, buffer) \o <<CounterIs("last", Counter(0, 4, TRUE))>>]

\* The moves a test counts after one move and after a chain of three.
MoveTests(one, three) == [
  test_buffer_push_moves_element |-> OneMoved \o <<CounterIs(buffer, Counter(1, 0, TRUE))>>,
  test_element_in_buffer_is_moved_along_move_constructor |->
    OneMoved \o <<MoveTo("moved", buffer), CounterIs("moved", Counter(one, 0, TRUE))>>,
  test_element_in_buffer_is_moved_along_assignment_operator |->
    OneMoved \o <<New("moved", 1), MoveAssignTo("moved", buffer),
                  CounterIs("moved", Counter(one, 0, TRUE))>>,
  test_element_in_buffer_is_moved_along_assignment_operator_multiple_moves |->
    OneMoved \o Chain(New, MoveAssignTo, buffer) \o <<CounterIs("last", Counter(three, 0, TRUE))>>]
=============================================================================
