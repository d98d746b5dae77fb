----------------------------- MODULE LockScripts -----------------------------
(***************************************************************************)
(* exercises/week10/src/bounded_queue_single_threaded_lock_suite.cpp.      *)
(***************************************************************************)
EXTENDS QueueScripts

\* A queue of n with mutexes that refuse their first tries, and DO_CHECK.
NewDouble(q, n, tries, check) == Step("new_double", q, n, <<tries, check>>)

reset_counters == resetCounters

\* The destructors of q's condition variables, single_threaded_condition_variable
\* <waits, notifications>.
Checked(q, doubles) == Expect(EndOf(q), "doubles", doubles)

\* What a call on a queue makes of a counter, after some steps.
Counting(steps, call, counter, k, doubles) ==
  steps \o <<reset_counters, Expect(call, counter, k), Checked(queue, doubles)>>

Acquires(steps, call, doubles) == Counting(steps, call, "lock", 1, doubles)
Releases(steps, call, doubles) == Counting(steps, call, "unlock", 1, doubles)

FreshQueue  == <<NewDouble(queue, 5, 0, FALSE)>>
OnePushed   == FreshQueue \o <<PushMove(queue, 1)>>
OnlyPushed  == <<NewDouble(queue, 1, 0, FALSE), PushMove(queue, 1)>>
Measure     == Step("measure", queue, 0, 0)

BlockingTests == [
  test_push_rvalue_aquires_lock  |-> Acquires(FreshQueue, PushMove(queue, 1), <<1, 1>>),
  test_push_rvalue_releases_lock |-> Releases(FreshQueue, PushMove(queue, 1), <<1, 1>>),
  test_push_lvalue_aquires_lock  |-> Acquires(FreshQueue, PushCopy(queue, 1), <<1, 1>>),
  test_push_lvalue_releases_lock |-> Releases(FreshQueue, PushCopy(queue, 1), <<1, 1>>),
  test_pop_aquires_lock          |-> Acquires(OnePushed, Pop(queue), <<1, 1>>),
  test_pop_releases_lock         |-> Releases(OnePushed, Pop(queue), <<1, 1>>)]

ObserverTests == [
  test_empty_aquires_lock  |-> Acquires(FreshQueue, Measure, <<0, 0>>),
  test_empty_releases_lock |-> Releases(FreshQueue, Measure, <<0, 0>>),
  test_full_aquires_lock   |-> Acquires(FreshQueue, Measure, <<0, 0>>),
  test_full_releases_lock  |-> Releases(FreshQueue, Measure, <<0, 0>>),
  test_size_aquires_lock   |-> Acquires(FreshQueue, Measure, <<0, 0>>),
  test_size_releases_lock  |-> Releases(FreshQueue, Measure, <<0, 0>>)]

\* The swap of two queues, whose condition variables expect no call.
SwapCounting(tries, counter, k) ==
  <<NewDouble(queue, 5, tries, FALSE), NewDouble("other", 4, tries, FALSE), reset_counters,
    Expect(Swap(queue, "other"), counter, k), Checked("other", <<0, 0>>), Checked(queue, <<0, 0>>)>>

SwapTests == [
  test_swap_aquires_both_locks |-> SwapCounting(0, "claims", 2),
  test_swap_releases_two_locks |-> SwapCounting(0, "unlock", 2),
  test_swap_aquires_tries_multiple_times_to_try_lock |-> SwapCounting(3, "try_lock", 4),
  test_swap_successful_after_delayed_lock |->
    <<NewDouble(queue, 5, 1, FALSE), NewDouble("other", 4, 1, FALSE), PushMove("other", 17),
      reset_counters, Swap(queue, "other"), PopIs(queue, 17),
      Checked("other", <<1, 1>>), Checked(queue, <<1, 1>>)>>]

TryTests == [
  test_try_push_rvalue_aquires_lock  |-> Acquires(FreshQueue, TryPushMove(queue, 1), <<0, 1>>),
  test_try_push_rvalue_releases_lock |-> Releases(FreshQueue, TryPushMove(queue, 1), <<0, 1>>),
  test_try_push_lvalue_aquires_lock  |-> Acquires(FreshQueue, TryPushCopy(queue, 1), <<0, 1>>),
  test_try_push_lvalue_releases_lock |-> Releases(FreshQueue, TryPushCopy(queue, 1), <<0, 1>>),
  test_try_pop_aquires_lock          |-> Acquires(OnePushed, TryPop(queue), <<0, 1>>),
  test_try_pop_releases_lock         |-> Releases(OnePushed, TryPop(queue), <<0, 1>>)]

NewChecked == NewDouble(queue, 5, 0, TRUE)

ConstructorTests == [
  test_no_lock_on_size_constructor |->
    <<reset_counters, Expect(NewChecked, "lock", 0), Checked(queue, <<0, 0>>)>>,
  test_no_unlock_on_size_constructor |->
    <<reset_counters, Expect(NewChecked, "unlock", 0), Checked(queue, <<0, 0>>)>>]

same_locks_and_unlocks(step) == Expect(step, "balanced", TRUE)

\* Between two queues: the second one is destroyed before queue is.
Symmetric(steps, call, second, doubles) ==
  steps \o <<same_locks_and_unlocks(call), Checked(second, doubles), Checked(queue, doubles)>>

BeforeAssignment(second) ==
  <<NewDouble(queue, 5, 0, FALSE), NewDouble(second, 4, 0, FALSE), reset_counters>>

SymmetricTests == [
  test_symmetric_lock_and_unlock_on_copy_constructor |->
    Symmetric(<<NewChecked, reset_counters>>, CopyTo("copy", queue), "copy", <<0, 0>>),
  test_symmetric_lock_and_unlock_on_move_constructor |->
    Symmetric(<<NewChecked, reset_counters>>, MoveTo("moved", queue), "moved", <<0, 0>>),
  test_symmetric_lock_and_unlock_on_copy_assignment |->
    Symmetric(BeforeAssignment("copy"), CopyAssignTo("copy", queue), "copy", <<0, 1>>),
  test_symmetric_lock_and_unlock_on_move_assignment |->
    Symmetric(BeforeAssignment("moved"), MoveAssignTo("moved", queue), "moved", <<0, 0>>)]

\* A wait that times out gives the mutex up and takes it again.
TimedTests == [
  test_try_push_for_aquires_lock_on_empty_queue |->
    Acquires(FreshQueue, TryPushFor(queue, 1), <<1, 1>>),
  test_try_push_for_releases_lock_on_empty_queue |->
    Releases(FreshQueue, TryPushFor(queue, 1), <<1, 1>>),
  test_try_pop_for_aquires_lock_on_empty_queue |->
    Counting(FreshQueue, TryPopFor(queue), "lock", 2, <<1, 0>>),
  test_try_pop_for_releases_lock_on_empty_queue |->
    Counting(FreshQueue, TryPopFor(queue), "unlock", 2, <<1, 0>>),
  test_try_push_for_aquires_lock_on_full_queue |->
    Counting(OnlyPushed, TryPushFor(queue, 1), "lock", 2, <<1, 0>>),
  test_try_push_for_releases_lock_on_full_queue |->
    Counting(OnlyPushed, TryPushFor(queue, 1), "unlock", 2, <<1, 0>>),
  test_try_pop_for_aquires_lock_on_full_queue |->
    Counting(OnlyPushed, TryPushFor(queue, 0), "lock", 2, <<1, 0>>),
  test_try_pop_for_releases_lock_on_full_queue |->
    Counting(OnlyPushed, TryPushFor(queue, 0), "unlock", 2, <<1, 0>>)]

make_suite_bounded_queue_single_threaded_lock_suite ==
  BlockingTests @@ ObserverTests @@ SwapTests @@ TryTests @@ ConstructorTests
    @@ SymmetricTests @@ TimedTests
=============================================================================
