# Verification of the bounded containers of cpp-advanced

The repository holds exercises in C++. Its own logic is a family of bounded
ring buffers that grows over three weeks: a ring over `std::array` (week 3), a
ring over raw heap storage with iterators (week 5), and a blocking queue shared
by threads (week 10). Around them are an element type that counts its copies
and moves, test suites that say what each container promises, doubles for
mutexes and condition variables, and some user-defined literals for distances
and speeds (week 1). There is no other documentation than the suites: what a
component promises is taken from the code and from what they assert.

All paths below are relative to `src/exercises/`.

## Inventory

| Component | State | Operations | Interaction |
|---|---|---|---|
| `BoundedQueue` (`week10/include/BoundedQueue.h`) | the ring `m_first`, `m_size`, `m_data`, `m_maximumSize`; `m_mutex`; the condition variables `m_hasSpace`, `m_hasElements` | `push`, `pop`, `try_push`, `try_pop`, `try_push_for`, `try_pop_for`, `empty`, `full`, `size`; `swap`, copy and move construction and assignment, destruction | threads share one object; they block on and notify each other through the condition variables; operations on two objects lock both mutexes with `std::lock` |
| Queue clients (`week10/src/bounded_queue_multi_threaded_suite.cpp`) | how far each task is, what it collected | `launchProducer`, `launchConsumer`, the two unblocking scenarios | call `push` and `pop` concurrently |
| `BoundedBuffer` on the heap (`week05/include/BoundedBuffer.h`) | the same ring without synchronisation | `push`, `pop`, `front`, `back`, `empty`, `full`, `size`, `swap`, copy, move, destruction | one thread; objects exchange storage; the element's constructors and destructor are called back and may throw |
| `buffer_iterator` (same file, 14-125) | buffer pointer and index | arithmetic, comparison, dereference, each with a range check | refers to a buffer that changes under it; `copy` uses it |
| `BoundedBuffer` on `std::array` (`week03/include/BoundedBuffer.h`) | `m_first`, `m_size`, an array of live elements | as above, member-wise copy and move, a specialisation for size 0 | element assignment may throw |
| `MemoryOperationCounter` (`week05/include`, `week10/include`) | counts of moves and copies, whether the value is known | copy, move, `operator==` | the element type of the semantic suites |
| Lock doubles (`week10/src/bounded_queue_single_threaded_lock_suite.cpp`) | counts of lock operations, tries left to refuse, `docheck` | fake mutex and condition variable | replace `std::mutex` in single-threaded tests of the queue; `std::lock` drives them |
| Test suites of weeks 3, 5 and 10 | the containers of one test | the calls and assertions of each test | use everything above |
| Distance and speed literals (`week01/include`) | none | conversions | pure |
| Typed units, rational test, tracer, `not_on_heap`, CUTE, build files | none of interest | | see "Not modelled" |

What is hard in this code:

- *Concurrency.* A thread tests a predicate, blocks, is woken by a
  notification, a deadline or for no reason, and tests again. One notification
  is sent per element or free slot, so a notification that reaches nobody who
  needs it would leave a thread blocked for ever.
- *Two objects at once.* `swap` takes two mutexes and exchanges the members one
  by one; copy construction reads the other's capacity before it takes the
  other's mutex; a swapped queue changes under threads that are blocked on it.
- *Partial failure.* Elements are constructed and destroyed by hand in raw
  storage; a constructor or an assignment that throws leaves the container
  between two states.
- *Ownership.* Copies, moves, swaps and assignments pass storage between
  objects; an object that was moved from has capacity 0 and is empty and full
  at the same time (heap), or keeps its indices and moved-from elements (array).
- *Stale positions.* An iterator is an index relative to `m_first` and survives
  anything that happens to its buffer.
- *Index arithmetic.* Everything goes through `(m_first + index) % m_maximumSize`.

What would make each correct: the queue is linearizable, loses no wakeup, and
its calls return; several queues behave as values that are copied and exchanged
atomically; the buffers are sequences with value semantics, every element is
constructed and destroyed once, and iterators are positions in the sequences;
the suites' assertions hold of all that, and for the right reason.

## Modules

### One queue: BoundedFifo, BoundedQueue

`BoundedFifo` is the promise: a bounded FIFO shared by threads. A call is
invoked, takes effect at one instant (`Put`, `Take`, `Refuse`, `Observe`) and
responds. A refusal is allowed only at an instant at which the queue is full
(for a push) or empty (for a pop), and `push` and `pop` never refuse. Where an
operation of the element throws, the call fails with one of the effects that
the code shows, and no others (`PutFails`, `TakeFails`): a push adds an element
that nobody made, a pop leaves the first element where it is or, if the
assignment to the target throws, loses it. There are no slots, locks or
notifications.

`BoundedQueue` is the code. The variables are the members of the class
(`m_mutex` holds its owner, each condition variable the set of threads blocked
on it), plus, for each thread, its place in the function it is in (`pc`), the
call, and what the call returns. A call is split where another thread can get
in between or where an element operation can throw:

| Action | Code |
|---|---|
| `Call` | entry of a member function |
| `Lock` | construction of the `lock_guard`/`unique_lock`; re-acquisition in `wait` |
| `Observe` | `empty`, `full`, `size` |
| `Admit`, `Refuse`, `Block` | evaluation of the wait predicate or of the test of `try_push`/`try_pop`: go on, return `false`, or release the mutex and block |
| `WakeSpuriously`, `Expire` | a wakeup nobody sent; the deadline of a timed wait, which may also pass after the thread was notified and before it has the mutex again |
| `Push`, `Pop` | `do_push`, `do_pop` |
| `PushThrows`, `PopThrows`, `AssignThrows` | the element's constructor, its move in `do_pop`, or the assignment to the target throws |
| `Notify`, `Unlock` | `notify_one` with the mutex held; the lock's destructor and the return |

`notify_one` chooses any blocked thread. A timed call evaluates the predicate
once more after its deadline, as `wait_for` with a predicate does. The copying
and the moving overloads differ in the element operation only and share their
actions. `pop` returns `temporary` without another move (the compilers elide
it), so no element operation follows the notification. Reading a slot that was
counted but not constructed is undefined; the model yields `Nil` for it, and
only the runs with throwing constructors can get there.

`QueueClients` are the programs of the multi-threaded suite: each task has a
finite program of calls and collects what they return, as `launchProducer` and
`launchConsumer` do. All tasks may start at once; the suite starts some later,
which only removes behaviours. A task goes on with its program after a call that
threw, and `MaxThrown` bounds the exceptions of a behaviour. `Served` says what
the programs of the suite have in common: beside every pop that waits there are
enough pushes that do not themselves wait for a pop, and conversely.

### Several queues: QueueRing, SharedQueues, BoundedQueueObjects

`QueueRing` has the private helpers as operators on a record of one object's
members. `SharedQueues` is the promise: each queue is a capacity and a
sequence; exchanges and copies happen at one instant (a copy assignment at two:
the original is copied, later the copy replaces what the target had). A call on
one queue that throws has the effects that `BoundedFifo` allows (`PutFails`,
`TakeFails`); what a failed push adds is the marker `Unmade`, so that it can be
told from an element when it is exchanged, copied or popped.

`BoundedQueueObjects` is the code. What happens under one object's mutex in
`push` and its kin is one step here, since `BoundedQueue` takes it apart; what
two objects make hard is split:

| Action | Code |
|---|---|
| `Push`, `Pop`, `Size`, `Refuse`, `Block` | from the lock to the unlock, or to the wait that unlocks |
| `PushFails`, `PopFails` | `do_push` counts a slot and the element's constructor throws; the move out of the slot throws, or the assignment to the target after `do_pop`: the lock's destructor runs, no `notify_one` |
| `ReadCapacity`, `CopyElements`, `CopyThrows` | the delegating constructor, which reads `other.m_maximumSize` without a lock and may throw `invalid_argument`; the loop under `other.m_mutex`; an element whose copy throws |
| `LockFirst`, `LockSecond`, `BackOff` | `std::lock` (external): lock one mutex, try the other, release and begin again |
| `SwapIndices`, `SwapStorage` | the four `std::swap` of the members, in two halves, without a notification |
| `Leaving`, `Destroy` | the temporary of the copy assignment and the destructor, which take no lock |
| `KeepSelf` | `this != &other` in the assignments; `swap` itself has no such test |

`Throws` says which operations of the elements may throw: their construction
(by copy or by move, in a push, a pop or the copy constructor) and their
assignment. `Unmade` stands in the slot that a failed push has counted; in the
code it is raw storage. Two histories are kept: `unnotified`, the queues on which
the code has left a notification out (they were exchanged, or a push or pop on
them threw), and `misused`, the destructors that met a raw slot other than one
that a failed push, or the copy of its mark, had counted.

Clients keep an object alive while another thread uses it (`Legal`); that is
what any C++ object asks of them.

### Buffers: BufferContainer, ContainerPositions, BoundedBuffer, BufferIterator

`BufferContainer` is the promise of the heap buffer: objects that hold a
bounded sequence, with value semantics and with exceptions that change nothing,
but for a push whose element's constructor throws (`PushFails`): it adds an
element that nobody made. `ContainerPositions` adds positions, which stay where
they are when the sequence changes under them. `BoundedBuffer` is the code:
each object is a record of its members, every public operation is one action,
and the private helpers are operators on a record under their names in the
source. `copy` is given in closed form: its loop pushes the elements in ring
order into fresh storage, whose first slot is 0. `Passes` says how often the
loop of `clear` runs, from its condition. Two history variables record what
went wrong with an element's lifetime: `leaked` (storage freed with a live
element in it) and `misused` (a destructor run on raw storage).
`BufferIterator` adds the iterators: a buffer's name and an index, checked
against `m_size` when used. The operators that boost derives are combinations
of its actions.

### Array buffer: ArrayContainer, ArrayBuffer

`ArrayBuffer` is the ring over `std::array`: every slot always holds an
element, so copies and moves are member-wise, `swap` is three moves, a move
leaves the source its indices, and an assignment of an element that throws in a
copy leaves the target with some new elements. Objects of different `Size` have
different types and do not meet. The specialisation for size 0 has no members;
its functions do what the others do in a buffer that is empty and full.
`ArrayContainer` states this without slots. Moves of elements are assumed not to
throw; copies may.

### Suites

Each single-threaded test is a script: a sequence of steps on named containers,
some with an expectation, which is the test's assertion (`Script`).
`ContentTests` and `SemanticTests` hold the tests that weeks share,
`BufferScripts`, `IteratorScripts`, `ArrayScripts`, `QueueScripts` and
`LockScripts` those of their week. `BufferSuites`, `ArraySuites` and
`QueueSuites` run the scripts, as the runner of CUTE does (each
test by itself, statement after statement), on `BufferIterator`, `ArrayBuffer` and `QueueDoubles`: a step takes the action of the model, and the expectation is
compared with the outcome it left. `Suites` composes the three programs.
`MemoryOperationCounter` is the element, with `operator==` as it is written.

`QueueDoubles` is `BoundedQueue.h` instantiated with the doubles: each call's
effect on the ring, on the counters of the doubles and of the elements, and on
`docheck`. `std::lock` is external and the standard leaves open with which
mutex it begins again after a failed try; `Rotates` chooses between the two
kinds that the libraries have, and the lock suite is run on both. Tests of
timed calls assume no spurious wakeup, as the suite does.

### Mutants

Definitions whose comment begins with "Mutant" stand before the definition they
replace. They are plausible mistakes in the same code, and each shows that a
property notices it. They are not part of any specification.

## Runs

| Run | Instance | Shows |
|---|---|---|
| `queue_throwing` | 3 threads, all functions, capacity 2, 2 values, all element operations may throw | `ImplementsFifo`: the queue is linearizable, calls that fail included; `TypeOK`, `MutexOwner`, `PredicateStillHolds`: members stay in range, the mutex excludes, nobody pushes into a full or pops from an empty queue |
| `queue_nothrow` | as above, nothing throws | `NoLostWakeup`: a thread stays blocked only while every element (free slot) is spoken for; `ConstructedExactly` |
| `clients` | four tasks, capacity 2, three programs: producers and consumers with two pushes or pops each; timed, immediate and observing calls; `test_blocked_produced_unblocks`; one operation of an element may throw, and one wakeup may be spurious | `ProducerOrder`; `Conservation`: no element is duplicated or invented, and one is lost at most in each pop that throws; `SizeAccounted`: `size()` counts at most one slot without an element for each push that threw; `WakeupsAccounted`: a call that throws costs at most one wakeup; `NeverAllBlocked`: unless a call failed, the tasks never all wait for each other; `AllReturn`: unless a call failed, all finish |
| `objects` | 2 threads, 3 queues (two of capacity 2, one of 1) and a name for a new one, 3 calls per thread in one of three scenarios, any operation of an element may throw, any number of times | `ImplementsShared`: copies and exchanges are atomic, and a call on one queue is a FIFO's or fails as one may; `RingsIntact`, `NoRawDestroyed`: a failed push leaves one slot that is counted in vain, and but for such slots every ring is whole and every destructor meets elements only; `StrandedOnlyUnnotified`: a thread is stranded only where a notification was left out, by an exchange or a call that threw; `TypeOK`; `CallsReturn`: crossed swaps, self-assignments and timed calls return, or `std::lock` backs off for ever |
| `buffers` | 2 objects, 2 values, 2 iterators, capacities 2 and 0 (refused, or moved from) | `ImplementsPositions`; `ConstructedExactly`, `NoRawDestroyed`; `NoRawDesignated`, `PushKeepsDesignated`, `IteratorTypeOK` |
| `buffer_throwing` | 2 objects, 2 values, 1 iterator, capacities 2 and 0, constructors may throw | `ImplementsPositions`, with the elements that failed pushes count; `NoStrayElement`: what was constructed stays where the destructor can reach it; `TypeOK` |
| `array_container` | 2 objects, sizes 0 and 2, copies may throw | `ImplementsContainer`, `EarlierElementsStay`, `TypeOK` |
| `suites` | 261 tests, those of week 10 on both kinds of `std::lock`; any calls on two queues with doubles, until five locks were taken | `AssertionsHold`: no assertion fails; `NothingOverlooked`: none holds only because `operator==` is wrong; `CallsAsAnnounced`; `ElementsAccounted` for calls in any order |
| `queue_phantom`, `queue_lost_notify`, `buffer_leak`, `objects_stale_copy` | small | the findings below: each checks one property that the code violates |

*Bounds, one queue.* Two threads can block on one condition while a third
serves one of them; that is enough for every overtaking of a blocked thread by
a newcomer, and the clients add a fourth. With capacity 2 the ring wraps, a
queue can be neither full nor empty, and a notification on a change of state
only would differ from one per element. Capacity 1, where every push fills and
every pop empties the queue, is covered by the theorems, which hold for any
capacity, and by `queue_lost_notify`. With two values an element can be told
from its neighbour. `MaxSpurious = 1` lets each wait of the clients be the one
that is disturbed, and `MaxThrown = 1` each call the one that fails; what more
failures cost is proved.

*Bounds, several queues.* Two threads and two queues of one size make crossed
swaps; the third queue, of another size, makes storage change size; the fourth
name lets queues be constructed and destroyed. `MaxCalls = 3` suffices for a
thread to fill a ring, exchange it and look. The three scenarios are kept apart
on purpose: a copy that races with an exchange of queues of *different*
capacity breaks `RingsIntact`, which is the finding of `objects_stale_copy`;
with equal capacities the same race is harmless and is in `trading`. Calls of
`q.swap(q)` are left out (see below).

*Bounds, buffers.* Every operation involves at most two objects. Capacity 2
wraps, and a copy fails at its first or its second element. `Offsets` reach
beyond a buffer in both directions. The theorems below remove the bounds of all
runs but those of the scripts in `suites`, up to the assumptions they name:
each invariant and each refinement is proved for any numbers of threads,
objects, values, calls and exceptions, and for any capacities.

*Bounds, suites.* The tests are finite and are run at their full length.
`MaxLocks = 5` bounds the calls in any order: no call begins once five locks
were taken, which leaves room for filling a queue and assigning it to another
one whose mutex refuses the first try.

*Symmetry* is used where values, objects or iterators are interchangeable and
only safety is checked (invariants, and properties of the form `[][A]_v`, which
do not name single elements of the symmetric sets).

*Fairness.* `FairSpec` (clients) assumes weak fairness for each task: a thread
that can go on, and remains able to, goes on. That is what a preemptive
scheduler gives; it includes that a deadline passes. Nothing is assumed about
the mutex: `std::mutex` is not fair, a thread may lose the race for it any
number of times. Every task calls finitely often and spurious wakeups are
bounded, so the races end. With unbounded spurious wakeups, which the standard
does not exclude, woken threads could take the mutex from the others for ever;
the code cannot prevent that and no property claims it. `BoundedFairSpec`
(objects) assumes the same, weak fairness for a thread's progress and for its
deadline, and nothing else; whether an element operation throws is left open.
Then two crossed swaps may back off for ever, since neither the code nor the
standard says who wins the second mutex, and two threads may be woken for ever.
`CallsReturn` names both: each thread's calls return, but for a `push` or `pop`,
which may rightly block, unless that thread begins `std::lock` again and again
(`BacksOffForEver`) or wakeups without a reason never end (`WokenForEver`). What
it excludes is every other way to hang: a mutex that is kept while its owner
waits for another, one that is not given back by a call that throws or refuses,
an assignment to itself that locks twice.

*Deadlock* is checked in all runs of `BoundedQueue` (some thread can always
call, wake or go on), the buffers and the suites. It is switched off for the
clients, which do end (that they do not end blocked is what `NeverAllBlocked`
and `AllReturn` say), and for `objects` and `objects_stale_copy`, where the
calls are used up or both threads rightly wait for an element or for space.

## Findings

- `queue_phantom`: `push_index()` counts the element before its constructor
  runs (`week10/include/BoundedQueue.h:232`, `237`); if that throws, the queue
  holds an element that does not exist. It is one for each push that throws and
  not more: `SizeAccounted`.
- `queue_lost_notify`: `target = do_pop()` (`:164`, `:179`) removes the element
  before an assignment that may throw; then the notification is skipped and a
  blocked producer is not woken although there is space. It is one element and
  one wakeup for each such call and not more: `Conservation`,
  `WakeupsAccounted`.
- `buffer_leak`: `clear()` (`week05/include/BoundedBuffer.h:343`) compares its
  counter with the shrinking `m_size` and destroys only half of the elements.
  The suite has the right expectation and uses one element, for which the loop
  is right; besides, the suite is not registered with the test runner.
- `objects_stale_copy`: the copy constructor reads `other.m_maximumSize`
  (`week10/include/BoundedQueue.h:34`) before it takes `other.m_mutex` (`:36`);
  a swap in between makes a copy whose storage is too small.

Other disagreements met while modelling, which no run is spent on:

- A copy that throws runs the destructor, after the delegation in the
  constructor, on an element that was counted and not made
  (`BoundedQueue.h:40`, `week05/include/BoundedBuffer.h:285`). The runs that let
  copies throw exempt this slot and those that failed pushes counted
  (`queue_phantom`), which destructors meet as well; `NoRawDestroyed` of `objects`
  is about all other raw slots.
- `swap` notifies nobody (`BoundedQueue.h:192`): a consumer blocked on an empty
  queue that is swapped with a full one stays blocked. Beside exchanges it is the
  calls that throw (`queue_lost_notify`) that strand a thread, and
  `StrandedOnlyUnnotified` says that there is no third way.
- `q.swap(q)` (`:190`) locks one mutex twice; the model has the step
  (`SelfSwap`), and goes round for ever.
- Lock suite, line 381: a copy assignment whose test announces a notification
  that never comes passes because the temporary's condition variable has
  disarmed the comparison (`docheck`, line 66). `CallsAsAnnounced` holds for all
  other tests.
- Lock suite, line 269 expects four tries of `std::lock`, which is right for an
  implementation that goes back to the first mutex; one that begins again with
  the mutex it failed to get makes seven. The expectation is checked for the
  former kind only.
- `operator==` of `MemoryOperationCounter` compares `copies` and `known_state`
  with the wrong precedence, so two wrong members cancel out.
  `NothingOverlooked` says that no test depends on it.

## Proofs

The theorems hold for every value of the constants that satisfies the named
`ASSUME`s of the modules. A theorem that needs more states it in its own
`ASSUME`, or as a condition on the behaviour.

| Module | Theorems | Assumptions beyond the modules' |
|---|---|---|
| `BoundedQueueProofs` | `TypeCorrect`, `MutualExclusion`, `TestedIsTrue` | none: whichever element operations throw |
| | `Linearizable` | none: whichever element operations throw |
| | `LifetimesCorrect` | constructors do not throw |
| | `NoWakeupIsLost` | `Throws = {}`; see `ExceptionsCostOneWakeup` for the rest |
| `QueueClientsProofs` | `ClientsUseQueue`, `ElementsConserved`, `ExceptionsCostOneWakeup` | none: whichever element operations throw, and however often |
| | `OnlyFailedPushesOvercount` (`SizeAccounted`) | none |
| | `OnlyAssignmentsLose` | the assignment to a target does not throw |
| | `TasksNeverAllBlocked` | each program is `Served` |
| | `ProducersInOrder` | `DistinctElements`: no element is pushed by two calls; anything may throw |
| `BoundedQueueObjectsProofs` | `TypeCorrect` | none; here and below whichever element operations throw |
| | `RingsIntactIfCopiesFit`, `NoRawDestroyedIfCopiesFit` | none on constants; behaviours in which each copy fits (`[]CopiesFit`) |
| | `SettledIntact`, `EqualCapacitiesIntact` | `Settled`, `CopiesSettled`; one capacity for all |
| | `OnlyUnnotifiedStrands` | finitely many threads |
| | `ImplementsSharedIfCopiesCurrent` | behaviours in which each copy finds the capacity it read (`[]CopiesCurrent`) |
| | `SteadyImplementsShared`, `EqualCapacitiesImplementShared` | `Settled`, `CopiesSteady`; one capacity for all and no move construction |
| `QueueDoublesProofs` | `LifetimesAccounted` | `NaturalArguments`, `ElementsOf(E)`, `NilIsNoQueue(E)` |
| `SuitesProofs` | `ElementsAccountedUnbounded` | `NilIsNothing` |
| `BoundedBufferProofs` | `TypeCorrect`, `NoElementStrays` | `CopiesAreElements` |
| | `WindowsAreExact`, `DestroysElementsOnly` | `CopiesAreElements`, `~MayThrow` |
| | `IteratorsDisturbNothing`, `IteratorTypeCorrect`, `PushKeepsElement` | `CopiesAreElements`, `NilIsNoObject`: whichever constructors throw |
| | `IteratorsKeepWindows`, `DesignatesElements` | these and `~MayThrow` |
| | `BufferImplementsPositions` | `CopiesAreElements`, `NilIsNoObject`, `NilIsNoPosition`: whichever constructors throw |
| `ArrayBufferProofs` | `TypeCorrect`; `PushKeepsElements`; `ArrayImplementsContainer` | none; `NilIsNoObject`; and `NilIsNoSize` |

`QueueRingProofs` has the lemmas about the operators of `QueueRing` that the
modules with several queues share. `CopiesAreElements` says that copying an
element makes an element, `ElementsOf(E)` that the set `E` contains the values
and the copies of its members, `NaturalArguments` that constructors and
templates get no negative numbers; the other names say that `Nil`, which stands
for "no object", is not a record of members, an iterator or a size. TLC's model
value `Nil` satisfies them.

*The queue.* `BoundedQueueProofs` proves the inductive invariant

    IInv == TypeOK /\ MutexOwner /\ PredicateStillHolds /\ PlaceInv

`TypeOK` is not inductive alone: that `do_push` keeps `m_size` within the
capacity rests on the predicate (`PredicateStillHolds`), which stays true
between test and use because no other thread changes the ring meanwhile
(`MutexOwner`); and which predicate that is, and who is blocked where, is in
`PlaceInv` (a thread is in a wait set exactly while it is blocked, and its call
fits its place). The modulus enters through one lemma, `WrapLemma`: an index
wraps around at most once.

For wakeups, the proof shows for each side that every step either leaves the
helpers (threads on their way, notifications due) in place, or removes one with
the element it was there for, or adds one with a new element; three lemmas
about cardinalities carry the counting.

For linearizability the window is described by the distance of a slot from
`m_first` (`WindowLemma`); `AppendLemma` and `TailLemma` say that `do_push` and
`do_pop` are `Append` and `Tail` on the contents; then each action maps to one
abstract action or to a stutter. No assumption on exceptions is needed, because
of one more invariant that they do not break, `NoStrayElement`: no slot outside
the window holds an element. So the slot that a failed push counts is raw, and
the contents grow by `Nil` (`UnmadeLemma`).

*The clients.* `ClientInv` adds to `IInv` and `NoStrayElement` that each task
is at a call of its program (`ProgramInv`). `StepLemma` sorts the steps by what
they do to the elements: nothing, an answer that is recorded (a refusal, an
observation or an exception), an element put into the ring, taken out of it, or
lost by a throwing assignment.

`Balance(values)` counts calls by their results: for any set of values, the
elements delivered or in the ring are at most those accepted, and at least
those without one for each pop that failed. It is stated for every set of
values at once (`Balanced`), since `Conservation` has a bound from above for
each value and one from below for all of them. It is not inductive without the
rest: that an element put into the ring was in no slot's count before, and that
one taken out was in exactly one, needs the window, and that the step adds one
call to those that accepted or delivered needs `ProgramInv`.

`OnlyFailedPushesOvercount` says what is left of `ConstructedExactly` when a
constructor throws (the finding of `queue_phantom`): `m_size` exceeds the number
of elements by at most the number of pushes that threw, for however many calls.
A push that succeeds adds an element to a slot that was raw (`NoStrayElement`
again); a pop lowers `m_size` and removes at most one element, and where it
passes a slot that was counted in vain, the surplus shrinks.

`ExceptionsCostOneWakeup` follows a number through the failures. A thread stays
blocked beside at most as many unclaimed elements as calls have failed; a step
that ends no call with an exception keeps the number, as in the proof of
`NoWakeupIsLost`, and one that does raises it by one, because it takes away one
helper (a thread that was woken) or one notification, and adds one failed call.

`TasksNeverAllBlocked` is a counting argument about a state in which no task
can go on. There the mutex is free, so that every task has finished or sleeps
in `push` or `pop`. If one sleeps in `pop` and another in `push`, the ring is
not full or not empty, and one of them sleeps beside an element or a free slot
that nobody is on the way to, which `WakeupsAccounted` excludes as long as no
call has failed. If all of them sleep in `pop`, the ring is empty; the pushes
that come before the first `pop` of their task have all returned, and have
succeeded (`BlockingServed`); so by `Balanced` and `Served` at least as many
elements were delivered as the programs have pops, and the sleeper's own is not
among them. The case of `push` is its mirror, with the capacity as a head
start, for which the window must be filled (`FullWindow`). The premise is
necessary: a program with one pop and no push does block. TLC evaluates it for
the programs of the suite (`SuiteIsServed`).

For the order of producers each element is traced to the one call that pushed
it (`Origin`, where `DistinctElements` is needed: with equal elements there
would be no fact to state). Then the elements of one producer lie in the ring
in order (`RingOrder`), and none that was taken out is behind one that is still
there (`NoneBehind`). The multi-threaded suite satisfies `DistinctElements`:
its producers push disjoint slices of an `iota`. TLC checked these invariants
on `clients.cfg` before they were proved.

*Several queues.* The invariant `IInv(exact)` has the exclusion across two
mutexes (who is at which place holds which of them, and only those), what the
two halves of an exchange leave behind for each other, and the shape of each
object; with `exact`, every ring that is not under a thread's hands is whole: the
slots that it counts hold elements or the marks of failed pushes, and no other
slot does. `IInv(FALSE)` is inductive without any condition, and gives the types
and `OnlyUnnotifiedStrands`, whose counting goes as in the single queue, for each
object and side that is not in `unnotified`. `IInv(TRUE)` is not inductive, and must not be: that is the
finding of `objects_stale_copy`. It is kept by every step from a state with
`CopiesFit`: a thread about to copy has as many slots as the original has
elements. So the theorem says that, apart from the slots that throwing pushes
count in vain, the unlocked read of `m_maximumSize` is the *only* thing that
breaks a ring. When do copies fit? `Settled` gives each name of an
object the set of capacities it may come to have; if each original has at most
one other than zero, or only its copier exchanges it (`CopiesSettled`), they
do. That includes the case of one capacity for all queues, and a queue that is
emptied by a move between the two parts of its copy. The refinement needs
slightly more, `CopiesCurrent`: what the copier read is what the original has,
because a copy from which a move has taken everything would have the wrong
capacity. Its mapping lets an exchange happen with the second half of the swaps
and shows an object whose indices were exchanged already with its former ones
(`Members`, `SwapIndicesStutters`); a queue that is move-constructed has its
value before the constructor returns (`Newborn`); a copy happens in its loop,
under the original's mutex. The loop is a recursive function over the number of
elements copied; `FillingLemma` says what it computes for every length, by
taking the least length for which it would not.

*The lock doubles.* `DoublesInv(E)` says that each object is whole, and
relates the counters of the elements to the objects: what was constructed and
neither destroyed nor handed out is as many elements as all slots hold
(`HeldSlots`). `SizeLemma` gives that number from `m_size`,
by a bijection between the first `m_size` numbers and the slots of the window;
`HeldLemma` and `HeldTwoLemma` carry one and two replaced objects over to the
sum, and the lemmas `Served...` and `Added...` do the accounts of each kind of
call. In `Suites`, the property of the same name is that of its instance `Any`. `SuitesProofs` carries the theorems over: it shows action by action that
`Any` and the instance of the module with the theorems are the same (`AnyNext`,
`SameProperties`), that the arguments of `Suites` meet the assumptions
(`Arguments`), and that only the program `any calls` takes steps of `Any`
(`SuitesStepInv`). The bound `MaxLocks` of the run falls away.

*The heap buffer.* The invariant of `BoundedBufferProofs` says of each object
that its members fit together (`Shape`) and that no element lies outside the
window (`Tidy`), whichever constructors throw, and that no slot of the window is
raw (`Filled`), if none does. `Tidy` and `Filled` speak of the distance from
`m_first` instead of the set of indices, which makes each operation a question
of linear arithmetic. `Filled` is what keeps destructors from raw storage, and
`clear` needs only that its loop runs at most `m_size` times (`PassesLemma`).

*Iterators.* `Sane` says that an iterator refers to an object with an index
that was once in its range; with `Filled` this gives `DesignatesElements`,
because the check against `m_size` is made at the time of use. Writing through
an iterator keeps windows tidy and filled (`OverwriteLemma`), so what is proved
of the buffers alone holds while iterators are used (`IteratorsDisturbNothing`,
`IteratorsKeepWindows`). For the refinement, the lemmas `AppendLemma`,
`TailLemma`, `CopyLemma`, `ReplaceLemma` and `EndsLemma` say what the helpers
do to the ring as a sequence, `SeenBecome` and `SeenPair` carry one and two
changed objects over to the abstract variables, and each step is one abstract
step or a stutter. As in the queue, that a failed push adds nothing but `Nil`
is a consequence of `Tidy` (`UnmadeLemma`).

*The array buffer* goes the same way, with `EachLemma` for the member-wise
copies and moves; it needs no assumption on exceptions, because what a throwing
assignment leaves behind is part of `ArrayContainer`.

Only model-checked: liveness (`AllReturn`, `CallsReturn`), which is beyond the
prover; for `AllReturn` the safety half, that the tasks are never all blocked,
is `TasksNeverAllBlocked`. And what the suites assert (`AssertionsHold`,
`NothingOverlooked`, `CallsAsAnnounced`): 261 finite scripts, which TLC runs at
their full length and about which there is nothing more general to say. Proofs
are organised without operators that take an operator: where induction is
needed it is by the least element of a set of numbers (`LeastElement`).

## Not modelled

- *Distance and speed literals* (`week01/include`): constant expressions on
  `double`, which TLC has not; no state depends on them.
- *Typed units* (`week01/include/units`): the headers they include are not in
  the repository and the templates are never instantiated.
- *Rational test* (`week01/src/rational_test.cpp`): the class it tests is not in
  the repository.
- *Tracer* (`week02`): prints what `std::vector` does.
- *`not_on_heap`*: deleted operators, checked by the compiler.
- *Suites of signatures* assert types only; the suites of the students are empty.
- *CUTE*: vendored; of it the suites have that the runner runs each registered test by
  itself and whether assertions hold; filters, listeners and messages are left out.
- *Build files*: no state.
- Of what is modelled: addresses and byte sizes (`size * sizeof(ValueType)` may
  wrap around), the limits of `ptrdiff_t` in iterator arithmetic, and
  allocation failure.

## Next

1. That the scripts of `QueueSuites` are behaviours of `QueueDoubles` but for
   `reset_counters`, so that the theorems about any calls cover them.
2. The same account for the single-threaded buffers: what `size()` counts beside
   the elements is at most the number of pushes that failed.
