---------------------------- MODULE QueueClients ----------------------------
(***************************************************************************)
(* exercises/week10/src/bounded_queue_multi_threaded_suite.cpp: a fixed    *)
(* set of tasks, each a finite sequence of calls on one shared queue, and  *)
(* the results they collect.  launchProducer and launchConsumer are two    *)
(* such sequences; the timed calls and the observers may be mixed in.      *)
(*                                                                         *)
(* Every task may start at once.  The suite launches some of them later,   *)
(* which only removes behaviours.                                          *)
(***************************************************************************)
EXTENDS BoundedQueue

CONSTANTS Programs,     \* sets of tasks: the calls of each task t, in order
          MaxSpurious,  \* bound: spurious wakeups in a behaviour
          MaxThrown     \* bound: calls of a behaviour that end with an exception

ASSUME ProgramAssumption == \A p \in Programs, t \in Threads :
  /\ p[t] \in Seq(Calls)
  /\ \A i \in DOMAIN p[t] : p[t][i].op \in Menu[t]
ASSUME BoundsAssumption == MaxSpurious \in Nat /\ MaxThrown \in Nat

VARIABLES program,       \* the tasks of this behaviour
          results,       \* what the calls of each task returned so far
          spurious      \* spurious wakeups so far

clientVars == <<vars, program, results, spurious>>

\* The results of t, with the one its running call has already fixed.
Settled(t) == IF pc[t] \in {"notify", "unlock"} THEN Append(results[t], ret[t])
                                                ELSE results[t]

\* The calls among these that have ended with one of these results, each as the
\* task that makes it and its number.
Ended(calls, outcomes) ==
  UNION {{t} \X {i \in DOMAIN Settled(t) : /\ program[t][i] \in calls
                                          /\ Settled(t)[i] \in outcomes} : t \in Threads}

\* The calls that an exception has left.
Failed == Ended(Calls, {Exception})

Done(t) == Len(results[t]) = Len(program[t])
AllDone == \A t \in Threads : Done(t)

ClientInit == /\ Init
              /\ program \in Programs
              /\ results  = [t \in Threads |-> <<>>]
              /\ spurious = 0

\* The task calls the next member function; the lambda's loop.
Issue(t) == /\ ~Done(t)
            /\ Call(t, program[t][Len(results[t]) + 1])
            /\ UNCHANGED <<program, results, spurious>>

\* The call returns; push_back(result) in launchConsumer.
Collect(t) == /\ Unlock(t)
              /\ results' = [results EXCEPT ![t] = Append(@, ret[t])]
              /\ UNCHANGED <<program, spurious>>

Inside(t) == /\ pc[t] # "unlock"
             /\ Progress(t)
             /\ ret'[t] = Exception => Cardinality(Failed) < MaxThrown
             /\ UNCHANGED <<program, results, spurious>>

Disturb(t) == /\ spurious < MaxSpurious
              /\ WakeSpuriously(t)
              /\ spurious' = spurious + 1
              /\ UNCHANGED <<program, results>>

\* What the scheduler owes task t: a task that can take a step on its own, and
\* keeps being able to, takes one.
Advance(t) == Issue(t) \/ Inside(t) \/ Collect(t)

ClientNext == \E t \in Threads : Advance(t) \/ Disturb(t)

ClientSpec == ClientInit /\ [][ClientNext]_clientVars
FairSpec   == ClientSpec /\ \A t \in Threads : WF_clientVars(Advance(t))

-----------------------------------------------------------------------------
(* Properties. *)

\* The calls that pushed one of these values, those that popped one, and the
\* slots that hold one.
Accepted(values)  == Ended([op : PushOps, elem : values],
                           {<<"void", Nil>>, <<"bool", TRUE>>})
Delivered(values) == Ended(Calls, {"element"} \X values)
Held(values)      == {i \in Slots : m_data[i] \in values}

\* The pops that an exception has left, with or without an element.
FailedPops == Ended([op : PopOps, elem : {Nil}], {Exception})

\* No element is duplicated or invented: of each value, as many as are in the
\* ring or were delivered have been accepted.  And none is lost but in pops that
\* threw, at most one in each; which of the other calls were refused on the way,
\* or threw, makes no difference.
Conservation ==
  /\ \A v \in Values : Cardinality(Delivered({v})) + Cardinality(Held({v}))
                          <= Cardinality(Accepted({v}))
  /\ Cardinality(Accepted(Values)) <=
       Cardinality(Delivered(Values)) + Cardinality(Held(Values)) + Cardinality(FailedPops)

\* The pushes that an exception has left.
FailedPushes == Ended([op : PushOps, elem : Values], {Exception})

\* size() and full() count at most one slot without an element for each push that
\* threw, however many calls came after it: a slot that was counted in vain goes
\* away with the pop that passes it.
SizeAccounted == m_size <= Cardinality(Held(Values)) + Cardinality(FailedPushes)

\* An exception costs at most one wakeup, wherever it is thrown: a task is
\* blocked beside as many unclaimed elements (free slots) as calls have failed,
\* and not beside more.
WakeupsAccounted == LET k == Cardinality(Failed) IN ElementsServedBut(k) /\ SpaceServedBut(k)

\* v is pushed before w by one and the same task.
PushedBefore(v, w) == \E t \in Threads : \E i, j \in DOMAIN program[t] :
  /\ i < j
  /\ program[t][i] = [op |-> program[t][i].op, elem |-> v]
  /\ program[t][j] = [op |-> program[t][j].op, elem |-> w]

\* What a consumer gets from one producer arrives in the order in which it was
\* pushed, however many producers and consumers there are
\* (test_one_producer_and_one_consumer compares exactly that).
ProducerOrder == \A t \in Threads : \A i, j \in DOMAIN Settled(t) : \A v, w \in Values :
  /\ i < j
  /\ Settled(t)[i] = <<"element", v>>
  /\ Settled(t)[j] = <<"element", w>>
  => ~PushedBefore(w, v)

\* The calls of these tasks to these member functions.
CallsTo(tasks, ops) ==
  UNION {{t} \X {i \in DOMAIN tasks[t] : tasks[t][i].op \in ops} : t \in Threads}

\* The calls of op that do not follow a call of blocker in their task.
Ahead(tasks, op, blocker) ==
  UNION {{t} \X {i \in DOMAIN tasks[t] : /\ tasks[t][i].op = op
                                        /\ \A j \in DOMAIN tasks[t] :
                                             j < i => tasks[t][j].op # blocker} : t \in Threads}

\* What every test of the suite sees to: if a task waits in pop, there is a push
\* for each pop that the task calls before it could wait in pop itself; and
\* likewise for push, where the ring takes the first ones.
Served(tasks) ==
  /\ CallsTo(tasks, {"pop"}) # {} =>
       Cardinality(CallsTo(tasks, PopOps)) <= Cardinality(Ahead(tasks, "push", "pop"))
  /\ CallsTo(tasks, {"push"}) # {} =>
       Cardinality(CallsTo(tasks, PushOps)) <= Cardinality(Ahead(tasks, "pop", "push")) + Capacity

\* A step of t is due, now or once its deadline has passed.
CanMove(t) == \/ pc[t] = "idle" /\ ~Done(t)
              \/ pc[t] \in {"lock", "relock"} /\ m_mutex = Nil
              \/ pc[t] \in Critical
              \/ pc[t] = "waiting" /\ call[t].op \in TimedOps /\ t \notin expired

\* The tasks never all wait for each other: unless all have finished, one of
\* them can go on, as long as no call has failed.  Whoever sleeps in pop (push)
\* can only be woken by a producer (consumer), which needs m_mutex, and may
\* itself be asleep in push (pop).
NeverAllBlocked == Failed = {} => AllDone \/ \E t \in Threads : CanMove(t)

\* Every task finishes, unless a call failed: where producers and consumers
\* move the same number of elements, nobody stays blocked in push or pop, and
\* the suite's futures become ready.
AllReturn == <>[](AllDone \/ Failed # {})
=============================================================================
