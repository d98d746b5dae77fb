------------------------- MODULE MCQueueObjectsFair -------------------------
(***************************************************************************)
(* BoundedQueueObjects with a bounded number of calls per thread and        *)
(* fairness.  A behaviour has the calls of one of three scenarios: queues   *)
(* of different sizes that are exchanged are not copied at the same time.   *)
(***************************************************************************)
EXTENDS MCQueueObjects

CONSTANT MaxCalls       \* bound: calls of each thread

VARIABLES scenario,     \* the calls each thread may make in this behaviour
          calls         \* calls made so far by each thread

bvars == <<vars, scenario, calls>>

Scenarios == [trading |-> Trading, making |-> Making, blocking |-> Blocking]

AnyScenario == [t \in TwoThreads |-> UNION {Scenarios[s][t] : s \in DOMAIN Scenarios}]

BoundedInit == /\ Init
               /\ scenario \in DOMAIN Scenarios
               /\ calls = [t \in Threads |-> 0]

Begin(t) == \E x \in Scenarios[scenario][t] :
  /\ calls[t] < MaxCalls
  /\ Call(t, x)
  /\ calls' = [calls EXCEPT ![t] = @ + 1]
  /\ UNCHANGED scenario

Go(t) == Progress(t) /\ UNCHANGED <<scenario, calls>>

Pass(t) == Expire(t) /\ UNCHANGED <<scenario, calls>>

\* What may happen to a thread: no fairness.
Stir(t)  == WakeSpuriously(t) /\ UNCHANGED <<scenario, calls>>
Throw(t) == /\ \/ PushFails(t) \/ PopFails(t)
               \/ \E q \in alive : \E k \in 1 .. queue[q].m_size : CopyThrows(t, k)
            /\ UNCHANGED <<scenario, calls>>

BoundedNext == \E t \in Threads : Begin(t) \/ Go(t) \/ Stir(t) \/ Throw(t)

\* Threads that can go on do, and deadlines pass.
BoundedFairSpec ==
  /\ BoundedInit /\ [][BoundedNext]_bvars
  /\ \A t \in Threads : WF_bvars(Go(t)) /\ WF_bvars(Pass(t))

\* std::lock gives back the mutex it holds and begins again, for ever.
BacksOffForEver(t) == []<><<BackOff(t)>>_bvars /\ []<><<LockFirst(t)>>_bvars

\* Threads are woken for no reason, for ever, and keep taking their mutexes.
WokenForEver == []<><<\E t \in Threads : WakeSpuriously(t)>>_bvars

\* No call hangs but one that waits for an element or for space: threads that
\* exchange two queues in opposite directions, that assign a queue to itself or
\* wait until a deadline all return, although they hold one mutex while they reach
\* for the other.  The code leaves one way out, that std::lock loses the race for
\* the second mutex again and again, and nothing is said of endless wakeups.
CallsReturn == \A t \in Threads :
  \/ []<>(pc[t] = "idle" \/ call[t].op \in {"push", "pop"})
  \/ BacksOffForEver(t)
  \/ WokenForEver
=============================================================================
