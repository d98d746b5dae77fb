---------------------------- MODULE BoundedQueue ----------------------------
(***************************************************************************)
(* exercises/week10/include/BoundedQueue.h: one queue object shared by     *)
(* threads that call its member functions.  A call is split where another  *)
(* thread can get in between or an element operation can throw: locking    *)
(* m_mutex, evaluating the wait predicate, touching the ring, notifying,   *)
(* unlocking.  The member names are those of the source.                   *)
(*                                                                         *)
(* The functions that involve a second queue object (swap, copy, move,     *)
(* destruction) are not in this module.                                    *)
(***************************************************************************)
EXTENDS Naturals, FiniteSets, Sequences

CONSTANTS Threads,    \* the threads that share the queue
          Values,     \* the elements they push
          Capacity,   \* m_maximumSize, the constructor's argument
          Menu,       \* Menu[t]: the member functions t may call
          Throws,     \* the element operations that may throw
          Nil         \* no element, no thread, raw storage

PushOps   == {"push", "try_push", "try_push_for"}
PopOps    == {"pop", "try_pop", "try_pop_for"}
Observers == {"empty", "full", "size"}
Ops       == PushOps \cup PopOps \cup Observers
TimedOps  == {"try_push_for", "try_pop_for"}
WaitOps   == {"push", "pop"} \cup TimedOps     \* the calls that can block

ASSUME ThreadsAssumption == IsFiniteSet(Threads)

\* The constructor throws std::invalid_argument for a capacity of zero, so a
\* queue that exists has a positive one.
ASSUME CapacityAssumption == Capacity \in Nat \ {0}
ASSUME MenuAssumption == Menu \in [Threads -> SUBSET Ops]
ASSUME ThrowsAssumption == Throws \subseteq {"construct", "assign"}
ASSUME NilAssumption == Nil \notin Values \cup Threads

VARIABLES m_first, m_size, m_data,      \* the ring
          m_mutex,                      \* the owner, or Nil
          m_hasSpace, m_hasElements,    \* the threads blocked on each condition
          pc,                           \* where each thread is
          call,                         \* the call it is in
          ret,                          \* what that call returns
          expired                       \* timed calls whose deadline has passed

ring  == <<m_first, m_size, m_data>>
conds == <<m_hasSpace, m_hasElements>>
vars  == <<m_first, m_size, m_data, m_mutex, m_hasSpace, m_hasElements,
           pc, call, ret, expired>>

Slots  == 0 .. Capacity - 1
Calls  == [op : PushOps, elem : Values]
            \cup [op : PopOps \cup Observers, elem : {Nil}]
NoCall == [op |-> "none", elem |-> Nil]

NoRet     == <<"none", Nil>>
Refused   == <<"bool", FALSE>>
Exception == <<"threw", Nil>>

\* Places at which a thread owns m_mutex.
Critical == {"decide", "apply", "notify", "unlock"}
Places   == {"idle", "lock", "waiting", "relock"} \cup Critical

-----------------------------------------------------------------------------
(* The private helpers. *)

\* Mutant: one element too many.
do_fullLate == m_size > Capacity

do_empty == m_size = 0
do_full  == m_size = Capacity

to_buffer_index(index) == (m_first + index) % Capacity

\* Mutant: push_index() increments before it computes the index.
do_pushPreIncrement(element) ==
  /\ m_data'  = [m_data EXCEPT ![to_buffer_index(m_size + 1)] = element]
  /\ m_size'  = m_size + 1
  /\ UNCHANGED m_first

\* do_push through push_index(): the element is constructed in the slot
\* behind the last one.
do_push(element) ==
  /\ m_data'  = [m_data EXCEPT ![to_buffer_index(m_size)] = element]
  /\ m_size'  = m_size + 1
  /\ UNCHANGED m_first

\* Mutant: do_pop advances m_first without wrapping around.
do_popUnwrapped ==
  /\ m_data'  = [m_data EXCEPT ![m_first] = Nil]
  /\ m_first' = m_first + 1
  /\ m_size'  = m_size - 1

\* do_pop: the first element is moved out and destroyed, which leaves raw
\* storage behind.
do_pop ==
  /\ m_data'  = [m_data EXCEPT ![m_first] = Nil]
  /\ m_first' = (m_first + 1) % Capacity
  /\ m_size'  = m_size - 1

\* The wait predicate of t's call, and the test of try_push and try_pop.
Ready(t) == IF call[t].op \in PushOps THEN ~do_full ELSE ~do_empty

\* What a call that was let through returns; a true from try_pop and
\* try_pop_for comes with the element assigned to the target.
Success(t) == CASE call[t].op = "push"    -> <<"void", Nil>>
                [] call[t].op \in PopOps  -> <<"element", m_data[m_first]>>
                [] OTHER                  -> <<"bool", TRUE>>

Observation(t) == CASE call[t].op = "empty" -> <<"bool", do_empty>>
                    [] call[t].op = "full"  -> <<"bool", do_full>>
                    [] OTHER                -> <<"count", m_size>>

Goto(t, place) == pc' = [pc EXCEPT ![t] = place]
Return(t, r)   == ret' = [ret EXCEPT ![t] = r]

-----------------------------------------------------------------------------
Init == /\ m_first = 0
        /\ m_size  = 0
        /\ m_data  = [i \in Slots |-> Nil]
        /\ m_mutex = Nil
        /\ m_hasSpace = {}
        /\ m_hasElements = {}
        /\ pc      = [t \in Threads |-> "idle"]
        /\ call    = [t \in Threads |-> NoCall]
        /\ ret     = [t \in Threads |-> NoRet]
        /\ expired = {}

\* t enters a member function.
Call(t, c) ==
  /\ pc[t] = "idle"
  /\ c.op \in Menu[t]
  /\ Goto(t, "lock")
  /\ call' = [call EXCEPT ![t] = c]
  /\ UNCHANGED <<ring, m_mutex, conds, ret, expired>>

\* Mutant: a thread that returns from wait does not re-acquire the mutex.
LockOnlyOnce(t) ==
  /\ pc[t] \in {"lock", "relock"}
  /\ pc[t] = "lock" => m_mutex = Nil
  /\ m_mutex' = t
  /\ Goto(t, "decide")
  /\ UNCHANGED <<ring, conds, call, ret, expired>>

\* Mutant: wait without a predicate, so that a woken thread does not test again.
LockWithoutRecheck(t) ==
  /\ pc[t] \in {"lock", "relock"}
  /\ m_mutex = Nil
  /\ m_mutex' = t
  /\ Goto(t, IF pc[t] = "relock" /\ t \notin expired THEN "apply" ELSE "decide")
  /\ UNCHANGED <<ring, conds, call, ret, expired>>

\* The lock_guard or unique_lock at the top of every function, and the
\* re-acquisition inside condition_variable::wait.
Lock(t) ==
  /\ pc[t] \in {"lock", "relock"}
  /\ m_mutex = Nil
  /\ m_mutex' = t
  /\ Goto(t, "decide")
  /\ UNCHANGED <<ring, conds, call, ret, expired>>

\* empty(), full() and size().
Observe(t) ==
  /\ pc[t] = "decide"
  /\ call[t].op \in Observers
  /\ Return(t, Observation(t))
  /\ Goto(t, "unlock")
  /\ UNCHANGED <<ring, m_mutex, conds, call, expired>>

\* The predicate holds: go on to do_push or do_pop.
Admit(t) ==
  /\ pc[t] = "decide"
  /\ call[t].op \notin Observers
  /\ Ready(t)
  /\ Goto(t, "apply")
  /\ UNCHANGED <<ring, m_mutex, conds, call, ret, expired>>

\* Mutant: a timed call whose deadline has passed returns false without
\* another look at the predicate.
RefuseUnchecked(t) ==
  /\ pc[t] = "decide"
  /\ call[t].op \notin Observers
  /\ t \in expired \/ (~Ready(t) /\ call[t].op \notin WaitOps)
  /\ Return(t, Refused)
  /\ Goto(t, "unlock")
  /\ UNCHANGED <<ring, m_mutex, conds, call, expired>>

\* try_push and try_pop return false at once.  A timed call does so when the
\* predicate is still false after its wait ended with a timeout.
Refuse(t) ==
  /\ pc[t] = "decide"
  /\ call[t].op \notin Observers
  /\ ~Ready(t)
  /\ call[t].op \in WaitOps => t \in expired
  /\ Return(t, Refused)
  /\ Goto(t, "unlock")
  /\ UNCHANGED <<ring, m_mutex, conds, call, expired>>

\* wait and wait_for: release the mutex and block, in one step.
Block(t) ==
  /\ pc[t] = "decide"
  /\ call[t].op \in WaitOps
  /\ ~Ready(t)
  /\ t \notin expired
  /\ m_mutex' = Nil
  /\ IF call[t].op \in PushOps
       THEN /\ m_hasSpace' = m_hasSpace \cup {t}
            /\ UNCHANGED m_hasElements
       ELSE /\ m_hasElements' = m_hasElements \cup {t}
            /\ UNCHANGED m_hasSpace
  /\ Goto(t, "waiting")
  /\ UNCHANGED <<ring, call, ret, expired>>

\* A blocked thread wakes although nobody notified it.
WakeSpuriously(t) ==
  /\ pc[t] = "waiting"
  /\ m_hasSpace' = m_hasSpace \ {t}
  /\ m_hasElements' = m_hasElements \ {t}
  /\ Goto(t, "relock")
  /\ UNCHANGED <<ring, m_mutex, call, ret, expired>>

\* Mutant: try_pop_for calls wait where it has to call wait_for.
ExpirePushOnly(t) ==
  /\ pc[t] \in {"waiting", "relock"}
  /\ call[t].op = "try_push_for"
  /\ t \notin expired
  /\ expired' = expired \cup {t}
  /\ m_hasSpace' = m_hasSpace \ {t}
  /\ Goto(t, "relock")
  /\ UNCHANGED <<ring, m_hasElements, m_mutex, call, ret>>

\* The deadline of a timed wait passes: a blocked thread wakes, and one that
\* was just notified finds a timeout status as well.
Expire(t) ==
  /\ pc[t] \in {"waiting", "relock"}
  /\ call[t].op \in TimedOps
  /\ t \notin expired
  /\ expired' = expired \cup {t}
  /\ m_hasSpace' = m_hasSpace \ {t}
  /\ m_hasElements' = m_hasElements \ {t}
  /\ Goto(t, "relock")
  /\ UNCHANGED <<ring, m_mutex, call, ret>>

Push(t) ==
  /\ pc[t] = "apply"
  /\ call[t].op \in PushOps
  /\ do_push(call[t].elem)
  /\ Return(t, Success(t))
  /\ Goto(t, "notify")
  /\ UNCHANGED <<m_mutex, conds, call, expired>>

Pop(t) ==
  /\ pc[t] = "apply"
  /\ call[t].op \in PopOps
  /\ do_pop
  /\ Return(t, Success(t))
  /\ Goto(t, "notify")
  /\ UNCHANGED <<m_mutex, conds, call, expired>>

\* An exception leaves the function: no notification, the lock is released
\* while the stack unwinds.
Unwind(t) ==
  /\ pc[t] = "apply"
  /\ Return(t, Exception)
  /\ Goto(t, "unlock")
  /\ UNCHANGED <<m_mutex, conds, call, expired>>

\* The element's constructor throws inside do_push: push_index() has already
\* incremented m_size, and no element was constructed.
PushThrows(t) ==
  /\ "construct" \in Throws
  /\ call[t].op \in PushOps
  /\ m_size' = m_size + 1
  /\ Unwind(t)
  /\ UNCHANGED <<m_first, m_data>>

\* The move out of the first slot throws inside do_pop: nothing was changed.
PopThrows(t) ==
  /\ "construct" \in Throws
  /\ call[t].op \in PopOps
  /\ Unwind(t)
  /\ UNCHANGED ring

\* target = do_pop(): the assignment throws after the element was removed.
AssignThrows(t) ==
  /\ "assign" \in Throws
  /\ call[t].op \in PopOps \ {"pop"}
  /\ do_pop
  /\ Unwind(t)

\* Mutant: notify_one only when the queue was empty before the push, or full
\* before the pop.
NotifyOnEdge(t) ==
  /\ pc[t] = "notify"
  /\ LET waiting == IF call[t].op \in PushOps THEN m_hasElements ELSE m_hasSpace
         edge    == m_size = (IF call[t].op \in PushOps THEN 1 ELSE Capacity - 1)
     IN  IF waiting = {} \/ ~edge
           THEN /\ Goto(t, "unlock")
                /\ UNCHANGED conds
           ELSE \E w \in waiting :
                  /\ m_hasSpace' = m_hasSpace \ {w}
                  /\ m_hasElements' = m_hasElements \ {w}
                  /\ pc' = [pc EXCEPT ![t] = "unlock", ![w] = "relock"]
  /\ UNCHANGED <<ring, m_mutex, call, ret, expired>>

\* Mutant: a call notifies the condition that its own side waits on.
NotifyOwnSide(t) ==
  /\ pc[t] = "notify"
  /\ LET waiting == IF call[t].op \in PushOps THEN m_hasSpace ELSE m_hasElements
     IN  IF waiting = {}
           THEN /\ Goto(t, "unlock")
                /\ UNCHANGED conds
           ELSE \E w \in waiting :
                  /\ m_hasSpace' = m_hasSpace \ {w}
                  /\ m_hasElements' = m_hasElements \ {w}
                  /\ pc' = [pc EXCEPT ![t] = "unlock", ![w] = "relock"]
  /\ UNCHANGED <<ring, m_mutex, call, ret, expired>>

\* notify_one on the other side's condition, the mutex still held: one of the
\* blocked threads, if there is one, goes on to re-acquire the mutex.
Notify(t) ==
  /\ pc[t] = "notify"
  /\ LET waiting == IF call[t].op \in PushOps THEN m_hasElements ELSE m_hasSpace
     IN  IF waiting = {}
           THEN /\ Goto(t, "unlock")
                /\ UNCHANGED conds
           ELSE \E w \in waiting :
                  /\ m_hasSpace' = m_hasSpace \ {w}
                  /\ m_hasElements' = m_hasElements \ {w}
                  /\ pc' = [pc EXCEPT ![t] = "unlock", ![w] = "relock"]
  /\ UNCHANGED <<ring, m_mutex, call, ret, expired>>

\* The guard's destructor unlocks and the function returns.
Unlock(t) ==
  /\ pc[t] = "unlock"
  /\ m_mutex' = Nil
  /\ Goto(t, "idle")
  /\ call' = [call EXCEPT ![t] = NoCall]
  /\ ret'  = [ret EXCEPT ![t] = NoRet]
  /\ expired' = expired \ {t}
  /\ UNCHANGED <<ring, conds>>

Throw(t) == PushThrows(t) \/ PopThrows(t) \/ AssignThrows(t)

\* What a thread does on its own once it is inside a call.
Progress(t) == \/ Lock(t)   \/ Observe(t) \/ Admit(t)  \/ Refuse(t)
               \/ Block(t)  \/ Expire(t)  \/ Push(t)   \/ Pop(t)
               \/ Throw(t)  \/ Notify(t)  \/ Unlock(t)

Next == \E t \in Threads :
          \/ \E c \in Calls : Call(t, c)
          \/ Progress(t)
          \/ WakeSpuriously(t)

Spec == Init /\ [][Next]_vars

-----------------------------------------------------------------------------
(* Properties. *)

Results == {NoRet, Exception, <<"void", Nil>>}
             \cup ({"bool"} \X BOOLEAN)
             \cup ({"element"} \X (Values \cup {Nil}))
             \cup ({"count"} \X (0 .. Capacity))

\* The type invariant; m_size never exceeds m_maximumSize, which do_push does
\* not test: it relies on the predicate its callers evaluated before.
TypeOK ==
  /\ m_first \in Slots
  /\ m_size \in 0 .. Capacity
  /\ m_data \in [Slots -> Values \cup {Nil}]
  /\ m_mutex \in Threads \cup {Nil}
  /\ m_hasSpace \subseteq Threads
  /\ m_hasElements \subseteq Threads
  /\ pc \in [Threads -> Places]
  /\ call \in [Threads -> Calls \cup {NoCall}]
  /\ ret \in [Threads -> Results]
  /\ expired \subseteq Threads

\* m_mutex is owned by exactly the thread that is inside a critical section:
\* wait gives it up and takes it back, exceptions and early returns release it.
MutexOwner == \A t \in Threads : pc[t] \in Critical <=> m_mutex = t

\* What a call tested is still true when it acts on it: the queue is not full
\* when do_push runs and not empty when do_pop runs, although the predicate was
\* evaluated earlier and other threads were notified, timed out or threw since.
PredicateStillHolds == \A t \in Threads : pc[t] = "apply" => Ready(t)

\* The buffer indices of the m_size elements, from the first one on.
Window == {to_buffer_index(k) : k \in 0 .. m_size - 1}

\* Element lifetimes: the slots from m_first on, m_size of them, hold an
\* element and all others are raw storage, so that do_pop and the destructor
\* destroy each element once and never touch raw storage.
ConstructedExactly == \A i \in Slots : m_data[i] # Nil <=> i \in Window

\* The calls past their wait that will use up an element, and the pushes that
\* have yet to call m_hasElements.notify_one; likewise for free slots.
OnTheWay(ops)   == {t \in Threads : /\ pc[t] \in {"relock", "decide", "apply"}
                                    /\ call[t].op \in ops}
Announcing(ops) == {t \in Threads : pc[t] = "notify" /\ call[t].op \in ops}

\* While a thread is blocked, all but at most k of the elements (free slots)
\* it could use are spoken for.
ElementsServedBut(k) == m_hasElements # {} =>
  m_size <= Cardinality(OnTheWay(PopOps)) + Cardinality(Announcing(PushOps)) + k
SpaceServedBut(k) == m_hasSpace # {} =>
  Capacity - m_size <= Cardinality(OnTheWay(PushOps)) + Cardinality(Announcing(PopOps)) + k

\* No lost wakeup: while a thread is blocked in pop or try_pop_for, every
\* element in the queue has a thread on its way to it or a notification about
\* to be sent; and the same for producers and free slots.  Every function
\* sends one notification for each element or slot it makes available.
NoLostWakeup == ElementsServedBut(0) /\ SpaceServedBut(0)

\* The abstract queue: the elements in ring order.  A call has taken effect
\* once its thread is about to notify or to unlock.
contents == [i \in 1 .. m_size |-> m_data[to_buffer_index(i - 1)]]
phase    == [t \in Threads |-> CASE pc[t] = "idle" -> "idle"
                                 [] pc[t] \in {"notify", "unlock"} -> "done"
                                 [] OTHER -> "called"]
Fifo == INSTANCE BoundedFifo WITH queue <- contents

\* Linearizability: each call takes effect at one instant between its call and
\* its return and returns what the bounded FIFO would; in particular a timed
\* call that gives up does so at an instant at which the queue really is full
\* (empty), and pop hands out the oldest element.
ImplementsFifo == Fifo!Spec
=============================================================================
