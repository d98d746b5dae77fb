---------------------------- MODULE QueueDoubles ----------------------------
(***************************************************************************)
(* BoundedQueue.h used by one thread with the mutex and condition variable *)
(* of bounded_queue_single_threaded_lock_suite.cpp, which count their      *)
(* calls, and with elements that count theirs.  Each function is one step: *)
(* its effect on the ring, and what it does to mutexes, conditions and     *)
(* elements on the way.                                                    *)
(***************************************************************************)
EXTENDS QueueRing, Integers, FiniteSets

CONSTANTS Queues,       \* the names of objects
          Values,       \* the elements, as they arrive in the queue
          Capacities,   \* the arguments given to the constructor
          FalseTries,   \* nOfFalseTries: how often a mutex refuses a try_lock
          CopyOf(_), MoveOf(_),
          Rotates       \* whether std::lock next waits for the mutex it failed to get

VARIABLES object,       \* the members of each queue that exists, or Nil
          doubles,      \* of each: nOfFalseTries and DO_CHECK of its type, remaining_tries
          tally,        \* the static counters of the doubles and the elements
          docheck,      \* whether the condition variable's destructor checks
          outcome       \* what the last function returned

vars == <<object, doubles, tally, docheck, outcome>>

\* returned is no counter of the code: the elements that pop handed out.
Zero == [lock |-> 0, unlock |-> 0, try_lock |-> 0, wait |-> 0, notify |-> 0,
         copied |-> 0, moved |-> 0, assigned |-> 0, destroyed |-> 0, returned |-> 0,
         allocatedArrays |-> 0, deallocatedArrays |-> 0]

Done            == <<"done", Nil>>
InvalidArgument == <<"invalid_argument", Nil>>
Bool(t)         == <<"bool", t>>

alive == {q \in Queues : object[q] # Nil}

\* The counters with those of the record costs added.
Adding(costs) ==
  [k \in DOMAIN tally |-> tally[k] + (IF k \in DOMAIN costs THEN costs[k] ELSE 0)]

Costs(costs) == tally' = Adding(costs)

Init == /\ object  = [q \in Queues |-> Nil]
        /\ doubles = [q \in Queues |-> Nil]
        /\ tally   = Zero
        /\ docheck = FALSE
        /\ outcome = Done

Become(q, o) == object' = [object EXCEPT ![q] = o]

\* The doubles of a type whose mutexes refuse their first k tries.
New(k, check) == [nOfFalseTries |-> k, DO_CHECK |-> check, remaining_tries |-> k]

\* Those of a new object with the type of q.
Alike(q) == New(doubles[q].nOfFalseTries, doubles[q].DO_CHECK)

\* Only objects of one type can be swapped, copied or moved.
SameType(q, p) == {q, p} \subseteq alive /\ Alike(q) = Alike(p)

reset_counters == /\ tally' = Zero
                  /\ docheck' = TRUE
                  /\ UNCHANGED <<object, doubles, outcome>>

-----------------------------------------------------------------------------
(* One queue.  The constructor of a condition variable stores its template *)
(* parameter DO_CHECK in docheck.                                          *)

Construct(q, n, tries, check) ==
  /\ q \notin alive
  /\ IF n = 0
       THEN outcome' = InvalidArgument /\ UNCHANGED <<object, doubles, tally, docheck>>
       ELSE /\ Become(q, Allocated(n))
            /\ doubles' = [doubles EXCEPT ![q] = New(tries, check)]
            /\ docheck' = check
            /\ outcome' = Done
            /\ UNCHANGED tally

\* Mutant: the destructor leaves the elements alone.
DestroyStorageOnly(q) ==
  /\ q \in alive
  /\ Become(q, Nil)
  /\ doubles' = [doubles EXCEPT ![q] = Nil]
  /\ outcome' = Done
  /\ UNCHANGED <<tally, docheck>>

Destroy(q) ==
  /\ q \in alive
  /\ Become(q, Nil)
  /\ doubles' = [doubles EXCEPT ![q] = Nil]
  /\ Costs([destroyed |-> object[q].m_size])
  /\ outcome' = Done
  /\ UNCHANGED docheck

Locked == [lock |-> 1, unlock |-> 1]

Measure(q) ==
  /\ q \in alive
  /\ Costs(Locked)
  /\ outcome' = <<"state", <<do_empty(object[q]), do_full(object[q]), object[q].m_size>>>>
  /\ UNCHANGED <<object, doubles, docheck>>

\* The predicate is false: push and pop block for ever (there is nobody to
\* notify), the others refuse.  A timed wait unlocks and locks the mutex once.
Refuse(q, op) ==
  /\ op \notin {"push", "pop"}
  /\ Costs(IF op \in {"try_push_for", "try_pop_for"}
             THEN [lock |-> 2, unlock |-> 2, wait |-> 1] ELSE Locked)
  /\ outcome' = Bool(FALSE)
  /\ UNCHANGED <<object, doubles, docheck>>

\* Mutant: nobody is notified.
ServeUnnotified(op) == [lock |-> 1, unlock |-> 1, notify |-> 0,
                        wait |-> IF op \in {"try_push", "try_pop"} THEN 0 ELSE 1]

\* The wait, if there is one, returns at once; the other side is notified.
Serve(op) == [lock |-> 1, unlock |-> 1, notify |-> 1,
              wait |-> IF op \in {"try_push", "try_pop"} THEN 0 ELSE 1]

\* The element arrives by copy or by move.
Push(q, v, op, by) ==
  /\ q \in alive
  /\ IF do_full(object[q])
       THEN Refuse(q, op)
       ELSE /\ Become(q, do_push(object[q], v))
            /\ tally' = [Adding(Serve(op)) EXCEPT ![by] = @ + 1]
            /\ outcome' = IF op = "push" THEN Done ELSE Bool(TRUE)
            /\ UNCHANGED <<doubles, docheck>>

\* do_pop moves the element out and destroys it in the slot.
Pop(q) ==
  /\ q \in alive /\ ~do_empty(object[q])
  /\ Become(q, do_pop(object[q]))
  /\ tally' = [Adding(Serve("pop")) EXCEPT !.moved = @ + 1, !.destroyed = @ + 1,
                                           !.returned = @ + 1]
  /\ outcome' = <<"element", MoveOf(element(object[q], 0))>>
  /\ UNCHANGED <<doubles, docheck>>

\* try_pop and try_pop_for then assign it to the target and destroy it.
PopTo(q, op) ==
  /\ q \in alive
  /\ IF do_empty(object[q])
       THEN Refuse(q, op)
       ELSE /\ Become(q, do_pop(object[q]))
            /\ tally' = [Adding(Serve(op)) EXCEPT !.moved = @ + 1, !.assigned = @ + 1,
                                                  !.destroyed = @ + 2]
            /\ outcome' = Bool(TRUE)
            /\ UNCHANGED <<doubles, docheck>>

-----------------------------------------------------------------------------
(* Two queues. *)

\* How many tries of std::lock(ours, theirs) fail.  It locks one mutex and
\* tries the other; the standard leaves open with which it begins again.
Failures(ours, theirs) ==
  IF ~Rotates THEN theirs
  ELSE IF theirs <= ours THEN 2 * theirs ELSE 2 * ours + 1

\* What each of the two has refused by then.
RefusedBy(ours, theirs) == LET k == Failures(ours, theirs)
                           IN  IF Rotates THEN <<k \div 2, (k + 1) \div 2>> ELSE <<0, k>>

\* A round of std::lock locks one mutex and tries the other; if the try fails it
\* unlocks the first and begins the next.
FailedRound == [lock |-> 1, try_lock |-> 1, unlock |-> 1]
LastRound   == [lock |-> 1, try_lock |-> 1]

\* The destructors of the unique_locks ours and theirs.
Guards == [unlock |-> 2]

\* std::lock with k failed tries, and the end of swap.
SwapCosts(k) == [lock     |-> k * FailedRound.lock + LastRound.lock,
                 try_lock |-> k * FailedRound.try_lock + LastRound.try_lock,
                 unlock   |-> k * FailedRound.unlock + Guards.unlock]

\* The swap of queues with the given remaining_tries.
CostsOfSwap(ours, theirs) == SwapCosts(Failures(ours, theirs))

Remaining(q) == doubles[q].remaining_tries

After(d, refused) == [d EXCEPT !.remaining_tries = @ - refused]

Swap(q, p) ==
  LET refused == RefusedBy(Remaining(q), Remaining(p)) IN
  /\ SameType(q, p) /\ q # p
  /\ object' = [object EXCEPT ![q] = object[p], ![p] = object[q]]
  /\ doubles' = [doubles EXCEPT ![q] = After(@, refused[1]), ![p] = After(@, refused[2])]
  /\ Costs(CostsOfSwap(Remaining(q), Remaining(p)))
  /\ outcome' = Done
  /\ UNCHANGED docheck

\* Self assignment.
Keep(q) == q \in alive /\ outcome' = Done /\ UNCHANGED <<object, doubles, tally, docheck>>

MoveAssign(q, p) == Swap(q, p) \/ (q = p /\ Keep(q))

\* The members default-initialized, and a swap with a mutex of its own.
MoveConstruct(q, p) ==
  LET own     == Alike(p)
      refused == RefusedBy(own.remaining_tries, Remaining(p)) IN
  /\ q \notin alive /\ p \in alive
  /\ object' = [object EXCEPT ![q] = object[p], ![p] = Allocated(0)]
  /\ doubles' = [doubles EXCEPT ![q] = After(own, refused[1]), ![p] = After(@, refused[2])]
  /\ Costs(CostsOfSwap(own.remaining_tries, Remaining(p)))
  /\ docheck' = own.DO_CHECK
  /\ outcome' = Done

\* The copy of p, element by element in ring order, in storage of its own.
CopyFrom(p) == LET o == object[p] IN
  [Allocated(o.m_maximumSize) EXCEPT
     !.m_size = o.m_size,
     !.m_data = [i \in DOMAIN @ |-> IF i < o.m_size THEN CopyOf(element(o, i)) ELSE Nil]]

\* The delegating constructor throws before it locks, or constructs a member.
CopyRefused(p) == /\ object[p].m_maximumSize = 0
                  /\ outcome' = InvalidArgument
                  /\ UNCHANGED <<object, doubles, tally, docheck>>

CopyConstruct(q, p) ==
  /\ q \notin alive /\ p \in alive
  /\ \/ CopyRefused(p)
     \/ /\ object[p].m_maximumSize # 0
        /\ Become(q, CopyFrom(p))
        /\ doubles' = [doubles EXCEPT ![q] = Alike(p)]
        /\ Costs([lock |-> 1, unlock |-> 1, copied |-> object[p].m_size])
        /\ docheck' = doubles[p].DO_CHECK
        /\ outcome' = Done

\* The temporary copy, the swap with it, and its destruction with what the
\* target held.  The temporary's condition variables are constructed as well.
CopyAssign(q, p) ==
  LET temporary == Alike(q)
      refused   == RefusedBy(Remaining(q), temporary.remaining_tries)
      swap      == CostsOfSwap(Remaining(q), temporary.remaining_tries) IN
  \/ q = p /\ Keep(q)
  \/ q # p /\ SameType(q, p) /\ CopyRefused(p)
  \/ /\ q # p /\ SameType(q, p) /\ object[p].m_maximumSize # 0
     /\ Become(q, CopyFrom(p))
     /\ doubles' = [doubles EXCEPT ![q] = After(@, refused[1])]
     /\ Costs([lock |-> swap.lock + 1, try_lock |-> swap.try_lock, unlock |-> swap.unlock + 1,
               copied |-> object[p].m_size, destroyed |-> object[q].m_size])
     /\ docheck' = temporary.DO_CHECK
     /\ outcome' = Done

Next == \E q \in Queues :
  \/ \E n \in Capacities, k \in FalseTries, check \in BOOLEAN : Construct(q, n, k, check)
  \/ \E v \in Values, op \in {"push", "try_push", "try_push_for"}, by \in {"copied", "moved"} :
       Push(q, v, op, by)
  \/ Pop(q) \/ PopTo(q, "try_pop") \/ PopTo(q, "try_pop_for")
  \/ Measure(q) \/ Destroy(q)
  \/ \E p \in Queues : \/ Swap(q, p) \/ MoveAssign(q, p) \/ CopyAssign(q, p)
                       \/ CopyConstruct(q, p) \/ MoveConstruct(q, p)

Spec == Init /\ [][Next]_vars

-----------------------------------------------------------------------------
(* Properties. *)

\* The slots of q that hold an element.
Constructed(q) == {i \in DOMAIN object[q].m_data : object[q].m_data[i] # Nil}

\* The elements in the slots of all queues.
Living == Cardinality(UNION {{q} \X Constructed(q) : q \in alive})

\* Whatever is copied, moved, swapped and destroyed, every element that was ever
\* constructed has been destroyed once, was handed out, or lives in a slot.
ElementsAccounted == tally.copied + tally.moved = tally.destroyed + tally.returned + Living
=============================================================================
