------------------------ MODULE BoundedQueueObjects ------------------------
(***************************************************************************)
(* exercises/week10/include/BoundedQueue.h: several queue objects shared   *)
(* by threads, with the functions that involve two of them: swap, copy,    *)
(* move, assignment, destruction.  What happens under one object's mutex   *)
(* in push, pop and their kin is one step here (BoundedQueue.tla has its   *)
(* parts); what two objects make hard is taken apart: std::lock, the read  *)
(* of the capacity before the lock in the copy constructor, the exchange   *)
(* member by member, and the temporary of the copy assignment.             *)
(*                                                                         *)
(* Clients keep an object alive while another thread uses it, and nobody   *)
(* else uses one that is being constructed or destroyed.  The elements'    *)
(* constructors and assignments may throw, in any of these functions.      *)
(***************************************************************************)
EXTENDS QueueRing, FiniteSets

CONSTANTS Threads,
          Queues,       \* the names of objects
          Values,       \* the elements
          Start,        \* Start[q]: q's capacity at first, or 0 for no object
          Menu,         \* Menu[t]: the calls t may make
          Throws,       \* the operations of the elements that may throw
          Unmade        \* "no element, though the slot is counted"

PushOps    == {"push", "try_push", "try_push_for"}
PopOps     == {"pop", "try_pop", "try_pop_for"}
TimedOps   == {"try_push_for", "try_pop_for"}
WaitOps    == {"push", "pop"} \cup TimedOps
SingleOps  == PushOps \cup PopOps \cup {"size"}     \* on one object
CopyOps    == {"copy_construct", "copy_assign"}
SwapOps    == {"swap", "move_assign", "move_construct"}
AssignOps  == {"copy_assign", "move_assign"}
OwningOps  == {"copy_construct", "move_construct", "destroy"}
ConstructOps == OwningOps \ {"destroy"}

CallRecord == [op : PushOps, q : Queues, other : {Nil}, elem : Values]
   \cup [op : PopOps \cup {"size", "destroy"}, q : Queues, other : {Nil}, elem : {Nil}]
   \cup [op : CopyOps \cup SwapOps, q : Queues, other : Queues, elem : {Nil}]

ASSUME StartAssumption  == Start \in [Queues -> Nat]
ASSUME MenuAssumption   == Menu \in [Threads -> SUBSET CallRecord]
ASSUME ThrowsAssumption == Throws \subseteq {"construct", "assign"}

\* A queue never has a capacity other than those of the first ones, or 0.
Capacities == {0} \cup {Start[q] : q \in Queues}

\* What a counted slot holds.  One whose constructor threw is raw storage like a
\* Nil one, but may be found among the elements; what is read from it is Unmade.
Counted == Values \cup {Unmade}

\* The members of an object.
Object == [m_maximumSize : Capacities, m_first : Nat, m_size : Nat,
           m_data : UNION {[0 .. n - 1 -> Counted \cup {Nil}] : n \in Capacities}]

ASSUME NilAssumption == Nil \notin Threads \cup Queues \cup Counted \cup Object

VARIABLES queue,                        \* the members of each object, or Nil
          m_mutex,                      \* the owner of each, or Nil
          m_hasSpace, m_hasElements,    \* the threads blocked on each
          pc, call, ret, expired,       \* as in BoundedQueue
          temporary,                    \* an object only its thread knows
          unnotified,                   \* history: objects changed without notice
          misused                       \* history: who destroyed unused storage

conds    == <<m_hasSpace, m_hasElements>>
histories == <<unnotified, misused>>
vars     == <<queue, m_mutex, m_hasSpace, m_hasElements, pc, call, ret, expired,
              temporary, unnotified, misused>>

NoCall    == [op |-> "none", q |-> Nil, other |-> Nil, elem |-> Nil]
NoRet     == <<"none", Nil>>
Refused   == <<"bool", FALSE>>
Threw     == <<"invalid_argument", Nil>>
Exception == <<"threw", Nil>>
Void      == <<"void", Nil>>

alive       == {q \in Queues : queue[q] # Nil}
Involved(c) == {c.q, c.other} \ {Nil}

Goto(t, place) == pc' = [pc EXCEPT ![t] = place]
Finish(t, r)   == /\ Goto(t, "return")
                  /\ ret' = [ret EXCEPT ![t] = r]

\* The destructor runs on the members o.  It takes an Unmade slot for an element.
Destroyed(what, o) == misused' = misused \cup (IF MeetsRawStorage(o) THEN {what} ELSE {})

Init == /\ queue   = [q \in Queues |-> IF Start[q] = 0 THEN Nil ELSE Allocated(Start[q])]
        /\ m_mutex = [q \in Queues |-> Nil]
        /\ m_hasSpace    = [q \in Queues |-> {}]
        /\ m_hasElements = [q \in Queues |-> {}]
        /\ pc   = [t \in Threads |-> "idle"]
        /\ call = [t \in Threads |-> NoCall]
        /\ ret  = [t \in Threads |-> NoRet]
        /\ expired   = {}
        /\ temporary = [t \in Threads |-> Nil]
        /\ unnotified = {}
        /\ misused   = {}

\* What the clients owe the queues.
Legal(t, c) ==
  /\ IF c.op \in ConstructOps THEN c.q \notin alive ELSE c.q \in alive
  /\ c.other \in alive \cup {Nil}
  /\ \A u \in Threads \ {t} :
       /\ c.op \in OwningOps => c.q \notin Involved(call[u])
       /\ call[u].op \in OwningOps => call[u].q \notin Involved(c)

\* t enters a function.
Call(t, c) ==
  /\ pc[t] = "idle"
  /\ c \in Menu[t] /\ Legal(t, c)
  /\ call' = [call EXCEPT ![t] = c]
  /\ Goto(t, CASE c.op \in SingleOps -> "lock"
               [] c.op \in CopyOps   -> "read"
               [] c.op \in SwapOps   -> "claim"
               [] OTHER              -> "destroy")
  /\ temporary' = [temporary EXCEPT ![t] =
                     IF c.op = "move_construct" THEN Allocated(0) ELSE Nil]
  /\ UNCHANGED <<queue, m_mutex, conds, ret, expired, histories>>

-----------------------------------------------------------------------------
(* The functions on one object.  Each action below is what happens from the *)
(* lock to the unlock, or to the wait that unlocks.                         *)

\* t can have its queue's mutex, to begin with or to return from a wait.
Locks(t) == pc[t] \in {"lock", "relock"} /\ m_mutex[call[t].q] = Nil

Ready(t) == IF call[t].op \in PushOps THEN ~do_full(queue[call[t].q])
                                      ELSE ~do_empty(queue[call[t].q])

\* Mutant: the other side is not notified.
NotifyNobody(t, cond) == /\ Goto(t, "return")
                         /\ UNCHANGED conds

\* notify_one on q's condition cond, which then unlocks and returns.
NotifyOne(t, cond) ==
  IF cond[call[t].q] = {}
    THEN /\ Goto(t, "return")
         /\ UNCHANGED conds
    ELSE \E w \in cond[call[t].q] :
           /\ pc' = [pc EXCEPT ![t] = "return", ![w] = "relock"]
           /\ m_hasSpace'    = [m_hasSpace EXCEPT ![call[t].q] = @ \ {w}]
           /\ m_hasElements' = [m_hasElements EXCEPT ![call[t].q] = @ \ {w}]

Push(t) == LET q == call[t].q IN
  /\ Locks(t) /\ call[t].op \in PushOps /\ Ready(t)
  /\ queue' = [queue EXCEPT ![q] = do_push(@, call[t].elem)]
  /\ ret' = [ret EXCEPT ![t] = IF call[t].op = "push" THEN Void ELSE <<"bool", TRUE>>]
  /\ NotifyOne(t, m_hasElements)
  /\ UNCHANGED <<m_mutex, call, expired, temporary, histories>>

Pop(t) == LET q == call[t].q IN
  /\ Locks(t) /\ call[t].op \in PopOps /\ Ready(t)
  /\ queue' = [queue EXCEPT ![q] = do_pop(@)]
  /\ ret' = [ret EXCEPT ![t] = <<"element", element(queue[q], 0)>>]
  /\ NotifyOne(t, m_hasSpace)
  /\ UNCHANGED <<m_mutex, call, expired, temporary, histories>>

\* The call of t ends with an exception: the mutex is released, nobody notified.
Fail(t) == /\ Finish(t, Exception)
           /\ unnotified' = unnotified \cup {call[t].q}
           /\ UNCHANGED <<m_mutex, conds, call, expired, temporary, misused>>

\* The constructor in do_push throws: push_index() has counted the element.
PushFails(t) == LET q == call[t].q IN
  /\ "construct" \in Throws
  /\ Locks(t) /\ call[t].op \in PushOps /\ Ready(t)
  /\ queue' = [queue EXCEPT ![q] = do_push(@, Unmade)]
  /\ Fail(t)

\* The move out of the slot throws, and the element stays; or do_pop is done and
\* the assignment to the target throws.
PopFails(t) == LET q == call[t].q IN
  /\ Locks(t) /\ call[t].op \in PopOps /\ Ready(t)
  /\ \/ "construct" \in Throws /\ UNCHANGED queue
     \/ /\ "assign" \in Throws /\ call[t].op # "pop"
        /\ queue' = [queue EXCEPT ![q] = do_pop(@)]
  /\ Fail(t)

Size(t) ==
  /\ Locks(t) /\ call[t].op = "size"
  /\ Finish(t, <<"count", queue[call[t].q].m_size>>)
  /\ UNCHANGED <<queue, m_mutex, conds, call, expired, temporary, histories>>

Refuse(t) ==
  /\ Locks(t) /\ call[t].op \in PushOps \cup PopOps /\ ~Ready(t)
  /\ call[t].op \in WaitOps => t \in expired
  /\ Finish(t, Refused)
  /\ UNCHANGED <<queue, m_mutex, conds, call, expired, temporary, histories>>

Block(t) == LET q == call[t].q IN
  /\ Locks(t) /\ call[t].op \in WaitOps /\ ~Ready(t) /\ t \notin expired
  /\ IF call[t].op \in PushOps
       THEN /\ m_hasSpace' = [m_hasSpace EXCEPT ![q] = @ \cup {t}]
            /\ UNCHANGED m_hasElements
       ELSE /\ m_hasElements' = [m_hasElements EXCEPT ![q] = @ \cup {t}]
            /\ UNCHANGED m_hasSpace
  /\ Goto(t, "waiting")
  /\ UNCHANGED <<queue, m_mutex, call, ret, expired, temporary, histories>>

\* t leaves the wait set: for no reason, or because its deadline passes.
Leave(t) ==
  /\ m_hasSpace'    = [m_hasSpace EXCEPT ![call[t].q] = @ \ {t}]
  /\ m_hasElements' = [m_hasElements EXCEPT ![call[t].q] = @ \ {t}]
  /\ Goto(t, "relock")
  /\ UNCHANGED <<queue, m_mutex, call, ret, temporary, histories>>

WakeSpuriously(t) == pc[t] = "waiting" /\ Leave(t) /\ UNCHANGED expired

Expire(t) == /\ pc[t] \in {"waiting", "relock"}
             /\ call[t].op \in TimedOps /\ t \notin expired
             /\ expired' = expired \cup {t}
             /\ Leave(t)

-----------------------------------------------------------------------------
(* The copy constructor, for a new object or for the temporary of the copy *)
(* assignment.                                                              *)

\* this != &other is false.
SelfAssignment(t) == call[t].op \in AssignOps /\ call[t].q = call[t].other

\* The delegating constructor reads other.m_maximumSize, without other.m_mutex,
\* and allocates; it throws for a capacity of zero.
ReadCapacity(t) == LET n == queue[call[t].other].m_maximumSize IN
  /\ pc[t] = "read"
  /\ ~SelfAssignment(t)
  /\ IF n = 0
       THEN /\ Finish(t, Threw)
            /\ UNCHANGED temporary
       ELSE /\ temporary' = [temporary EXCEPT ![t] = Allocated(n)]
            /\ Goto(t, "copy")
            /\ UNCHANGED ret
  /\ UNCHANGED <<queue, m_mutex, conds, call, expired, histories>>

\* The loop: do_push of the original's first n elements, one after the other,
\* into the copy.
Copied(t, n) ==
  LET original == queue[call[t].other]
      made[k \in 0 .. n] == IF k = 0 THEN temporary[t]
                            ELSE do_push(made[k - 1], element(original, k - 1))
  IN  made[n]

\* What becomes of the finished copy.
Deliver(t, copy) ==
  IF call[t].op = "copy_construct"
    THEN /\ queue' = [queue EXCEPT ![call[t].q] = copy]
         /\ temporary' = [temporary EXCEPT ![t] = Nil]
         /\ Finish(t, Void)
    ELSE /\ temporary' = [temporary EXCEPT ![t] = copy]
         /\ Goto(t, "claim")
         /\ UNCHANGED <<queue, ret>>

\* Mutant: the elements are copied without the original's mutex.
CopyUnlocked(t) ==
  /\ pc[t] = "copy"
  /\ Deliver(t, Copied(t, queue[call[t].other].m_size))
  /\ UNCHANGED <<m_mutex, conds, call, expired, histories>>

\* The body of the copy constructor, under the original's mutex.
CopyElements(t) ==
  /\ pc[t] = "copy"
  /\ m_mutex[call[t].other] = Nil
  /\ Deliver(t, Copied(t, queue[call[t].other].m_size))
  /\ UNCHANGED <<m_mutex, conds, call, expired, histories>>

\* The copy of the k-th element throws: push_index() has counted it.  The
\* delegating constructor had completed, so the destructor runs.
CopyThrows(t, k) ==
  /\ "construct" \in Throws
  /\ pc[t] = "copy"
  /\ m_mutex[call[t].other] = Nil
  /\ k \in 1 .. queue[call[t].other].m_size
  /\ Destroyed("unfinished copy", do_push(Copied(t, k - 1), Unmade))
  /\ temporary' = [temporary EXCEPT ![t] = Nil]
  /\ Finish(t, Exception)
  /\ UNCHANGED <<queue, m_mutex, conds, call, expired, unnotified>>

-----------------------------------------------------------------------------
(* swap, which the assignments and the move constructor use.  A temporary   *)
(* or a new object has a mutex nobody else competes for.                    *)

\* The objects of the exchange that other threads can reach.
Shared(t) == CASE call[t].op = "copy_assign"    -> {call[t].q}
               [] call[t].op = "move_construct" -> {call[t].other}
               [] OTHER                         -> {call[t].q, call[t].other}

\* Two locks of one mutex: swap does not test for it; the assignments do.
SelfSwap(t) == call[t].op \in {"swap", "move_assign"} /\ call[t].q = call[t].other

\* The assignments do nothing then.
KeepSelf(t) ==
  /\ pc[t] \in {"read", "claim"}
  /\ SelfAssignment(t)
  /\ Finish(t, Void)
  /\ UNCHANGED <<queue, m_mutex, conds, call, expired, temporary, histories>>

\* std::lock: lock one of the mutexes, whichever it takes first.
LockFirst(t) ==
  /\ pc[t] = "claim" /\ ~SelfAssignment(t)
  /\ \E q \in Shared(t) : m_mutex[q] = Nil /\ m_mutex' = [m_mutex EXCEPT ![q] = t]
  /\ Goto(t, "contend")
  /\ UNCHANGED <<queue, conds, call, ret, expired, temporary, histories>>

\* try_lock on the second succeeds.
LockSecond(t) ==
  /\ pc[t] = "contend"
  /\ ~SelfSwap(t)
  /\ \A q \in Shared(t) : m_mutex[q] \in {Nil, t}
  /\ m_mutex' = [q \in Queues |-> IF q \in Shared(t) THEN t ELSE m_mutex[q]]
  /\ Goto(t, "swap")
  /\ UNCHANGED <<queue, conds, call, ret, expired, temporary, histories>>

Unlocked(t) == [q \in Queues |-> IF m_mutex[q] = t THEN Nil ELSE m_mutex[q]]

\* Mutant: the first mutex is kept while the second is tried again.
BackOffHolding(t) ==
  /\ pc[t] = "contend"
  /\ \E q \in Shared(t) : m_mutex[q] \notin {Nil, t}
  /\ UNCHANGED vars

\* try_lock on the second fails: release the first and begin again.  Trying the
\* same mutex a second time fails as well.
BackOff(t) ==
  /\ pc[t] = "contend"
  /\ SelfSwap(t) \/ \E q \in Shared(t) : m_mutex[q] \notin {Nil, t}
  /\ m_mutex' = Unlocked(t)
  /\ Goto(t, "claim")
  /\ UNCHANGED <<queue, conds, call, ret, expired, temporary, histories>>

\* The two objects: *this and other of the swap.
Ours(t)   == IF call[t].op = "move_construct" THEN temporary[t] ELSE queue[call[t].q]
Theirs(t) == IF call[t].op = "copy_assign" THEN temporary[t] ELSE queue[call[t].other]

Become(t, ours, theirs) ==
  CASE call[t].op = "copy_assign" ->
         /\ queue' = [queue EXCEPT ![call[t].q] = ours]
         /\ temporary' = [temporary EXCEPT ![t] = theirs]
    [] call[t].op = "move_construct" ->
         /\ queue' = [queue EXCEPT ![call[t].other] = theirs]
         /\ temporary' = [temporary EXCEPT ![t] = ours]
    [] OTHER ->
         /\ queue' = [queue EXCEPT ![call[t].q] = ours, ![call[t].other] = theirs]
         /\ UNCHANGED temporary

\* Mutant: the capacities stay where they are.
WithFirst(o, p) == [o EXCEPT !.m_first = p.m_first]

\* o with the capacity and the first index of p; o with the size and data of p.
WithIndices(o, p) == [o EXCEPT !.m_maximumSize = p.m_maximumSize, !.m_first = p.m_first]
WithStorage(o, p) == [o EXCEPT !.m_size = p.m_size, !.m_data = p.m_data]

\* The first two std::swap.
SwapIndices(t) ==
  /\ pc[t] = "swap"
  /\ Become(t, WithIndices(Ours(t), Theirs(t)), WithIndices(Theirs(t), Ours(t)))
  /\ Goto(t, "half")
  /\ UNCHANGED <<m_mutex, conds, call, ret, expired, histories>>

\* Mutant: m_data is exchanged, m_size is not.
SwapDataOnly(t) ==
  /\ pc[t] = "half"
  /\ Become(t, [Ours(t) EXCEPT !.m_data = Theirs(t).m_data],
               [Theirs(t) EXCEPT !.m_data = Ours(t).m_data])
  /\ m_mutex' = Unlocked(t)
  /\ unnotified' = unnotified \cup Shared(t)
  /\ Goto(t, "leave")
  /\ ret' = [ret EXCEPT ![t] = Void]
  /\ UNCHANGED <<conds, call, expired, misused>>

\* The other two; then both mutexes are released, and no condition is notified.
SwapStorage(t) ==
  /\ pc[t] = "half"
  /\ Become(t, WithStorage(Ours(t), Theirs(t)), WithStorage(Theirs(t), Ours(t)))
  /\ m_mutex' = Unlocked(t)
  /\ unnotified' = unnotified \cup Shared(t)
  /\ Goto(t, "leave")
  /\ ret' = [ret EXCEPT ![t] = Void]
  /\ UNCHANGED <<conds, call, expired, misused>>

\* After the swap: the new object is constructed; the temporary, which holds
\* what the target of an assignment had, is destroyed.
Leaving(t) ==
  /\ pc[t] = "leave"
  /\ IF call[t].op = "move_construct"
       THEN queue' = [queue EXCEPT ![call[t].q] = temporary[t]]
       ELSE UNCHANGED queue
  /\ IF call[t].op = "copy_assign" THEN Destroyed("temporary", temporary[t])
                                   ELSE UNCHANGED misused
  /\ temporary' = [temporary EXCEPT ![t] = Nil]
  /\ Goto(t, "return")
  /\ UNCHANGED <<m_mutex, conds, call, ret, expired, unnotified>>

\* The destructor takes no lock.
Destroy(t) == LET q == call[t].q IN
  /\ pc[t] = "destroy"
  /\ Destroyed("queue", queue[q])
  /\ queue' = [queue EXCEPT ![q] = Nil]
  /\ unnotified' = unnotified \ {q}
  /\ Finish(t, Void)
  /\ UNCHANGED <<m_mutex, conds, call, expired, temporary>>

Return(t) ==
  /\ pc[t] = "return"
  /\ Goto(t, "idle")
  /\ call' = [call EXCEPT ![t] = NoCall]
  /\ ret'  = [ret EXCEPT ![t] = NoRet]
  /\ expired' = expired \ {t}
  /\ UNCHANGED <<queue, m_mutex, conds, temporary, histories>>

\* What a thread does on its own inside a call.
Progress(t) ==
  \/ Push(t) \/ Pop(t) \/ Size(t) \/ Refuse(t) \/ Block(t) \/ Expire(t)
  \/ ReadCapacity(t) \/ CopyElements(t)
  \/ KeepSelf(t) \/ LockFirst(t) \/ LockSecond(t) \/ BackOff(t)
  \/ SwapIndices(t) \/ SwapStorage(t) \/ Leaving(t) \/ Destroy(t) \/ Return(t)

Next == \E t \in Threads :
          \/ \E c \in Menu[t] : Call(t, c)
          \/ Progress(t)
          \/ WakeSpuriously(t)
          \/ PushFails(t) \/ PopFails(t)
          \/ \E q \in alive : \E k \in 1 .. queue[q].m_size : CopyThrows(t, k)

Spec == Init /\ [][Next]_vars

-----------------------------------------------------------------------------
(* Properties. *)

\* The type invariant.
TypeOK ==
  /\ \A q \in alive : /\ queue[q].m_first \in Nat
                      /\ queue[q].m_size \in Nat
                      /\ \/ queue[q].m_data \in [0 .. queue[q].m_maximumSize - 1
                                                 -> Counted \cup {Nil}]
                         \/ m_mutex[q] # Nil
  /\ m_mutex \in [Queues -> Threads \cup {Nil}]
  /\ \A q \in Queues : m_hasSpace[q] \cup m_hasElements[q] \subseteq Threads
  /\ \A t \in Threads : call[t] \in CallRecord \cup {NoCall}
  /\ expired \subseteq Threads
  /\ misused \subseteq {"queue", "temporary", "unfinished copy"}

\* A queue whose mutex is free has capacity, indices, size and storage that
\* belong together, whatever threw: an exchange or a copy never shows half of
\* itself, a copy has room for what it holds, and a counted slot is without an
\* element only where the element of a push, or of the copied queue's push, could
\* not be made.
RingsIntact == \A q \in alive : m_mutex[q] = Nil => WellFormed(queue[q])

\* No destructor runs on storage that was never used: not that of a queue, of the
\* temporary of an assignment or of a copy that failed halfway.  A slot whose
\* constructor threw is all it may meet that is no element.
NoRawDestroyed == misused = {}

OnTheWay(q, ops) == {t \in Threads : /\ pc[t] \in {"lock", "relock"}
                                     /\ call[t].op \in ops /\ call[t].q = q}

ElementsServed(q) == m_hasElements[q] # {} =>
                       queue[q].m_size <= Cardinality(OnTheWay(q, PopOps))
SpaceServed(q) == m_hasSpace[q] # {} =>
  queue[q].m_maximumSize - queue[q].m_size <= Cardinality(OnTheWay(q, PushOps))

\* Threads are stranded only where a function skips the notification: unless a
\* queue took part in a swap or a move, or a push or pop of it threw, each of its
\* elements (free slots) has a thread on its way to it as long as another one is
\* blocked.
StrandedOnlyUnnotified == \A q \in alive \ unnotified :
  m_mutex[q] = Nil => ElementsServed(q) /\ SpaceServed(q)

\* The abstract queues.  Between its two halves an exchange has not happened.
Halfway(q) == {t \in Threads : pc[t] = "half" /\ q \in Shared(t)}
Members(q) == IF Halfway(q) = {} THEN queue[q]
              ELSE LET t == CHOOSE u \in Halfway(q) : TRUE
                   IN  WithIndices(queue[q], IF call[t].op # "move_construct" /\ q = call[t].q
                                               THEN Theirs(t) ELSE Ours(t))
Value(o) == [capacity |-> o.m_maximumSize, content |-> Contents(o)]

\* The thread that has exchanged a new object's members but not yet returned it.
Newborn(q) == {t \in Threads : pc[t] = "leave" /\ call[t].op = "move_construct" /\ call[t].q = q}

value == [q \in Queues |->
            IF Newborn(q) # {} THEN Value(temporary[CHOOSE t \in Newborn(q) : TRUE])
            ELSE IF q \in alive THEN Value(Members(q)) ELSE Nil]

Assigning(t) == call[t].op = "copy_assign" /\ pc[t] \in {"claim", "contend", "swap", "half"}
                  /\ call[t].q # call[t].other
phase == [t \in Threads |-> CASE pc[t] = "idle"               -> "idle"
                              [] pc[t] \in {"leave", "return"} -> "done"
                              [] Assigning(t)                  -> "copied"
                              [] OTHER                         -> "called"]
copy == [t \in Threads |->
           IF Assigning(t) THEN Value(IF pc[t] = "half" THEN WithIndices(temporary[t], Ours(t))
                                                         ELSE temporary[t])
                           ELSE Nil]
Abstract == INSTANCE SharedQueues

\* The objects behave like queues that are copied and exchanged as a whole:
\* whatever other threads do meanwhile, a copy is what the original was at one
\* instant or fails and changes nothing, an exchange is atomic, and every call on
\* one queue is a FIFO's, or throws and has the effect of such a failure.
ImplementsShared == Abstract!Spec
=============================================================================
