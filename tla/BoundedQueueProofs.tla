------------------------- MODULE BoundedQueueProofs -------------------------
(***************************************************************************)
(* Theorems about BoundedQueue for any finite set of threads, any set of   *)
(* values and any positive capacity: types and mutual exclusion, the       *)
(* notifications, the ring.                                                *)
(***************************************************************************)
EXTENDS BoundedQueue, FiniteSetTheorems, SequenceTheorems, TLAPS

-----------------------------------------------------------------------------
(* The inductive invariant. *)

\* A thread is in a wait set exactly while it is blocked, and the call it is in
\* fits the place it is at.
PlaceInv == \A t \in Threads :
  /\ t \in m_hasSpace <=> pc[t] = "waiting" /\ call[t].op \in PushOps
  /\ t \in m_hasElements <=> pc[t] = "waiting" /\ call[t].op \in PopOps
  /\ pc[t] # "idle" => call[t] \in Calls
  /\ pc[t] \in {"waiting", "relock"} => call[t].op \in WaitOps
  /\ pc[t] \in {"apply", "notify"} => call[t].op \in PushOps \cup PopOps
  /\ t \in expired => pc[t] \notin {"idle", "waiting"} /\ call[t].op \in TimedOps

\* Mutual exclusion is what keeps a tested predicate true until it is used,
\* and the predicate is what keeps m_size within the capacity.
IInv == TypeOK /\ MutexOwner /\ PredicateStillHolds /\ PlaceInv

-----------------------------------------------------------------------------
(* Arithmetic of the ring. *)

\* to_buffer_index wraps around at most once.
LEMMA WrapLemma ==
  ASSUME NEW a \in Slots, NEW b \in 0 .. Capacity
  PROVE  /\ (a + b) % Capacity = IF a + b < Capacity THEN a + b ELSE a + b - Capacity
         /\ (a + b) % Capacity \in Slots
BY CapacityAssumption, SMT DEF Slots

LEMMA CallsLemma ==
  ASSUME NEW c \in Calls
  PROVE  /\ c.op \in Ops
         /\ c.op \in PushOps => c.elem \in Values
BY DEF Calls, Ops, PushOps, PopOps, Observers

\* do_push and do_pop keep the ring well-formed where the predicate holds.
LEMMA do_pushType ==
  ASSUME TypeOK, ~do_full, NEW element \in Values, do_push(element)
  PROVE  /\ m_first' \in Slots
         /\ m_size' \in 0 .. Capacity
         /\ m_data' \in [Slots -> Values \cup {Nil}]
<1>1. m_size' \in 0 .. Capacity
  BY CapacityAssumption DEF TypeOK, do_full, do_push
<1>2. m_first' \in Slots /\ m_data' \in [Slots -> Values \cup {Nil}]
  BY DEF TypeOK, do_push
<1> QED
  BY <1>1, <1>2

LEMMA do_popType ==
  ASSUME TypeOK, ~do_empty, do_pop
  PROVE  /\ m_first' \in Slots
         /\ m_size' \in 0 .. Capacity
         /\ m_data' \in [Slots -> Values \cup {Nil}]
<1>1. m_first' \in Slots
  BY CapacityAssumption, WrapLemma, 1 \in 0 .. Capacity DEF TypeOK, do_pop
<1> QED
  BY <1>1, CapacityAssumption DEF TypeOK, do_empty, do_pop

LEMMA SuccessType ==
  ASSUME TypeOK, NEW t \in Threads, call[t] \in Calls
  PROVE  Success(t) \in Results
<1>1. m_data[m_first] \in Values \cup {Nil}
  BY DEF TypeOK
<1>2. CASE call[t].op = "push"
  BY <1>2 DEF Success, Results, PopOps
<1>3. CASE call[t].op # "push" /\ call[t].op \in PopOps
  BY <1>1, <1>3 DEF Success, Results
<1>4. CASE call[t].op # "push" /\ call[t].op \notin PopOps
  BY <1>4 DEF Success, Results
<1> QED
  BY <1>2, <1>3, <1>4

-----------------------------------------------------------------------------
LEMMA InitIInv == Init => IInv
BY CapacityAssumption, NilAssumption
   DEF Init, IInv, TypeOK, MutexOwner, PredicateStillHolds, PlaceInv, Slots, Results,
       Critical, Places, NoCall, TimedOps

LEMMA StepIInv == IInv /\ [Next]_vars => IInv'
<1> SUFFICES ASSUME IInv, [Next]_vars
             PROVE  IInv'
  OBVIOUS
<1> USE NilAssumption DEF IInv
<1>1. ASSUME NEW t \in Threads, NEW c \in Calls, Call(t, c)
      PROVE  IInv'
  <2> USE <1>1 DEF Call, Goto, ring, conds
  <2>1. TypeOK'
    BY DEF TypeOK, Places, Critical
  <2>2. MutexOwner'
    BY DEF TypeOK, MutexOwner, Critical
  <2>3. PredicateStillHolds'
    BY DEF TypeOK, MutexOwner, Critical, PredicateStillHolds, Ready, do_full, do_empty
  <2>4. PlaceInv'
    BY CallsLemma DEF TypeOK, PlaceInv, PushOps, PopOps, WaitOps, TimedOps, Observers, Ops
  <2> QED
    BY <2>1, <2>2, <2>3, <2>4
<1>2. ASSUME NEW t \in Threads, Lock(t)
      PROVE  IInv'
  <2> USE <1>2 DEF Lock, Goto, ring, conds
  <2>1. TypeOK'
    BY DEF TypeOK, Places, Critical
  <2>2. MutexOwner'
    BY DEF TypeOK, MutexOwner, Critical
  <2>3. PredicateStillHolds'
    BY DEF TypeOK, MutexOwner, Critical, PredicateStillHolds, Ready, do_full, do_empty
  <2>4. PlaceInv'
    BY CallsLemma DEF TypeOK, PlaceInv, PushOps, PopOps, WaitOps, TimedOps, Observers, Ops
  <2> QED
    BY <2>1, <2>2, <2>3, <2>4
<1>3. ASSUME NEW t \in Threads, Observe(t)
      PROVE  IInv'
  <2> USE <1>3 DEF Observe, Goto, ring, conds, Return
  <2>1. TypeOK'
    BY DEF TypeOK, Places, Critical, Observation, Results, do_empty, do_full
  <2>2. MutexOwner'
    BY DEF TypeOK, MutexOwner, Critical
  <2>3. PredicateStillHolds'
    BY DEF TypeOK, MutexOwner, Critical, PredicateStillHolds, Ready, do_full, do_empty
  <2>4. PlaceInv'
    BY CallsLemma DEF TypeOK, PlaceInv, PushOps, PopOps, WaitOps, TimedOps, Observers, Ops
  <2> QED
    BY <2>1, <2>2, <2>3, <2>4
<1>4. ASSUME NEW t \in Threads, Admit(t)
      PROVE  IInv'
  <2> USE <1>4 DEF Admit, Goto, ring, conds
  <2>1. TypeOK'
    BY DEF TypeOK, Places, Critical
  <2>2. MutexOwner'
    BY DEF TypeOK, MutexOwner, Critical
  <2>3. PredicateStillHolds'
    BY DEF TypeOK, MutexOwner, Critical, PredicateStillHolds, Ready, do_full, do_empty
  <2>4. PlaceInv'
    BY CallsLemma DEF TypeOK, PlaceInv, PushOps, PopOps, WaitOps, TimedOps, Observers, Ops
  <2> QED
    BY <2>1, <2>2, <2>3, <2>4
<1>5. ASSUME NEW t \in Threads, Refuse(t)
      PROVE  IInv'
  <2> USE <1>5 DEF Refuse, Goto, ring, conds, Return
  <2>1. TypeOK'
    BY DEF TypeOK, Places, Critical, Results, Refused
  <2>2. MutexOwner'
    BY DEF TypeOK, MutexOwner, Critical
  <2>3. PredicateStillHolds'
    BY DEF TypeOK, MutexOwner, Critical, PredicateStillHolds, Ready, do_full, do_empty
  <2>4. PlaceInv'
    BY CallsLemma DEF TypeOK, PlaceInv, PushOps, PopOps, WaitOps, TimedOps, Observers, Ops
  <2> QED
    BY <2>1, <2>2, <2>3, <2>4
<1>6. ASSUME NEW t \in Threads, Block(t)
      PROVE  IInv'
  <2> USE <1>6 DEF Block, Goto, ring, conds
  <2>1. TypeOK'
    BY DEF TypeOK, Places, Critical
  <2>2. MutexOwner'
    BY DEF TypeOK, MutexOwner, Critical
  <2>3. PredicateStillHolds'
    BY DEF TypeOK, MutexOwner, Critical, PredicateStillHolds, Ready, do_full, do_empty
  <2>4. PlaceInv'
    BY CallsLemma DEF TypeOK, PlaceInv, PushOps, PopOps, WaitOps, TimedOps, Observers, Ops
  <2> QED
    BY <2>1, <2>2, <2>3, <2>4
<1>7. ASSUME NEW t \in Threads, Expire(t)
      PROVE  IInv'
  <2> USE <1>7 DEF Expire, Goto, ring, conds
  <2>1. TypeOK'
    BY DEF TypeOK, Places, Critical
  <2>2. MutexOwner'
    BY DEF TypeOK, MutexOwner, Critical
  <2>3. PredicateStillHolds'
    BY DEF TypeOK, MutexOwner, Critical, PredicateStillHolds, Ready, do_full, do_empty
  <2>4. PlaceInv'
    BY CallsLemma DEF TypeOK, PlaceInv, PushOps, PopOps, WaitOps, TimedOps, Observers, Ops
  <2> QED
    BY <2>1, <2>2, <2>3, <2>4
<1>8. ASSUME NEW t \in Threads, Push(t)
      PROVE  IInv'
  <2> USE <1>8 DEF Push, Goto, ring, conds, Return
  <2>1. TypeOK'
    <3>1. ~do_full /\ call[t] \in Calls /\ call[t].elem \in Values
      BY CallsLemma DEF PredicateStillHolds, PlaceInv, Ready
    <3> QED
      BY <3>1, do_pushType, SuccessType DEF TypeOK, Places, Critical
  <2>2. MutexOwner'
    BY DEF TypeOK, MutexOwner, Critical
  <2>3. PredicateStillHolds'
    BY DEF TypeOK, MutexOwner, Critical, PredicateStillHolds, Ready, do_full, do_empty, do_push
  <2>4. PlaceInv'
    BY CallsLemma DEF TypeOK, PlaceInv, PushOps, PopOps, WaitOps, TimedOps, Observers, Ops
  <2> QED
    BY <2>1, <2>2, <2>3, <2>4
<1>9. ASSUME NEW t \in Threads, Pop(t)
      PROVE  IInv'
  <2> USE <1>9 DEF Pop, Goto, ring, conds, Return
  <2>1. TypeOK'
    <3>1. ~do_empty /\ call[t] \in Calls
      BY DEF PredicateStillHolds, PlaceInv, Ready, PushOps, PopOps
    <3> QED
      BY <3>1, do_popType, SuccessType DEF TypeOK, Places, Critical
  <2>2. MutexOwner'
    BY DEF TypeOK, MutexOwner, Critical
  <2>3. PredicateStillHolds'
    BY DEF TypeOK, MutexOwner, Critical, PredicateStillHolds, Ready, do_full, do_empty, do_pop
  <2>4. PlaceInv'
    BY CallsLemma DEF TypeOK, PlaceInv, PushOps, PopOps, WaitOps, TimedOps, Observers, Ops
  <2> QED
    BY <2>1, <2>2, <2>3, <2>4
<1>10. ASSUME NEW t \in Threads, PushThrows(t)
      PROVE  IInv'
  <2> USE <1>10 DEF PushThrows, Goto, ring, conds, Unwind, Return
  <2>1. TypeOK'
    BY CapacityAssumption
       DEF TypeOK, Places, Critical, Results, PredicateStillHolds, Ready, do_full
  <2>2. MutexOwner'
    BY DEF TypeOK, MutexOwner, Critical
  <2>3. PredicateStillHolds'
    BY DEF TypeOK, MutexOwner, Critical, PredicateStillHolds, Ready, do_full, do_empty
  <2>4. PlaceInv'
    BY CallsLemma DEF TypeOK, PlaceInv, PushOps, PopOps, WaitOps, TimedOps, Observers, Ops
  <2> QED
    BY <2>1, <2>2, <2>3, <2>4
<1>11. ASSUME NEW t \in Threads, PopThrows(t)
      PROVE  IInv'
  <2> USE <1>11 DEF PopThrows, Goto, ring, conds, Unwind, Return
  <2>1. TypeOK'
    BY DEF TypeOK, Places, Critical, Results
  <2>2. MutexOwner'
    BY DEF TypeOK, MutexOwner, Critical
  <2>3. PredicateStillHolds'
    BY DEF TypeOK, MutexOwner, Critical, PredicateStillHolds, Ready, do_full, do_empty
  <2>4. PlaceInv'
    BY CallsLemma DEF TypeOK, PlaceInv, PushOps, PopOps, WaitOps, TimedOps, Observers, Ops
  <2> QED
    BY <2>1, <2>2, <2>3, <2>4
<1>12. ASSUME NEW t \in Threads, AssignThrows(t)
      PROVE  IInv'
  <2> USE <1>12 DEF AssignThrows, Goto, ring, conds, Unwind, Return
  <2>1. TypeOK'
    <3>1. ~do_empty
      BY DEF PredicateStillHolds, Ready, PushOps, PopOps
    <3> QED
      BY <3>1, do_popType DEF TypeOK, Places, Critical, Results
  <2>2. MutexOwner'
    BY DEF TypeOK, MutexOwner, Critical
  <2>3. PredicateStillHolds'
    BY DEF TypeOK, MutexOwner, Critical, PredicateStillHolds, Ready, do_full, do_empty, do_pop
  <2>4. PlaceInv'
    BY CallsLemma DEF TypeOK, PlaceInv, PushOps, PopOps, WaitOps, TimedOps, Observers, Ops
  <2> QED
    BY <2>1, <2>2, <2>3, <2>4
<1>13. ASSUME NEW t \in Threads, Notify(t)
      PROVE  IInv'
  <2> USE <1>13 DEF Notify, Goto, ring, conds
  <2>1. TypeOK'
    BY DEF TypeOK, Places, Critical
  <2>2. MutexOwner'
    BY DEF TypeOK, MutexOwner, Critical
  <2>3. PredicateStillHolds'
    BY DEF TypeOK, MutexOwner, Critical, PredicateStillHolds, Ready, do_full, do_empty
  <2>4. PlaceInv'
    BY CallsLemma DEF TypeOK, PlaceInv, PushOps, PopOps, WaitOps, TimedOps, Observers, Ops
  <2> QED
    BY <2>1, <2>2, <2>3, <2>4
<1>14. ASSUME NEW t \in Threads, Unlock(t)
      PROVE  IInv'
  <2> USE <1>14 DEF Unlock, Goto, ring, conds
  <2>1. TypeOK'
    BY DEF TypeOK, Places, Critical, Results
  <2>2. MutexOwner'
    BY DEF TypeOK, MutexOwner, Critical
  <2>3. PredicateStillHolds'
    BY DEF TypeOK, MutexOwner, Critical, PredicateStillHolds, Ready, do_full, do_empty
  <2>4. PlaceInv'
    BY CallsLemma DEF TypeOK, PlaceInv, PushOps, PopOps, WaitOps, TimedOps, Observers, Ops
  <2> QED
    BY <2>1, <2>2, <2>3, <2>4
<1>15. ASSUME NEW t \in Threads, WakeSpuriously(t)
      PROVE  IInv'
  <2> USE <1>15 DEF WakeSpuriously, Goto, ring, conds
  <2>1. TypeOK'
    BY DEF TypeOK, Places, Critical
  <2>2. MutexOwner'
    BY DEF TypeOK, MutexOwner, Critical
  <2>3. PredicateStillHolds'
    BY DEF TypeOK, MutexOwner, Critical, PredicateStillHolds, Ready, do_full, do_empty
  <2>4. PlaceInv'
    BY CallsLemma DEF TypeOK, PlaceInv, PushOps, PopOps, WaitOps, TimedOps, Observers, Ops
  <2> QED
    BY <2>1, <2>2, <2>3, <2>4
<1>16. CASE UNCHANGED vars
  BY <1>16 DEF vars, TypeOK, MutexOwner, PredicateStillHolds, PlaceInv, Ready, do_full, do_empty
<1> QED
  BY <1>1, <1>2, <1>3, <1>4, <1>5, <1>6, <1>7, <1>8, <1>9, <1>10, <1>11, <1>12, <1>13, <1>14, <1>15, <1>16 DEF Next, Progress, Throw

LEMMA Invariance == Spec => []IInv
BY InitIInv, StepIInv, PTL DEF Spec

\* The ring indices stay in range and every call returns a result of its type,
\* whichever element operations throw.
THEOREM TypeCorrect == Spec => []TypeOK
BY Invariance, PTL DEF IInv

\* The mutex of the queue excludes, across waits, timeouts and exceptions.
THEOREM MutualExclusion == Spec => []MutexOwner
BY Invariance, PTL DEF IInv

\* No call overfills the queue or pops from an empty one.
THEOREM TestedIsTrue == Spec => []PredicateStillHolds
BY Invariance, PTL DEF IInv
-----------------------------------------------------------------------------
(***************************************************************************)
(* No notification is lost where no element operation throws. Each other   *)
(* step either leaves the helpers of a side in place, or removes one       *)
(* together with the element (slot) it was there for, or adds one together *)
(* with a new element (slot).  A step that throws may miss one of the two, *)
(* so that one element (slot) more, k + 1 where there were k, is nobody's. *)
(***************************************************************************)

(* Cardinalities of sets of threads. *)

LEMMA CardinalityKept ==
  ASSUME NEW S, NEW T, S \subseteq T, T \subseteq Threads
  PROVE  /\ Cardinality(S) \in Nat
         /\ Cardinality(T) \in Nat
         /\ Cardinality(S) <= Cardinality(T)
<1>1. IsFiniteSet(T)
  BY ThreadsAssumption, FS_Subset
<1> QED
  BY <1>1, FS_Subset, FS_CardinalityType

LEMMA CardinalityLessOne ==
  ASSUME NEW S, NEW T, NEW t, S \subseteq Threads, T \subseteq Threads, S \ {t} \subseteq T
  PROVE  /\ Cardinality(S) \in Nat
         /\ Cardinality(T) \in Nat
         /\ Cardinality(S) <= Cardinality(T) + 1
<1>1. IsFiniteSet(S) /\ IsFiniteSet(T)
  BY ThreadsAssumption, FS_Subset
<1>2. Cardinality(S \ {t}) <= Cardinality(T) /\ Cardinality(S \ {t}) \in Nat
  BY CardinalityKept
<1>3. Cardinality(S) \in Nat /\ Cardinality(T) \in Nat
  BY <1>1, FS_CardinalityType
<1>4. Cardinality(S) = Cardinality(S \ {t}) \/ Cardinality(S) - 1 = Cardinality(S \ {t})
  BY <1>1, FS_RemoveElement
<1> QED
  BY <1>2, <1>3, <1>4

LEMMA CardinalityOneMore ==
  ASSUME NEW S, NEW T, NEW t, t \notin S, S \cup {t} \subseteq T, T \subseteq Threads
  PROVE  /\ Cardinality(S) \in Nat
         /\ Cardinality(T) \in Nat
         /\ Cardinality(S) + 1 <= Cardinality(T)
<1>1. IsFiniteSet(S)
  BY ThreadsAssumption, FS_Subset
<1>2. Cardinality(S \cup {t}) <= Cardinality(T) /\ Cardinality(T) \in Nat
  BY CardinalityKept
<1>3. Cardinality(S) \in Nat /\ Cardinality(S \cup {t}) = Cardinality(S) + 1
  BY <1>1, FS_AddElement, FS_CardinalityType
<1> QED
  BY <1>2, <1>3

-----------------------------------------------------------------------------
(* The elements and the threads blocked on m_hasElements. *)

LEMMA ElementsKept ==
  ASSUME TypeOK, TypeOK', NEW k \in Nat, ElementsServedBut(k), m_size' = m_size,
         m_hasElements' # {} => m_hasElements # {},
         OnTheWay(PopOps) \subseteq OnTheWay(PopOps)',
         Announcing(PushOps) \subseteq Announcing(PushOps)'
  PROVE  ElementsServedBut(k)'
<1>1. OnTheWay(PopOps)' \subseteq Threads /\ Announcing(PushOps)' \subseteq Threads
  BY DEF OnTheWay, Announcing
<1>2. /\ Cardinality(OnTheWay(PopOps)) <= Cardinality(OnTheWay(PopOps)')
      /\ Cardinality(OnTheWay(PopOps)) \in Nat /\ Cardinality(OnTheWay(PopOps)') \in Nat
  BY <1>1, CardinalityKept
<1>3. /\ Cardinality(Announcing(PushOps)) <= Cardinality(Announcing(PushOps)')
      /\ Cardinality(Announcing(PushOps)) \in Nat /\ Cardinality(Announcing(PushOps)') \in Nat
  BY <1>1, CardinalityKept
<1>4. m_size \in Nat
  BY CapacityAssumption DEF TypeOK
<1> QED
  BY <1>2, <1>3, <1>4, CapacityAssumption DEF ElementsServedBut

LEMMA ElementsStep ==
  ASSUME NEW k \in Nat, IInv, IInv', ElementsServedBut(k), [Next]_vars, \A t \in Threads : ~Throw(t)
  PROVE  ElementsServedBut(k)'
<1> USE DEF OnTheWay, Announcing
<1>0. /\ TypeOK /\ TypeOK' /\ PlaceInv /\ PlaceInv'
      /\ OnTheWay(PopOps)' \subseteq Threads /\ Announcing(PushOps)' \subseteq Threads
      /\ OnTheWay(PopOps) \subseteq Threads /\ Announcing(PushOps) \subseteq Threads
      /\ m_size \in Nat /\ m_size' \in Nat /\ m_size <= Capacity /\ m_size' <= Capacity
      /\ Capacity \in Nat
  BY CapacityAssumption DEF IInv, TypeOK
<1>1. ASSUME NEW t \in Threads, NEW c \in Calls, Call(t, c)
      PROVE  ElementsServedBut(k)'
  <2>1. /\ m_size' = m_size /\ (m_hasElements' # {} => m_hasElements # {})
        /\ OnTheWay(PopOps) \subseteq OnTheWay(PopOps)'
        /\ Announcing(PushOps) \subseteq Announcing(PushOps)'
    BY <1>0, <1>1 DEF Call, TypeOK, PlaceInv, Goto, Return, ring, conds, PushOps, PopOps, Observers
  <2> QED
    BY <1>0, <2>1, ElementsKept
<1>2. ASSUME NEW t \in Threads, Lock(t)
      PROVE  ElementsServedBut(k)'
  <2>1. /\ m_size' = m_size /\ (m_hasElements' # {} => m_hasElements # {})
        /\ OnTheWay(PopOps) \subseteq OnTheWay(PopOps)'
        /\ Announcing(PushOps) \subseteq Announcing(PushOps)'
    BY <1>0, <1>2 DEF Lock, TypeOK, PlaceInv, Goto, Return, ring, conds, PushOps, PopOps, Observers
  <2> QED
    BY <1>0, <2>1, ElementsKept
<1>3. ASSUME NEW t \in Threads, Observe(t)
      PROVE  ElementsServedBut(k)'
  <2>1. /\ m_size' = m_size /\ (m_hasElements' # {} => m_hasElements # {})
        /\ OnTheWay(PopOps) \subseteq OnTheWay(PopOps)'
        /\ Announcing(PushOps) \subseteq Announcing(PushOps)'
    BY <1>0, <1>3 DEF Observe, TypeOK, PlaceInv, Goto, Return, ring, conds, PushOps, PopOps, Observers
  <2> QED
    BY <1>0, <2>1, ElementsKept
<1>4. ASSUME NEW t \in Threads, Admit(t)
      PROVE  ElementsServedBut(k)'
  <2>1. /\ m_size' = m_size /\ (m_hasElements' # {} => m_hasElements # {})
        /\ OnTheWay(PopOps) \subseteq OnTheWay(PopOps)'
        /\ Announcing(PushOps) \subseteq Announcing(PushOps)'
    BY <1>0, <1>4 DEF Admit, TypeOK, PlaceInv, Goto, Return, ring, conds, PushOps, PopOps, Observers
  <2> QED
    BY <1>0, <2>1, ElementsKept
<1>5. ASSUME NEW t \in Threads, Refuse(t)
      PROVE  ElementsServedBut(k)'
  <2>1. CASE call[t].op \in PopOps
    <3>1. m_size' = 0
      BY <2>1, <1>5 DEF Refuse, Ready, do_full, do_empty, ring, PushOps, PopOps, Observers
    <3>2. Cardinality(OnTheWay(PopOps)') \in Nat /\ Cardinality(Announcing(PushOps)') \in Nat
      BY <1>0, CardinalityKept
    <3> QED
      BY <1>0, <3>1, <3>2 DEF ElementsServedBut
  <2>2. CASE call[t].op \notin PopOps
    <3>1. /\ m_size' = m_size /\ (m_hasElements' # {} => m_hasElements # {})
          /\ OnTheWay(PopOps) \subseteq OnTheWay(PopOps)'
          /\ Announcing(PushOps) \subseteq Announcing(PushOps)'
      BY <1>0, <2>2, <1>5 DEF Refuse, TypeOK, PlaceInv, Goto, Return, ring, conds, WaitOps, TimedOps, PushOps, PopOps, Observers
    <3> QED
      BY <1>0, <3>1, ElementsKept
  <2> QED
    BY <2>1, <2>2
<1>6. ASSUME NEW t \in Threads, Block(t)
      PROVE  ElementsServedBut(k)'
  <2>1. CASE call[t].op \in PopOps
    <3>1. m_size' = 0
      BY <2>1, <1>6 DEF Block, Ready, do_full, do_empty, ring, PushOps, PopOps, Observers
    <3>2. Cardinality(OnTheWay(PopOps)') \in Nat /\ Cardinality(Announcing(PushOps)') \in Nat
      BY <1>0, CardinalityKept
    <3> QED
      BY <1>0, <3>1, <3>2 DEF ElementsServedBut
  <2>2. CASE call[t].op \notin PopOps
    <3>1. /\ m_size' = m_size /\ (m_hasElements' # {} => m_hasElements # {})
          /\ OnTheWay(PopOps) \subseteq OnTheWay(PopOps)'
          /\ Announcing(PushOps) \subseteq Announcing(PushOps)'
      BY <1>0, <2>2, <1>6 DEF Block, TypeOK, PlaceInv, Goto, Return, ring, conds, WaitOps, TimedOps, PushOps, PopOps, Observers
    <3> QED
      BY <1>0, <3>1, ElementsKept
  <2> QED
    BY <2>1, <2>2
<1>7. ASSUME NEW t \in Threads, Expire(t)
      PROVE  ElementsServedBut(k)'
  <2>1. /\ m_size' = m_size /\ (m_hasElements' # {} => m_hasElements # {})
        /\ OnTheWay(PopOps) \subseteq OnTheWay(PopOps)'
        /\ Announcing(PushOps) \subseteq Announcing(PushOps)'
    BY <1>0, <1>7 DEF Expire, TypeOK, PlaceInv, Goto, Return, ring, conds, PushOps, PopOps, Observers
  <2> QED
    BY <1>0, <2>1, ElementsKept
<1>8. ASSUME NEW t \in Threads, WakeSpuriously(t)
      PROVE  ElementsServedBut(k)'
  <2>1. /\ m_size' = m_size /\ (m_hasElements' # {} => m_hasElements # {})
        /\ OnTheWay(PopOps) \subseteq OnTheWay(PopOps)'
        /\ Announcing(PushOps) \subseteq Announcing(PushOps)'
    BY <1>0, <1>8 DEF WakeSpuriously, TypeOK, PlaceInv, Goto, Return, ring, conds, PushOps, PopOps, Observers
  <2> QED
    BY <1>0, <2>1, ElementsKept
<1>9. ASSUME NEW t \in Threads, Push(t)
      PROVE  ElementsServedBut(k)'
  <2>1. m_size' = m_size + 1 /\ m_hasElements' = m_hasElements
    BY <1>9 DEF Push, do_push, conds
  <2>2. OnTheWay(PopOps) \subseteq OnTheWay(PopOps)'
    BY <1>0, <1>9 DEF Push, TypeOK, PlaceInv, Goto, Return, ring, conds, PushOps, PopOps, Observers
  <2>3. t \notin Announcing(PushOps) /\ Announcing(PushOps) \cup {t} \subseteq Announcing(PushOps)'
    BY <1>0, <1>9 DEF Push, TypeOK, PlaceInv, Goto, Return, ring, conds
  <2>4. /\ Cardinality(OnTheWay(PopOps)) <= Cardinality(OnTheWay(PopOps)')
        /\ Cardinality(OnTheWay(PopOps)) \in Nat /\ Cardinality(OnTheWay(PopOps)') \in Nat
    BY <1>0, <2>2, CardinalityKept
  <2>5. /\ Cardinality(Announcing(PushOps)) + 1 <= Cardinality(Announcing(PushOps)')
        /\ Cardinality(Announcing(PushOps)) \in Nat /\ Cardinality(Announcing(PushOps)') \in Nat
    BY <1>0, <2>3, CardinalityOneMore
  <2> QED
    BY <1>0, <2>1, <2>4, <2>5 DEF ElementsServedBut
<1>10. ASSUME NEW t \in Threads, Pop(t)
      PROVE  ElementsServedBut(k)'
  <2>1. m_size' = m_size - 1 /\ m_hasElements' = m_hasElements
    BY <1>10 DEF Pop, do_pop, conds
  <2>2. OnTheWay(PopOps) \ {t} \subseteq OnTheWay(PopOps)'
    BY <1>0, <1>10 DEF Pop, TypeOK, PlaceInv, Goto, Return, ring, conds
  <2>3. Announcing(PushOps) \subseteq Announcing(PushOps)'
    BY <1>0, <1>10 DEF Pop, TypeOK, PlaceInv, Goto, Return, ring, conds
  <2>4. /\ Cardinality(OnTheWay(PopOps)) <= Cardinality(OnTheWay(PopOps)') + 1
        /\ Cardinality(OnTheWay(PopOps)) \in Nat /\ Cardinality(OnTheWay(PopOps)') \in Nat
    BY <1>0, <2>2, CardinalityLessOne
  <2>5. /\ Cardinality(Announcing(PushOps)) <= Cardinality(Announcing(PushOps)')
        /\ Cardinality(Announcing(PushOps)) \in Nat /\ Cardinality(Announcing(PushOps)') \in Nat
    BY <1>0, <2>3, CardinalityKept
  <2> QED
    BY <1>0, <2>1, <2>4, <2>5 DEF ElementsServedBut
<1>11. ASSUME NEW t \in Threads, Notify(t)
      PROVE  ElementsServedBut(k)'
  <2>1. CASE call[t].op \in PushOps /\ m_hasElements = {}
    BY <2>1, <1>11 DEF Notify, conds, ElementsServedBut
  <2>2. CASE call[t].op \in PushOps /\ m_hasElements # {}
    <3>1. PICK w \in m_hasElements :
            /\ m_hasSpace' = m_hasSpace \ {w}
            /\ m_hasElements' = m_hasElements \ {w}
            /\ pc' = [pc EXCEPT ![t] = "unlock", ![w] = "relock"]
      BY <2>2, <1>11 DEF Notify
    <3>2. /\ w \in Threads /\ w # t /\ pc[w] = "waiting" /\ call[w].op \in PopOps
          /\ pc[t] = "notify" /\ m_size' = m_size /\ call' = call
      BY <1>0, <1>11 DEF Notify, TypeOK, PlaceInv, ring
    <3>3. w \notin OnTheWay(PopOps) /\ OnTheWay(PopOps) \cup {w} \subseteq OnTheWay(PopOps)'
      BY <1>0, <3>1, <3>2 DEF TypeOK
    <3>4. Announcing(PushOps) \ {t} \subseteq Announcing(PushOps)'
      BY <1>0, <3>1, <3>2 DEF TypeOK
    <3>5. /\ Cardinality(OnTheWay(PopOps)) + 1 <= Cardinality(OnTheWay(PopOps)')
          /\ Cardinality(OnTheWay(PopOps)) \in Nat /\ Cardinality(OnTheWay(PopOps)') \in Nat
      BY <1>0, <3>3, CardinalityOneMore
    <3>6. /\ Cardinality(Announcing(PushOps)) <= Cardinality(Announcing(PushOps)') + 1
          /\ Cardinality(Announcing(PushOps)) \in Nat /\ Cardinality(Announcing(PushOps)') \in Nat
      BY <1>0, <3>4, CardinalityLessOne
    <3> QED
      BY <1>0, <2>2, <3>2, <3>5, <3>6 DEF ElementsServedBut
  <2>3. CASE call[t].op \notin PushOps
    <3>1. /\ m_size' = m_size /\ (m_hasElements' # {} => m_hasElements # {})
          /\ OnTheWay(PopOps) \subseteq OnTheWay(PopOps)'
          /\ Announcing(PushOps) \subseteq Announcing(PushOps)'
      BY <1>0, <2>3, <1>11 DEF Notify, TypeOK, PlaceInv, Goto, Return, ring, conds, PushOps, PopOps, Observers
    <3> QED
      BY <1>0, <3>1, ElementsKept
  <2> QED
    BY <2>1, <2>2, <2>3
<1>12. ASSUME NEW t \in Threads, Unlock(t)
      PROVE  ElementsServedBut(k)'
  <2>1. /\ m_size' = m_size /\ (m_hasElements' # {} => m_hasElements # {})
        /\ OnTheWay(PopOps) \subseteq OnTheWay(PopOps)'
        /\ Announcing(PushOps) \subseteq Announcing(PushOps)'
    BY <1>0, <1>12 DEF Unlock, TypeOK, PlaceInv, Goto, Return, ring, conds, PushOps, PopOps, Observers
  <2> QED
    BY <1>0, <2>1, ElementsKept
<1>13. CASE UNCHANGED vars
  <2>1. /\ m_size' = m_size /\ (m_hasElements' # {} => m_hasElements # {})
        /\ OnTheWay(PopOps) \subseteq OnTheWay(PopOps)'
        /\ Announcing(PushOps) \subseteq Announcing(PushOps)'
    BY <1>13 DEF vars
  <2> QED
    BY <1>0, <2>1, ElementsKept
<1> QED
  BY <1>1, <1>2, <1>3, <1>4, <1>5, <1>6, <1>7, <1>8, <1>9, <1>10, <1>11, <1>12, <1>13
     DEF Next, Progress

-----------------------------------------------------------------------------
(* The free slots and the threads blocked on m_hasSpace. *)

LEMMA SpaceKept ==
  ASSUME TypeOK, TypeOK', NEW k \in Nat, SpaceServedBut(k), m_size' = m_size,
         m_hasSpace' # {} => m_hasSpace # {},
         OnTheWay(PushOps) \subseteq OnTheWay(PushOps)',
         Announcing(PopOps) \subseteq Announcing(PopOps)'
  PROVE  SpaceServedBut(k)'
<1>1. OnTheWay(PushOps)' \subseteq Threads /\ Announcing(PopOps)' \subseteq Threads
  BY DEF OnTheWay, Announcing
<1>2. /\ Cardinality(OnTheWay(PushOps)) <= Cardinality(OnTheWay(PushOps)')
      /\ Cardinality(OnTheWay(PushOps)) \in Nat /\ Cardinality(OnTheWay(PushOps)') \in Nat
  BY <1>1, CardinalityKept
<1>3. /\ Cardinality(Announcing(PopOps)) <= Cardinality(Announcing(PopOps)')
      /\ Cardinality(Announcing(PopOps)) \in Nat /\ Cardinality(Announcing(PopOps)') \in Nat
  BY <1>1, CardinalityKept
<1>4. m_size \in Nat
  BY CapacityAssumption DEF TypeOK
<1> QED
  BY <1>2, <1>3, <1>4, CapacityAssumption DEF SpaceServedBut

LEMMA SpaceStep ==
  ASSUME NEW k \in Nat, IInv, IInv', SpaceServedBut(k), [Next]_vars, \A t \in Threads : ~Throw(t)
  PROVE  SpaceServedBut(k)'
<1> USE DEF OnTheWay, Announcing
<1>0. /\ TypeOK /\ TypeOK' /\ PlaceInv /\ PlaceInv'
      /\ OnTheWay(PushOps)' \subseteq Threads /\ Announcing(PopOps)' \subseteq Threads
      /\ OnTheWay(PushOps) \subseteq Threads /\ Announcing(PopOps) \subseteq Threads
      /\ m_size \in Nat /\ m_size' \in Nat /\ m_size <= Capacity /\ m_size' <= Capacity
      /\ Capacity \in Nat
  BY CapacityAssumption DEF IInv, TypeOK
<1>1. ASSUME NEW t \in Threads, NEW c \in Calls, Call(t, c)
      PROVE  SpaceServedBut(k)'
  <2>1. /\ m_size' = m_size /\ (m_hasSpace' # {} => m_hasSpace # {})
        /\ OnTheWay(PushOps) \subseteq OnTheWay(PushOps)'
        /\ Announcing(PopOps) \subseteq Announcing(PopOps)'
    BY <1>0, <1>1 DEF Call, TypeOK, PlaceInv, Goto, Return, ring, conds, PushOps, PopOps, Observers
  <2> QED
    BY <1>0, <2>1, SpaceKept
<1>2. ASSUME NEW t \in Threads, Lock(t)
      PROVE  SpaceServedBut(k)'
  <2>1. /\ m_size' = m_size /\ (m_hasSpace' # {} => m_hasSpace # {})
        /\ OnTheWay(PushOps) \subseteq OnTheWay(PushOps)'
        /\ Announcing(PopOps) \subseteq Announcing(PopOps)'
    BY <1>0, <1>2 DEF Lock, TypeOK, PlaceInv, Goto, Return, ring, conds, PushOps, PopOps, Observers
  <2> QED
    BY <1>0, <2>1, SpaceKept
<1>3. ASSUME NEW t \in Threads, Observe(t)
      PROVE  SpaceServedBut(k)'
  <2>1. /\ m_size' = m_size /\ (m_hasSpace' # {} => m_hasSpace # {})
        /\ OnTheWay(PushOps) \subseteq OnTheWay(PushOps)'
        /\ Announcing(PopOps) \subseteq Announcing(PopOps)'
    BY <1>0, <1>3 DEF Observe, TypeOK, PlaceInv, Goto, Return, ring, conds, PushOps, PopOps, Observers
  <2> QED
    BY <1>0, <2>1, SpaceKept
<1>4. ASSUME NEW t \in Threads, Admit(t)
      PROVE  SpaceServedBut(k)'
  <2>1. /\ m_size' = m_size /\ (m_hasSpace' # {} => m_hasSpace # {})
        /\ OnTheWay(PushOps) \subseteq OnTheWay(PushOps)'
        /\ Announcing(PopOps) \subseteq Announcing(PopOps)'
    BY <1>0, <1>4 DEF Admit, TypeOK, PlaceInv, Goto, Return, ring, conds, PushOps, PopOps, Observers
  <2> QED
    BY <1>0, <2>1, SpaceKept
<1>5. ASSUME NEW t \in Threads, Refuse(t)
      PROVE  SpaceServedBut(k)'
  <2>1. CASE call[t].op \in PushOps
    <3>1. m_size' = Capacity
      BY <2>1, <1>5 DEF Refuse, Ready, do_full, do_empty, ring, PushOps, PopOps, Observers
    <3>2. Cardinality(OnTheWay(PushOps)') \in Nat /\ Cardinality(Announcing(PopOps)') \in Nat
      BY <1>0, CardinalityKept
    <3> QED
      BY <1>0, <3>1, <3>2 DEF SpaceServedBut
  <2>2. CASE call[t].op \notin PushOps
    <3>1. /\ m_size' = m_size /\ (m_hasSpace' # {} => m_hasSpace # {})
          /\ OnTheWay(PushOps) \subseteq OnTheWay(PushOps)'
          /\ Announcing(PopOps) \subseteq Announcing(PopOps)'
      BY <1>0, <2>2, <1>5 DEF Refuse, TypeOK, PlaceInv, Goto, Return, ring, conds, WaitOps, TimedOps, PushOps, PopOps, Observers
    <3> QED
      BY <1>0, <3>1, SpaceKept
  <2> QED
    BY <2>1, <2>2
<1>6. ASSUME NEW t \in Threads, Block(t)
      PROVE  SpaceServedBut(k)'
  <2>1. CASE call[t].op \in PushOps
    <3>1. m_size' = Capacity
      BY <2>1, <1>6 DEF Block, Ready, do_full, do_empty, ring, PushOps, PopOps, Observers
    <3>2. Cardinality(OnTheWay(PushOps)') \in Nat /\ Cardinality(Announcing(PopOps)') \in Nat
      BY <1>0, CardinalityKept
    <3> QED
      BY <1>0, <3>1, <3>2 DEF SpaceServedBut
  <2>2. CASE call[t].op \notin PushOps
    <3>1. /\ m_size' = m_size /\ (m_hasSpace' # {} => m_hasSpace # {})
          /\ OnTheWay(PushOps) \subseteq OnTheWay(PushOps)'
          /\ Announcing(PopOps) \subseteq Announcing(PopOps)'
      BY <1>0, <2>2, <1>6 DEF Block, TypeOK, PlaceInv, Goto, Return, ring, conds, WaitOps, TimedOps, PushOps, PopOps, Observers
    <3> QED
      BY <1>0, <3>1, SpaceKept
  <2> QED
    BY <2>1, <2>2
<1>7. ASSUME NEW t \in Threads, Expire(t)
      PROVE  SpaceServedBut(k)'
  <2>1. /\ m_size' = m_size /\ (m_hasSpace' # {} => m_hasSpace # {})
        /\ OnTheWay(PushOps) \subseteq OnTheWay(PushOps)'
        /\ Announcing(PopOps) \subseteq Announcing(PopOps)'
    BY <1>0, <1>7 DEF Expire, TypeOK, PlaceInv, Goto, Return, ring, conds, PushOps, PopOps, Observers
  <2> QED
    BY <1>0, <2>1, SpaceKept
<1>8. ASSUME NEW t \in Threads, WakeSpuriously(t)
      PROVE  SpaceServedBut(k)'
  <2>1. /\ m_size' = m_size /\ (m_hasSpace' # {} => m_hasSpace # {})
        /\ OnTheWay(PushOps) \subseteq OnTheWay(PushOps)'
        /\ Announcing(PopOps) \subseteq Announcing(PopOps)'
    BY <1>0, <1>8 DEF WakeSpuriously, TypeOK, PlaceInv, Goto, Return, ring, conds, PushOps, PopOps, Observers
  <2> QED
    BY <1>0, <2>1, SpaceKept
<1>9. ASSUME NEW t \in Threads, Pop(t)
      PROVE  SpaceServedBut(k)'
  <2>1. m_size' = m_size - 1 /\ m_hasSpace' = m_hasSpace
    BY <1>9 DEF Pop, do_pop, conds
  <2>2. OnTheWay(PushOps) \subseteq OnTheWay(PushOps)'
    BY <1>0, <1>9 DEF Pop, TypeOK, PlaceInv, Goto, Return, ring, conds, PushOps, PopOps, Observers
  <2>3. t \notin Announcing(PopOps) /\ Announcing(PopOps) \cup {t} \subseteq Announcing(PopOps)'
    BY <1>0, <1>9 DEF Pop, TypeOK, PlaceInv, Goto, Return, ring, conds
  <2>4. /\ Cardinality(OnTheWay(PushOps)) <= Cardinality(OnTheWay(PushOps)')
        /\ Cardinality(OnTheWay(PushOps)) \in Nat /\ Cardinality(OnTheWay(PushOps)') \in Nat
    BY <1>0, <2>2, CardinalityKept
  <2>5. /\ Cardinality(Announcing(PopOps)) + 1 <= Cardinality(Announcing(PopOps)')
        /\ Cardinality(Announcing(PopOps)) \in Nat /\ Cardinality(Announcing(PopOps)') \in Nat
    BY <1>0, <2>3, CardinalityOneMore
  <2> QED
    BY <1>0, <2>1, <2>4, <2>5 DEF SpaceServedBut
<1>10. ASSUME NEW t \in Threads, Push(t)
      PROVE  SpaceServedBut(k)'
  <2>1. m_size' = m_size + 1 /\ m_hasSpace' = m_hasSpace
    BY <1>10 DEF Push, do_push, conds
  <2>2. OnTheWay(PushOps) \ {t} \subseteq OnTheWay(PushOps)'
    BY <1>0, <1>10 DEF Push, TypeOK, PlaceInv, Goto, Return, ring, conds
  <2>3. Announcing(PopOps) \subseteq Announcing(PopOps)'
    BY <1>0, <1>10 DEF Push, TypeOK, PlaceInv, Goto, Return, ring, conds
  <2>4. /\ Cardinality(OnTheWay(PushOps)) <= Cardinality(OnTheWay(PushOps)') + 1
        /\ Cardinality(OnTheWay(PushOps)) \in Nat /\ Cardinality(OnTheWay(PushOps)') \in Nat
    BY <1>0, <2>2, CardinalityLessOne
  <2>5. /\ Cardinality(Announcing(PopOps)) <= Cardinality(Announcing(PopOps)')
        /\ Cardinality(Announcing(PopOps)) \in Nat /\ Cardinality(Announcing(PopOps)') \in Nat
    BY <1>0, <2>3, CardinalityKept
  <2> QED
    BY <1>0, <2>1, <2>4, <2>5 DEF SpaceServedBut
<1>11. ASSUME NEW t \in Threads, Notify(t)
      PROVE  SpaceServedBut(k)'
  <2>1. CASE call[t].op \notin PushOps /\ m_hasSpace = {}
    BY <2>1, <1>11 DEF Notify, conds, SpaceServedBut
  <2>2. CASE call[t].op \notin PushOps /\ m_hasSpace # {}
    <3>1. PICK w \in m_hasSpace :
            /\ m_hasSpace' = m_hasSpace \ {w}
            /\ m_hasElements' = m_hasElements \ {w}
            /\ pc' = [pc EXCEPT ![t] = "unlock", ![w] = "relock"]
      BY <2>2, <1>11 DEF Notify
    <3>2. /\ w \in Threads /\ w # t /\ pc[w] = "waiting" /\ call[w].op \in PushOps
          /\ pc[t] = "notify" /\ m_size' = m_size /\ call' = call
      BY <1>0, <1>11 DEF Notify, TypeOK, PlaceInv, ring
    <3>3. w \notin OnTheWay(PushOps) /\ OnTheWay(PushOps) \cup {w} \subseteq OnTheWay(PushOps)'
      BY <1>0, <3>1, <3>2 DEF TypeOK
    <3>4. Announcing(PopOps) \ {t} \subseteq Announcing(PopOps)'
      BY <1>0, <3>1, <3>2 DEF TypeOK
    <3>5. /\ Cardinality(OnTheWay(PushOps)) + 1 <= Cardinality(OnTheWay(PushOps)')
          /\ Cardinality(OnTheWay(PushOps)) \in Nat /\ Cardinality(OnTheWay(PushOps)') \in Nat
      BY <1>0, <3>3, CardinalityOneMore
    <3>6. /\ Cardinality(Announcing(PopOps)) <= Cardinality(Announcing(PopOps)') + 1
          /\ Cardinality(Announcing(PopOps)) \in Nat /\ Cardinality(Announcing(PopOps)') \in Nat
      BY <1>0, <3>4, CardinalityLessOne
    <3> QED
      BY <1>0, <2>2, <3>2, <3>5, <3>6 DEF SpaceServedBut
  <2>3. CASE call[t].op \in PushOps
    <3>1. /\ m_size' = m_size /\ (m_hasSpace' # {} => m_hasSpace # {})
          /\ OnTheWay(PushOps) \subseteq OnTheWay(PushOps)'
          /\ Announcing(PopOps) \subseteq Announcing(PopOps)'
      BY <1>0, <2>3, <1>11 DEF Notify, TypeOK, PlaceInv, Goto, Return, ring, conds, PushOps, PopOps, Observers
    <3> QED
      BY <1>0, <3>1, SpaceKept
  <2> QED
    BY <2>1, <2>2, <2>3
<1>12. ASSUME NEW t \in Threads, Unlock(t)
      PROVE  SpaceServedBut(k)'
  <2>1. /\ m_size' = m_size /\ (m_hasSpace' # {} => m_hasSpace # {})
        /\ OnTheWay(PushOps) \subseteq OnTheWay(PushOps)'
        /\ Announcing(PopOps) \subseteq Announcing(PopOps)'
    BY <1>0, <1>12 DEF Unlock, TypeOK, PlaceInv, Goto, Return, ring, conds, PushOps, PopOps, Observers
  <2> QED
    BY <1>0, <2>1, SpaceKept
<1>13. CASE UNCHANGED vars
  <2>1. /\ m_size' = m_size /\ (m_hasSpace' # {} => m_hasSpace # {})
        /\ OnTheWay(PushOps) \subseteq OnTheWay(PushOps)'
        /\ Announcing(PopOps) \subseteq Announcing(PopOps)'
    BY <1>13 DEF vars
  <2> QED
    BY <1>0, <2>1, SpaceKept
<1> QED
  BY <1>1, <1>2, <1>3, <1>4, <1>5, <1>6, <1>7, <1>8, <1>9, <1>10, <1>11, <1>12, <1>13
     DEF Next, Progress

-----------------------------------------------------------------------------
(* Steps that throw. *)

\* An exception leaves at most one element, and at most one free slot, more
\* that nobody is on the way to: the one that was pushed without notification,
\* or the one the failed pop was meant for.
LEMMA ThrowStep ==
  ASSUME NEW k \in Nat, IInv, IInv', ElementsServedBut(k), SpaceServedBut(k),
         NEW t \in Threads, Throw(t)
  PROVE  ElementsServedBut(k + 1)' /\ SpaceServedBut(k + 1)'
<1> USE DEF OnTheWay, Announcing
<1>0. /\ TypeOK /\ TypeOK' /\ PlaceInv /\ PlaceInv' /\ PredicateStillHolds
      /\ OnTheWay(PopOps)' \subseteq Threads /\ Announcing(PushOps)' \subseteq Threads
      /\ OnTheWay(PopOps) \subseteq Threads /\ Announcing(PushOps) \subseteq Threads
      /\ OnTheWay(PushOps)' \subseteq Threads /\ Announcing(PopOps)' \subseteq Threads
      /\ OnTheWay(PushOps) \subseteq Threads /\ Announcing(PopOps) \subseteq Threads
      /\ m_size \in Nat /\ m_size' \in Nat /\ m_size <= Capacity /\ m_size' <= Capacity
      /\ Capacity \in Nat
  BY CapacityAssumption DEF IInv, TypeOK
<1>1. /\ pc[t] = "apply" /\ pc' = [pc EXCEPT ![t] = "unlock"] /\ call' = call
      /\ m_hasSpace' = m_hasSpace /\ m_hasElements' = m_hasElements
  BY DEF Throw, PushThrows, PopThrows, AssignThrows, Unwind, Goto, conds
<1>2. /\ OnTheWay(PopOps) \ {t} \subseteq OnTheWay(PopOps)'
      /\ OnTheWay(PushOps) \ {t} \subseteq OnTheWay(PushOps)'
      /\ Announcing(PushOps) \subseteq Announcing(PushOps)'
      /\ Announcing(PopOps) \subseteq Announcing(PopOps)'
  BY <1>0, <1>1 DEF TypeOK
<1>3. /\ Cardinality(OnTheWay(PopOps)) <= Cardinality(OnTheWay(PopOps)') + 1
      /\ Cardinality(OnTheWay(PopOps)) \in Nat /\ Cardinality(OnTheWay(PopOps)') \in Nat
  BY <1>0, <1>2, CardinalityLessOne
<1>4. /\ Cardinality(OnTheWay(PushOps)) <= Cardinality(OnTheWay(PushOps)') + 1
      /\ Cardinality(OnTheWay(PushOps)) \in Nat /\ Cardinality(OnTheWay(PushOps)') \in Nat
  BY <1>0, <1>2, CardinalityLessOne
<1>5. /\ Cardinality(Announcing(PushOps)) <= Cardinality(Announcing(PushOps)')
      /\ Cardinality(Announcing(PushOps)) \in Nat /\ Cardinality(Announcing(PushOps)') \in Nat
  BY <1>0, <1>2, CardinalityKept
<1>6. /\ Cardinality(Announcing(PopOps)) <= Cardinality(Announcing(PopOps)')
      /\ Cardinality(Announcing(PopOps)) \in Nat /\ Cardinality(Announcing(PopOps)') \in Nat
  BY <1>0, <1>2, CardinalityKept
<1>7. CASE PushThrows(t)
  <2>1. m_size' = m_size + 1 /\ call[t].op \in PushOps
    BY <1>7 DEF PushThrows
  <2>2. OnTheWay(PopOps) \subseteq OnTheWay(PopOps)'
    BY <1>0, <1>1, <2>1 DEF TypeOK, PushOps, PopOps
  <2>3. Cardinality(OnTheWay(PopOps)) <= Cardinality(OnTheWay(PopOps)')
    BY <1>0, <2>2, CardinalityKept
  <2>4. ElementsServedBut(k + 1)'
    BY <1>0, <1>1, <1>3, <1>5, <2>1, <2>3 DEF ElementsServedBut
  <2>5. SpaceServedBut(k + 1)'
    BY <1>0, <1>1, <1>4, <1>6, <2>1 DEF SpaceServedBut
  <2> QED
    BY <2>4, <2>5
<1>8. CASE PopThrows(t) \/ AssignThrows(t)
  <2>1. m_size' \in {m_size, m_size - 1} /\ call[t].op \in PopOps
    BY <1>0, <1>8 DEF PopThrows, AssignThrows, ring, do_pop
  <2>2. OnTheWay(PushOps) \subseteq OnTheWay(PushOps)'
    BY <1>0, <1>1, <2>1 DEF TypeOK, PushOps, PopOps
  <2>3. Cardinality(OnTheWay(PushOps)) <= Cardinality(OnTheWay(PushOps)')
    BY <1>0, <2>2, CardinalityKept
  <2>4. ElementsServedBut(k + 1)'
    BY <1>0, <1>1, <1>3, <1>5, <2>1 DEF ElementsServedBut
  <2>5. SpaceServedBut(k + 1)'
    BY <1>0, <1>1, <1>4, <1>6, <2>1, <2>3 DEF SpaceServedBut
  <2> QED
    BY <2>4, <2>5
<1> QED
  BY <1>7, <1>8 DEF Throw

-----------------------------------------------------------------------------
\* Where no element operation throws, no notification is lost: a thread stays
\* blocked in pop (push) only while every element (free slot) is spoken for.
THEOREM NoWakeupIsLost ==
  ASSUME Throws = {}
  PROVE  Spec => []NoLostWakeup
<1>1. Init => NoLostWakeup
  BY DEF Init, NoLostWakeup, ElementsServedBut, SpaceServedBut
<1>2. IInv /\ IInv' /\ NoLostWakeup /\ [Next]_vars => NoLostWakeup'
  <2>1. \A t \in Threads : ~Throw(t)
    BY DEF Throw, PushThrows, PopThrows, AssignThrows
  <2> QED
    BY <2>1, 0 \in Nat, ElementsStep, SpaceStep DEF NoLostWakeup
<1> QED
  BY <1>1, <1>2, Invariance, PTL DEF Spec

-----------------------------------------------------------------------------
(***************************************************************************)
(* The ring: element lifetimes, and the refinement of BoundedFifo.         *)
(***************************************************************************)

(* Element lifetimes. *)

\* How far behind m_first the slot i is, in ring order.
Offset(i) == IF i >= m_first THEN i - m_first ELSE i - m_first + Capacity

\* The window consists of the slots less than m_size behind m_first.
LEMMA WindowLemma == TypeOK => \A i \in Slots : i \in Window <=> Offset(i) < m_size
<1> SUFFICES ASSUME TypeOK, NEW i \in Slots
             PROVE  i \in Window <=> Offset(i) < m_size
  OBVIOUS
<1>1. m_first \in Slots /\ m_size \in 0 .. Capacity
  BY DEF TypeOK
<1>2. ASSUME i \in Window
      PROVE  Offset(i) < m_size
  <2>1. PICK k \in 0 .. m_size - 1 : i = (m_first + k) % Capacity
    BY <1>2 DEF Window, to_buffer_index
  <2>2. i = IF m_first + k < Capacity THEN m_first + k ELSE m_first + k - Capacity
    <3>1. k \in 0 .. Capacity
      BY <1>1, CapacityAssumption
    <3> QED
      BY <1>1, <2>1, <3>1, WrapLemma
  <2> QED
    BY <1>1, <2>2, CapacityAssumption DEF Offset, Slots
<1>3. ASSUME Offset(i) < m_size
      PROVE  i \in Window
  <2>1. Offset(i) \in 0 .. m_size - 1
    BY <1>1, <1>3, CapacityAssumption DEF Offset, Slots
  <2>2. to_buffer_index(Offset(i)) = i
    <3>1. Offset(i) \in 0 .. Capacity
      BY <1>1, <2>1, CapacityAssumption
    <3>2. to_buffer_index(Offset(i)) = IF m_first + Offset(i) < Capacity
                                         THEN m_first + Offset(i)
                                         ELSE m_first + Offset(i) - Capacity
      BY <1>1, <3>1, WrapLemma DEF to_buffer_index
    <3> QED
      BY <1>1, <3>2, CapacityAssumption DEF Offset, Slots
  <2> QED
    BY <2>1, <2>2 DEF Window
<1> QED
  BY <1>2, <1>3

LEMMA OffsetLemma ==
  ASSUME TypeOK, NEW i \in Slots
  PROVE  /\ Offset(i) \in 0 .. Capacity - 1
         /\ Offset(i) = 0 <=> i = m_first
BY CapacityAssumption DEF TypeOK, Slots, Offset

\* A push fills the slot that is m_size behind m_first.
LEMMA PutLemma ==
  ASSUME TypeOK, ~do_full, NEW element, do_push(element)
  PROVE  /\ to_buffer_index(m_size) \in Slots
         /\ \A i \in Slots :
              /\ Offset(i)' = Offset(i)
              /\ Offset(i) = m_size <=> i = to_buffer_index(m_size)
              /\ m_data'[i] = IF i = to_buffer_index(m_size) THEN element ELSE m_data[i]
         /\ m_size' = m_size + 1
<1>0. m_first \in Slots /\ m_size \in 0 .. Capacity - 1 /\ Capacity \in Nat \ {0}
  BY CapacityAssumption DEF TypeOK, do_full
<1>1. /\ to_buffer_index(m_size) = IF m_first + m_size < Capacity
                                     THEN m_first + m_size
                                     ELSE m_first + m_size - Capacity
      /\ to_buffer_index(m_size) \in Slots
  BY <1>0, WrapLemma DEF to_buffer_index
<1> SUFFICES ASSUME NEW i \in Slots
             PROVE  /\ Offset(i)' = Offset(i)
                    /\ Offset(i) = m_size <=> i = to_buffer_index(m_size)
                    /\ m_data'[i] = IF i = to_buffer_index(m_size) THEN element ELSE m_data[i]
  BY <1>1 DEF do_push
<1>2. Offset(i)' = Offset(i)
  BY DEF do_push, Offset
<1>3. Offset(i) = m_size <=> i = to_buffer_index(m_size)
  BY <1>0, <1>1 DEF Offset, Slots
<1>4. m_data'[i] = IF i = to_buffer_index(m_size) THEN element ELSE m_data[i]
  BY DEF do_push, TypeOK
<1> QED
  BY <1>2, <1>3, <1>4

\* A pop empties the slot at m_first and moves the others one closer.
LEMMA TookLemma ==
  ASSUME TypeOK, ~do_empty, do_pop
  PROVE  /\ \A i \in Slots :
              /\ Offset(i)' = IF i = m_first THEN Capacity - 1 ELSE Offset(i) - 1
              /\ m_data'[i] = IF i = m_first THEN Nil ELSE m_data[i]
         /\ m_size' = m_size - 1
<1>0. m_first \in Slots /\ m_size \in 1 .. Capacity /\ Capacity \in Nat \ {0}
  BY CapacityAssumption DEF TypeOK, do_empty
<1>1. m_first' = IF m_first + 1 < Capacity THEN m_first + 1 ELSE m_first + 1 - Capacity
  BY <1>0, WrapLemma, 1 \in 0 .. Capacity DEF do_pop
<1>2. \A i \in Slots : m_data'[i] = IF i = m_first THEN Nil ELSE m_data[i]
  BY DEF do_pop, TypeOK
<1>3. \A i \in Slots : Offset(i)' = IF i = m_first THEN Capacity - 1 ELSE Offset(i) - 1
  BY <1>0, <1>1 DEF Offset, Slots
<1> QED
  BY <1>2, <1>3 DEF do_pop

\* No element lies outside the window.  The converse fails where constructors
\* throw: push_index() then counts an element that was never made.
NoStrayElement == \A i \in Slots : m_data[i] # Nil => Offset(i) < m_size

LEMMA StrayStep ==
  ASSUME IInv, NoStrayElement, [Next]_vars
  PROVE  NoStrayElement'
<1>0. /\ TypeOK /\ m_first \in Slots /\ m_size \in 0 .. Capacity
      /\ Capacity \in Nat \ {0}
  BY CapacityAssumption DEF IInv, TypeOK
<1>1. \A i \in Slots : Offset(i) \in 0 .. Capacity - 1
  BY <1>0, OffsetLemma
<1>2. CASE UNCHANGED ring
  BY <1>2 DEF ring, NoStrayElement, Offset
<1>3. ASSUME NEW t \in Threads, Push(t)
      PROVE  NoStrayElement'
  <2>1. ~do_full /\ do_push(call[t].elem)
    BY <1>3 DEF Push, IInv, PredicateStillHolds, Ready
  <2> SUFFICES ASSUME NEW i \in Slots, m_data'[i] # Nil
               PROVE  Offset(i)' < m_size'
    BY DEF NoStrayElement
  <2>2. /\ Offset(i)' = Offset(i) /\ m_size' = m_size + 1
        /\ i = to_buffer_index(m_size) \/ m_data[i] # Nil
        /\ i = to_buffer_index(m_size) => Offset(i) = m_size
    BY <1>0, <2>1, PutLemma
  <2>3. Offset(i) <= m_size
    BY <1>0, <1>1, <2>2 DEF NoStrayElement
  <2> QED
    BY <1>0, <1>1, <2>2, <2>3
<1>4. ASSUME NEW t \in Threads, PushThrows(t)
      PROVE  NoStrayElement'
  <2> SUFFICES ASSUME NEW i \in Slots, m_data'[i] # Nil
               PROVE  Offset(i)' < m_size'
    BY DEF NoStrayElement
  <2>1. m_data[i] # Nil /\ Offset(i)' = Offset(i) /\ m_size' = m_size + 1
    BY <1>4 DEF PushThrows, Offset
  <2>2. Offset(i) < m_size
    BY <2>1 DEF NoStrayElement
  <2> QED
    BY <1>0, <1>1, <2>1, <2>2
<1>5. ASSUME NEW t \in Threads, pc[t] = "apply", call[t].op \in PopOps, do_pop
      PROVE  NoStrayElement'
  <2>1. ~do_empty
    BY <1>5 DEF IInv, PredicateStillHolds, Ready, PushOps, PopOps
  <2> SUFFICES ASSUME NEW i \in Slots, m_data'[i] # Nil
               PROVE  Offset(i)' < m_size'
    BY DEF NoStrayElement
  <2>2. /\ i # m_first /\ m_data[i] # Nil
        /\ Offset(i)' = Offset(i) - 1 /\ m_size' = m_size - 1
    BY <1>0, <1>5, <2>1, TookLemma
  <2>3. Offset(i) < m_size
    BY <2>2 DEF NoStrayElement
  <2> QED
    BY <1>0, <1>1, <2>2, <2>3
<1> QED
  BY <1>2, <1>3, <1>4, <1>5
     DEF Next, vars, Progress, Throw, Call, Lock, Observe, Admit, Refuse, Block, Expire, Pop,
         PopThrows, AssignThrows, Unwind, Notify, Unlock, WakeSpuriously, ring

LEMMA NoneStray == Spec => []NoStrayElement
<1>1. Init => NoStrayElement
  BY DEF Init, NoStrayElement
<1> QED
  BY <1>1, StrayStep, Invariance, PTL DEF Spec

LEMMA ConstructedStep ==
  ASSUME "construct" \notin Throws, IInv, IInv', ConstructedExactly, [Next]_vars
  PROVE  ConstructedExactly'
<1>0. /\ TypeOK /\ TypeOK'
      /\ m_first \in Slots /\ m_first' \in Slots
      /\ m_size \in 0 .. Capacity /\ m_size' \in 0 .. Capacity
      /\ Capacity \in Nat \ {0}
  BY CapacityAssumption DEF IInv, TypeOK
<1>1. \A i \in Slots : m_data[i] # Nil <=> Offset(i) < m_size
  BY <1>0, WindowLemma DEF ConstructedExactly
<1> SUFFICES \A i \in Slots : m_data'[i] # Nil <=> Offset(i)' < m_size'
  <2>1. TypeOK' => (\A i \in Slots : i \in Window <=> Offset(i) < m_size)'
    BY WindowLemma, PTL
  <2> QED
    BY <1>0, <2>1 DEF ConstructedExactly
<1>2. ASSUME UNCHANGED ring
      PROVE  \A i \in Slots : m_data'[i] # Nil <=> Offset(i)' < m_size'
  BY <1>1, <1>2 DEF ring, Offset
<1>3. ASSUME NEW t \in Threads, Push(t)
      PROVE  \A i \in Slots : m_data'[i] # Nil <=> Offset(i)' < m_size'
  <2>1. call[t].elem \in Values /\ ~do_full
    BY <1>3, CallsLemma DEF Push, IInv, PlaceInv, PredicateStillHolds, Ready
  <2>2. do_push(call[t].elem)
    BY <1>3 DEF Push
  <2> TAKE i \in Slots
  <2>3. /\ Offset(i)' = Offset(i) /\ m_size' = m_size + 1
        /\ Offset(i) = m_size <=> i = to_buffer_index(m_size)
        /\ m_data'[i] = IF i = to_buffer_index(m_size) THEN call[t].elem ELSE m_data[i]
    BY <1>0, <2>1, <2>2, PutLemma
  <2>4. Offset(i) \in Int
    BY <1>0 DEF Offset, Slots
  <2> QED
    BY <1>0, <1>1, <2>1, <2>3, <2>4, NilAssumption
<1>4. ASSUME NEW t \in Threads, pc[t] = "apply", call[t].op \in PopOps, do_pop
      PROVE  \A i \in Slots : m_data'[i] # Nil <=> Offset(i)' < m_size'
  <2>1. ~do_empty
    BY <1>4 DEF IInv, PredicateStillHolds, Ready, PushOps, PopOps
  <2> TAKE i \in Slots
  <2>2. /\ Offset(i)' = IF i = m_first THEN Capacity - 1 ELSE Offset(i) - 1
        /\ m_data'[i] = IF i = m_first THEN Nil ELSE m_data[i]
        /\ m_size' = m_size - 1
    BY <1>0, <1>4, <2>1, TookLemma
  <2>3. Offset(i) \in 0 .. Capacity - 1 /\ (Offset(i) = 0 <=> i = m_first)
    BY <1>0, OffsetLemma
  <2> QED
    BY <1>0, <1>1, <2>1, <2>2, <2>3 DEF do_empty
<1> QED
  BY <1>2, <1>3, <1>4
     DEF Next, vars, Progress, Throw, Call, Lock, Observe, Admit, Refuse, Block, Expire, Pop,
         PushThrows, PopThrows, AssignThrows, Unwind, Notify, Unlock, WakeSpuriously, ring

\* As long as no constructor of the element throws, exactly the slots of the
\* window hold an element, whatever assignments throw: do_pop never touches raw
\* storage and do_push never constructs over a live element.
THEOREM LifetimesCorrect ==
  ASSUME "construct" \notin Throws
  PROVE  Spec => []ConstructedExactly
<1>1. Init => ConstructedExactly
  BY DEF Init, ConstructedExactly, Window
<1>2. IInv /\ IInv' /\ ConstructedExactly /\ [Next]_vars => ConstructedExactly'
  BY ConstructedStep
<1> QED
  BY <1>1, <1>2, Invariance, PTL DEF Spec

-----------------------------------------------------------------------------
(* The refinement of BoundedFifo. *)

Element == Values \cup {Nil}

LEMMA ContentsLemma ==
  TypeOK => /\ contents \in Seq(Element)
            /\ Len(contents) = m_size
            /\ \A i \in 1 .. m_size : contents[i] = m_data[to_buffer_index(i - 1)]
<1> SUFFICES ASSUME TypeOK
             PROVE  /\ contents \in Seq(Element)
                    /\ Len(contents) = m_size
                    /\ \A i \in 1 .. m_size : contents[i] = m_data[to_buffer_index(i - 1)]
  OBVIOUS
<1>1. m_size \in Nat /\ m_size <= Capacity /\ m_first \in Slots
  BY CapacityAssumption DEF TypeOK
<1>2. ASSUME NEW i \in 1 .. m_size
      PROVE  m_data[to_buffer_index(i - 1)] \in Element
  <2>1. i - 1 \in 0 .. Capacity
    BY <1>1, CapacityAssumption
  <2>2. to_buffer_index(i - 1) \in Slots
    BY <1>1, <2>1, WrapLemma DEF to_buffer_index
  <2> QED
    BY <2>2 DEF TypeOK, Element
<1>3. contents \in [1 .. m_size -> Element]
  BY <1>2 DEF contents
<1>4. contents \in Seq(Element) /\ Len(contents) = m_size
  BY <1>1, <1>3
<1> QED
  BY <1>4 DEF contents

LEMMA ZeroLemma ==
  ASSUME NEW a \in Slots
  PROVE  (a + 0) % Capacity = a
<1>1. a + 0 = a /\ a < Capacity /\ 0 \in 0 .. Capacity
  BY CapacityAssumption DEF Slots
<1> QED
  BY <1>1, WrapLemma

LEMMA EmptyLemma == TypeOK => (contents = <<>> <=> m_size = 0)
BY ContentsLemma, EmptySeq

\* The oldest element is the one at m_first.
LEMMA HeadLemma == TypeOK /\ ~do_empty => Head(contents) = m_data[m_first]
<1> SUFFICES ASSUME TypeOK, ~do_empty
             PROVE  Head(contents) = m_data[m_first]
  OBVIOUS
<1>1. m_first \in Slots /\ m_size \in 1 .. Capacity /\ Capacity \in Nat \ {0}
  BY CapacityAssumption DEF TypeOK, do_empty
<1>2. to_buffer_index(0) = m_first
  <2>1. 0 \in 0 .. Capacity
    BY <1>1
  <2> QED
    BY <1>1, <2>1, ZeroLemma DEF to_buffer_index
<1>3. contents[1] = m_data[to_buffer_index(1 - 1)]
  BY <1>1, ContentsLemma
<1>4. Head(contents) = contents[1]
  BY <1>1, ContentsLemma, EmptyLemma
<1> QED
  BY <1>2, <1>3, <1>4

\* do_push appends to the contents and do_pop removes their head.
LEMMA AppendLemma ==
  ASSUME TypeOK, TypeOK', ~do_full, NEW element \in Element, do_push(element)
  PROVE  contents' = Append(contents, element)
<1>1. /\ m_first \in Slots /\ m_size \in 0 .. Capacity - 1 /\ Capacity \in Nat \ {0}
      /\ m_size' = m_size + 1 /\ m_first' = m_first
  BY CapacityAssumption DEF TypeOK, do_full, do_push
<1>2. /\ contents' \in Seq(Element) /\ Len(contents') = m_size + 1
      /\ \A i \in 1 .. m_size + 1 : contents'[i] = m_data'[to_buffer_index(i - 1)]
  <2>1. TypeOK' => (/\ contents \in Seq(Element)
                    /\ Len(contents) = m_size
                    /\ \A i \in 1 .. m_size : contents[i] = m_data[to_buffer_index(i - 1)])'
    BY ContentsLemma, PTL
  <2> QED
    BY <1>1, <2>1 DEF to_buffer_index
<1>3. contents \in Seq(Element) /\ Len(contents) = m_size
  BY ContentsLemma
<1>4. ASSUME NEW i \in 1 .. m_size + 1
      PROVE  contents'[i] = Append(contents, element)[i]
  <2>1. \A k \in 0 .. m_size :
          to_buffer_index(k) = IF m_first + k < Capacity THEN m_first + k
                                                         ELSE m_first + k - Capacity
    BY <1>1, WrapLemma DEF to_buffer_index
  <2>2. \A j \in Slots : m_data'[j] = IF j = to_buffer_index(m_size) THEN element ELSE m_data[j]
    BY DEF do_push, TypeOK
  <2>3. contents'[i] = m_data'[to_buffer_index(i - 1)] /\ to_buffer_index(i - 1) \in Slots
    <3>1. i - 1 \in 0 .. m_size
      BY <1>1
    <3>2. to_buffer_index(i - 1) \in Slots
      BY <1>1, <2>1, <3>1 DEF Slots
    <3> QED
      BY <1>2, <3>2
  <2>4. CASE i = m_size + 1
    BY <1>1, <1>3, <2>2, <2>3, <2>4, AppendProperties
  <2>5. CASE i \in 1 .. m_size
    <3>1. to_buffer_index(i - 1) # to_buffer_index(m_size)
      BY <1>1, <2>1, <2>5 DEF Slots
    <3>2. contents[i] = m_data[to_buffer_index(i - 1)]
      BY <2>5, ContentsLemma
    <3>3. Append(contents, element)[i] = contents[i]
      BY <1>3, <2>5, AppendProperties
    <3> QED
      BY <2>2, <2>3, <3>1, <3>2, <3>3
  <2>6. i = m_size + 1 \/ i \in 1 .. m_size
    BY <1>1
  <2> QED
    BY <2>4, <2>5, <2>6
<1>5. Append(contents, element) \in Seq(Element) /\ Len(Append(contents, element)) = m_size + 1
  BY <1>3
<1> QED
  BY <1>2, <1>4, <1>5, SeqEqual

\* So does a push whose element was not made, with Nil.
LEMMA UnmadeLemma ==
  ASSUME TypeOK, NoStrayElement, ~do_full, NEW t \in Threads, PushThrows(t)
  PROVE  do_push(Nil)
<1>1. PICK k : k = to_buffer_index(m_size)
  OBVIOUS
<1>2. k \in Slots /\ Offset(k) = m_size
  <2>1. m_first \in Slots /\ m_size \in 0 .. Capacity - 1 /\ Capacity \in Nat \ {0}
    BY CapacityAssumption DEF TypeOK, do_full
  <2>2. k = IF m_first + m_size < Capacity THEN m_first + m_size
                                           ELSE m_first + m_size - Capacity
    BY <1>1, <2>1, WrapLemma DEF to_buffer_index
  <2> QED
    BY <2>1, <2>2 DEF Offset, Slots
<1>3. m_data[k] = Nil
  BY <1>2, CapacityAssumption DEF NoStrayElement, TypeOK
<1>4. m_data = [m_data EXCEPT ![k] = Nil]
  BY <1>2, <1>3 DEF TypeOK
<1> QED
  BY <1>1, <1>4 DEF PushThrows, do_push

LEMMA TailLemma ==
  ASSUME TypeOK, TypeOK', ~do_empty, do_pop
  PROVE  contents' = Tail(contents)
<1>1. /\ m_first \in Slots /\ m_size \in 1 .. Capacity /\ Capacity \in Nat \ {0}
      /\ m_size' = m_size - 1
  BY CapacityAssumption DEF TypeOK, do_empty, do_pop
<1>2. /\ contents' \in Seq(Element) /\ Len(contents') = m_size - 1
      /\ \A i \in 1 .. m_size - 1 : contents'[i] = m_data'[(m_first' + (i - 1)) % Capacity]
  <2>1. TypeOK' => (/\ contents \in Seq(Element)
                    /\ Len(contents) = m_size
                    /\ \A i \in 1 .. m_size : contents[i] = m_data[to_buffer_index(i - 1)])'
    BY ContentsLemma, PTL
  <2> QED
    BY <1>1, <2>1 DEF to_buffer_index
<1>3. /\ contents \in Seq(Element) /\ Len(contents) = m_size /\ contents # <<>>
      /\ \A i \in 1 .. m_size : contents[i] = m_data[(m_first + (i - 1)) % Capacity]
  BY <1>1, ContentsLemma, EmptyLemma DEF to_buffer_index
<1>4. /\ Tail(contents) \in Seq(Element) /\ Len(Tail(contents)) = m_size - 1
      /\ \A i \in 1 .. m_size - 1 : Tail(contents)[i] = contents[i + 1]
  BY <1>3, HeadTailProperties
<1>5. ASSUME NEW i \in 1 .. m_size - 1
      PROVE  contents'[i] = Tail(contents)[i]
  <2>1. m_first' = IF m_first + 1 < Capacity THEN m_first + 1 ELSE m_first + 1 - Capacity
    BY <1>1, WrapLemma, 1 \in 0 .. Capacity DEF do_pop
  <2>2. m_first' \in Slots /\ i \in 0 .. Capacity /\ i - 1 \in 0 .. Capacity
    BY <1>1, <2>1 DEF Slots
  <2>3. (m_first' + (i - 1)) % Capacity = IF m_first' + (i - 1) < Capacity
                                           THEN m_first' + (i - 1)
                                           ELSE m_first' + (i - 1) - Capacity
    BY <2>2, WrapLemma
  <2>4. /\ (m_first + i) % Capacity = IF m_first + i < Capacity THEN m_first + i
                                                               ELSE m_first + i - Capacity
        /\ (m_first + i) % Capacity \in Slots
    BY <1>1, <2>2, WrapLemma
  <2>5. (m_first' + (i - 1)) % Capacity = (m_first + i) % Capacity
    BY <1>1, <2>1, <2>3, <2>4 DEF Slots
  <2>6. (m_first + i) % Capacity # m_first
    BY <1>1, <2>4 DEF Slots
  <2>7. m_data'[(m_first + i) % Capacity] = m_data[(m_first + i) % Capacity]
    BY <2>4, <2>6 DEF do_pop, TypeOK
  <2>8. contents[i + 1] = m_data[(m_first + i) % Capacity]
    <3>1. i + 1 \in 1 .. m_size /\ (i + 1) - 1 = i
      BY <1>1
    <3> QED
      BY <1>3, <3>1
  <2> QED
    BY <1>2, <1>4, <2>5, <2>7, <2>8
<1> QED
  BY <1>2, <1>4, <1>5, SeqEqual

LEMMA InitRefines == Init => Fifo!Init
<1> SUFFICES ASSUME Init
             PROVE  Fifo!Init
  OBVIOUS
<1>1. contents = <<>>
  BY InitIInv, EmptyLemma DEF IInv, Init
<1>2. phase = [t \in Threads |-> "idle"]
  BY DEF Init, phase
<1> QED
  BY <1>1, <1>2 DEF Init, Fifo!Init, NoCall, Fifo!NoCall, NoRet, Fifo!NoRet

\* The ring and the contents change together.
LEMMA ContentsKept ==
  ASSUME UNCHANGED ring
  PROVE  contents' = contents
BY DEF ring, contents, to_buffer_index

\* Every step of the queue is a step of the bounded FIFO or invisible to it.
LEMMA StepRefines ==
  ASSUME IInv, IInv', NoStrayElement, [Next]_vars
  PROVE  [Fifo!Next]_(Fifo!vars)
<1>0. TypeOK /\ TypeOK' /\ PlaceInv /\ PredicateStillHolds /\ pc \in [Threads -> Places]
  BY DEF IInv, TypeOK
<1> USE DEF Goto, Return, ring, conds
<1>1. ASSUME NEW t \in Threads, NEW c \in Calls, Call(t, c)
      PROVE  Fifo!Next
  <2>1. contents' = contents
    BY <1>1, ContentsKept DEF Call
  <2>2. phase[t] = "idle" /\ phase' = [phase EXCEPT ![t] = "called"]
    BY <1>0, <1>1 DEF Call, phase
  <2>3. Fifo!Invoke(t, c)
    BY <1>1, <2>1, <2>2 DEF Call, Fifo!Invoke
  <2>4. c \in Fifo!Calls
    BY DEF Calls, Fifo!Calls, PushOps, Fifo!PushOps, PopOps, Fifo!PopOps,
           Observers, Fifo!Observers
  <2> QED
    BY <2>3, <2>4 DEF Fifo!Next
<1>2. ASSUME NEW t \in Threads, Lock(t)
      PROVE  UNCHANGED Fifo!vars
  <2>1. contents' = contents
    BY <1>2, ContentsKept DEF Lock
  <2>2. phase' = phase
    BY <1>0, <1>2 DEF Lock, PlaceInv, TypeOK, phase
  <2> QED
    BY <1>2, <2>1, <2>2 DEF Lock, Fifo!vars
<1>3. ASSUME NEW t \in Threads, Admit(t)
      PROVE  UNCHANGED Fifo!vars
  <2>1. contents' = contents
    BY <1>3, ContentsKept DEF Admit
  <2>2. phase' = phase
    BY <1>0, <1>3 DEF Admit, PlaceInv, TypeOK, phase
  <2> QED
    BY <1>3, <2>1, <2>2 DEF Admit, Fifo!vars
<1>4. ASSUME NEW t \in Threads, Block(t)
      PROVE  UNCHANGED Fifo!vars
  <2>1. contents' = contents
    BY <1>4, ContentsKept DEF Block
  <2>2. phase' = phase
    BY <1>0, <1>4 DEF Block, PlaceInv, TypeOK, phase
  <2> QED
    BY <1>4, <2>1, <2>2 DEF Block, Fifo!vars
<1>5. ASSUME NEW t \in Threads, Expire(t)
      PROVE  UNCHANGED Fifo!vars
  <2>1. contents' = contents
    BY <1>5, ContentsKept DEF Expire
  <2>2. phase' = phase
    BY <1>0, <1>5 DEF Expire, PlaceInv, TypeOK, phase
  <2> QED
    BY <1>5, <2>1, <2>2 DEF Expire, Fifo!vars
<1>6. ASSUME NEW t \in Threads, Notify(t)
      PROVE  UNCHANGED Fifo!vars
  <2>1. contents' = contents
    BY <1>6, ContentsKept DEF Notify
  <2>2. phase' = phase
    BY <1>0, <1>6 DEF Notify, PlaceInv, TypeOK, phase
  <2> QED
    BY <1>6, <2>1, <2>2 DEF Notify, Fifo!vars
<1>7. ASSUME NEW t \in Threads, WakeSpuriously(t)
      PROVE  UNCHANGED Fifo!vars
  <2>1. contents' = contents
    BY <1>7, ContentsKept DEF WakeSpuriously
  <2>2. phase' = phase
    BY <1>0, <1>7 DEF WakeSpuriously, PlaceInv, TypeOK, phase
  <2> QED
    BY <1>7, <2>1, <2>2 DEF WakeSpuriously, Fifo!vars
<1>8. ASSUME NEW t \in Threads, Observe(t)
      PROVE  Fifo!Next
  <2>1. contents' = contents /\ Len(contents) = m_size
    BY <1>0, <1>8, ContentsKept, ContentsLemma DEF Observe
  <2>2. phase[t] = "called" /\ phase' = [phase EXCEPT ![t] = "done"]
    BY <1>0, <1>8 DEF Observe, phase
  <2>3. Observation(t) = Fifo!Observed(call[t].op, Len(contents))
    BY <1>8, <2>1 DEF Observe, Observation, Fifo!Observed, do_empty, do_full, Observers
  <2>4. Fifo!Observe(t)
    BY <1>8, <2>1, <2>2, <2>3 DEF Observe, Fifo!Observe, Fifo!Effect, Observers, Fifo!Observers
  <2> QED
    BY <2>4 DEF Fifo!Next
<1>9. ASSUME NEW t \in Threads, Refuse(t)
      PROVE  Fifo!Next
  <2>1. contents' = contents /\ Len(contents) = m_size /\ (contents = <<>> <=> m_size = 0)
    BY <1>0, <1>9, ContentsKept, ContentsLemma, EmptyLemma DEF Refuse
  <2>2. phase[t] = "called" /\ phase' = [phase EXCEPT ![t] = "done"]
    BY <1>0, <1>9 DEF Refuse, phase
  <2>3. call[t].op \in Fifo!Refusable
    BY <1>0, <1>9, CallsLemma
       DEF Refuse, PlaceInv, WaitOps, TimedOps, Ops, Fifo!Refusable, PushOps, Fifo!PushOps, PopOps, Fifo!PopOps, Observers, Fifo!Observers
  <2>4. IF call[t].op \in Fifo!PushOps THEN Len(contents) = Capacity ELSE contents = <<>>
    BY <1>9, <2>1 DEF Refuse, Ready, do_full, do_empty, PushOps, Fifo!PushOps
  <2>5. Fifo!Refuse(t)
    BY <1>9, <2>1, <2>2, <2>3, <2>4
       DEF Refuse, Fifo!Refuse, Fifo!Effect, Refused, Fifo!Refused
  <2> QED
    BY <2>5 DEF Fifo!Next
<1>10. ASSUME NEW t \in Threads, Push(t)
      PROVE  Fifo!Next
  <2>1. /\ ~do_full /\ call[t].elem \in Element
        /\ Len(contents) = m_size /\ m_size \in 0 .. Capacity
    BY <1>0, <1>10, CallsLemma, ContentsLemma
       DEF Push, PredicateStillHolds, PlaceInv, Ready, TypeOK, Element
  <2>2. phase[t] = "called" /\ phase' = [phase EXCEPT ![t] = "done"]
    BY <1>0, <1>10 DEF Push, phase
  <2>3. contents' = Append(contents, call[t].elem)
    BY <1>0, <1>10, <2>1, AppendLemma DEF Push
  <2>4. Success(t) = Fifo!Pushed(call[t].op)
    BY <1>10 DEF Push, Success, Fifo!Pushed, Fifo!Void, PushOps, PopOps
  <2>5. Len(contents) < Capacity
    BY <2>1, CapacityAssumption DEF do_full
  <2>6. Fifo!Put(t)
    BY <1>10, <2>2, <2>3, <2>4, <2>5 DEF Push, Fifo!Put, Fifo!Effect, PushOps, Fifo!PushOps
  <2> QED
    BY <2>6 DEF Fifo!Next
<1>11. ASSUME NEW t \in Threads, Pop(t)
      PROVE  Fifo!Next
  <2>1. ~do_empty
    BY <1>0, <1>11 DEF Pop, PredicateStillHolds, Ready, PushOps, PopOps
  <2>2. phase[t] = "called" /\ phase' = [phase EXCEPT ![t] = "done"]
    BY <1>0, <1>11 DEF Pop, phase
  <2>3. contents' = Tail(contents) /\ Head(contents) = m_data[m_first] /\ contents # <<>>
    BY <1>0, <1>11, <2>1, TailLemma, HeadLemma, EmptyLemma DEF Pop, do_empty
  <2>4. Success(t) = <<"element", Head(contents)>>
    BY <1>11, <2>3 DEF Pop, Success, PopOps
  <2>5. Fifo!Take(t)
    BY <1>11, <2>2, <2>3, <2>4 DEF Pop, Fifo!Take, Fifo!Effect, PopOps, Fifo!PopOps
  <2> QED
    BY <2>5 DEF Fifo!Next
<1>12. ASSUME NEW t \in Threads, Unlock(t)
      PROVE  Fifo!Next
  <2>1. contents' = contents
    BY <1>12, ContentsKept DEF Unlock
  <2>2. phase[t] = "done" /\ phase' = [phase EXCEPT ![t] = "idle"]
    BY <1>0, <1>12 DEF Unlock, phase
  <2>3. Fifo!Respond(t)
    BY <1>12, <2>1, <2>2 DEF Unlock, Fifo!Respond, NoCall, Fifo!NoCall, NoRet, Fifo!NoRet
  <2> QED
    BY <2>3 DEF Fifo!Next
<1>13. CASE UNCHANGED vars
  <2>1. contents' = contents /\ phase' = phase
    BY <1>13, ContentsKept DEF vars, phase
  <2> QED
    BY <1>13, <2>1 DEF vars, Fifo!vars
<1>14. ASSUME NEW t \in Threads, PushThrows(t)
      PROVE  Fifo!Next
  <2>1. /\ ~do_full /\ Nil \in Element
        /\ Len(contents) = m_size /\ m_size \in 0 .. Capacity
    BY <1>0, <1>14, ContentsLemma
       DEF PushThrows, Unwind, PredicateStillHolds, Ready, TypeOK, Element
  <2>2. phase[t] = "called" /\ phase' = [phase EXCEPT ![t] = "done"]
    BY <1>0, <1>14 DEF PushThrows, Unwind, phase
  <2>3. contents' = Append(contents, Nil)
    BY <1>0, <1>14, <2>1, UnmadeLemma, AppendLemma
  <2>4. Len(contents) < Capacity
    BY <2>1, CapacityAssumption DEF do_full
  <2>5. Fifo!PutFails(t)
    BY <1>14, <2>2, <2>3, <2>4
       DEF PushThrows, Unwind, Exception, Fifo!PutFails, Fifo!Threw, Fifo!Effect, PushOps, Fifo!PushOps
  <2> QED
    BY <2>5 DEF Fifo!Next
<1>15. ASSUME NEW t \in Threads, PopThrows(t)
      PROVE  Fifo!Next
  <2>1. contents' = contents /\ contents # <<>>
    BY <1>0, <1>15, ContentsKept, EmptyLemma
       DEF PopThrows, Unwind, PredicateStillHolds, Ready, PushOps, PopOps, do_empty
  <2>2. phase[t] = "called" /\ phase' = [phase EXCEPT ![t] = "done"]
    BY <1>0, <1>15 DEF PopThrows, Unwind, phase
  <2>3. Fifo!TakeFails(t)
    BY <1>15, <2>1, <2>2
       DEF PopThrows, Unwind, Exception, Fifo!TakeFails, Fifo!Threw, Fifo!Effect, PopOps, Fifo!PopOps
  <2> QED
    BY <2>3 DEF Fifo!Next
<1>16. ASSUME NEW t \in Threads, AssignThrows(t)
      PROVE  Fifo!Next
  <2>1. ~do_empty
    BY <1>0, <1>16 DEF AssignThrows, Unwind, PredicateStillHolds, Ready, PushOps, PopOps
  <2>2. phase[t] = "called" /\ phase' = [phase EXCEPT ![t] = "done"]
    BY <1>0, <1>16 DEF AssignThrows, Unwind, phase
  <2>3. contents' = Tail(contents) /\ contents # <<>>
    BY <1>0, <1>16, <2>1, TailLemma, EmptyLemma DEF AssignThrows, do_empty
  <2>4. Fifo!TakeFails(t)
    BY <1>16, <2>2, <2>3
       DEF AssignThrows, Unwind, Exception, Fifo!TakeFails, Fifo!Threw, Fifo!Effect, PopOps, Fifo!PopOps
  <2> QED
    BY <2>4 DEF Fifo!Next
<1> QED
  BY <1>1, <1>2, <1>3, <1>4, <1>5, <1>6, <1>7, <1>8, <1>9, <1>10, <1>11, <1>12, <1>13, <1>14,
     <1>15, <1>16
     DEF Next, Progress, Throw

\* The queue is linearizable, with do_push and do_pop as the instants of effect:
\* it implements the bounded FIFO, whichever operations of the elements throw.  A
\* call that ends with an exception has one of the effects that BoundedFifo grants
\* to it, and no other call is affected by it.
THEOREM Linearizable == Spec => ImplementsFifo
<1>1. IInv /\ IInv' /\ NoStrayElement /\ [Next]_vars => [Fifo!Next]_(Fifo!vars)
  BY StepRefines
<1> QED
  BY <1>1, InitRefines, Invariance, NoneStray, PTL DEF Spec, ImplementsFifo, Fifo!Spec

=============================================================================
