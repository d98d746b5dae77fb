---------------------- MODULE BoundedQueueObjectsProofs ----------------------
(***************************************************************************)
(* Theorems about BoundedQueueObjects for any threads, queues, elements,   *)
(* capacities and calls, and whichever operations of the elements throw.   *)
(***************************************************************************)
EXTENDS BoundedQueueObjects, QueueRingProofs, FiniteSetTheorems

-----------------------------------------------------------------------------
(* The inductive invariant. *)

ExchangeOps == SwapOps \cup {"copy_assign"}
Exchanging  == {"contend", "swap", "half"}     \* places with a mutex
Places      == {"idle", "lock", "relock", "waiting", "read", "copy", "claim", "leave",
                "destroy", "return"} \cup Exchanging

Types ==
  /\ queue \in [Queues -> Object \cup {Nil}]
  /\ temporary \in [Threads -> Object \cup {Nil}]
  /\ m_mutex \in [Queues -> Threads \cup {Nil}]
  /\ m_hasSpace \in [Queues -> SUBSET Threads]
  /\ m_hasElements \in [Queues -> SUBSET Threads]
  /\ pc \in [Threads -> Places]
  /\ call \in [Threads -> CallRecord \cup {NoCall}]
  /\ expired \subseteq Threads
  /\ misused \subseteq {"queue", "temporary", "unfinished copy"}

\* The call of t fits the place t is at.
AtPlace(t) ==
  /\ pc[t] = "idle" <=> call[t] = NoCall
  /\ pc[t] \in {"lock", "relock", "waiting"} => call[t].op \in SingleOps
  /\ pc[t] \in {"read", "copy"} => call[t].op \in CopyOps
  /\ pc[t] \in {"claim", "leave"} \cup Exchanging => call[t].op \in ExchangeOps
  /\ pc[t] = "destroy" => call[t].op = "destroy"
  /\ pc[t] \in {"copy", "swap", "half", "leave"} => call[t].q # call[t].other
  /\ pc[t] \in {"claim", "contend"} /\ call[t].op = "copy_assign" => call[t].q # call[t].other
  /\ call[t].op \in OwningOps => call[t].q # call[t].other

\* A thread waits in the set of the queue and the condition of its call.
Waiting(q) ==
  /\ \A t \in m_hasSpace[q] : pc[t] = "waiting" /\ call[t].op \in PushOps /\ call[t].q = q
  /\ \A t \in m_hasElements[q] : pc[t] = "waiting" /\ call[t].op \in PopOps /\ call[t].q = q

\* The objects of t's call exist, and no other call uses the one that t
\* constructs or destroys.
Exist(t) ==
  /\ pc[t] # "idle" /\ call[t].op \notin OwningOps => call[t].q \in alive
  /\ pc[t] # "return" /\ call[t].op \in ConstructOps => call[t].q \notin alive
  /\ pc[t] = "destroy" => call[t].q \in alive
  /\ call[t].other \in alive \cup {Nil}
  /\ call[t].op \in OwningOps => \A u \in Threads \ {t} : call[t].q \notin Involved(call[u])

\* t owns mutexes of its exchange only: none at first, then one, then all.
Owns(t) ==
  /\ \A q \in Queues : m_mutex[q] = t => pc[t] \in Exchanging /\ q \in Shared(t)
  /\ pc[t] \in {"swap", "half"} => \A q \in Shared(t) : m_mutex[q] = t

Control == /\ Types
           /\ \A t \in Threads : AtPlace(t) /\ Exist(t) /\ Owns(t)
           /\ \A q \in Queues : Waiting(q)

\* An object between two steps of its functions; exact asks for what only holds
\* as long as no copy overflows.
Fine(o, exact) == /\ Shape(o, Counted)
                  /\ o.m_maximumSize \in Capacities
                  /\ exact => WellFormed(o)

Torn(q) == \E t \in Threads : pc[t] = "half" /\ q \in Shared(t)

\* What t keeps to itself.
FineTemporary(t, exact) ==
  /\ pc[t] = "copy" => \E n \in Capacities \ {0} : temporary[t] = Allocated(n)
  /\ pc[t] \in {"claim", "contend", "swap"} =>
       /\ call[t].op = "copy_assign" => Fine(temporary[t], exact)
       /\ call[t].op = "move_construct" => temporary[t] = Allocated(0)
  /\ pc[t] = "leave" /\ call[t].op \in {"copy_assign", "move_construct"}
       => Fine(temporary[t], exact)

\* Halfway through an exchange, the other half makes both objects whole.
FineHalves(t, exact) ==
  pc[t] = "half" => /\ Ours(t) \in Object /\ Theirs(t) \in Object
                    /\ Fine(WithIndices(Ours(t), Theirs(t)), exact)
                    /\ Fine(WithIndices(Theirs(t), Ours(t)), exact)

Whole(exact) == /\ \A q \in alive : ~Torn(q) => Fine(queue[q], exact)
                /\ \A t \in Threads : FineTemporary(t, exact) /\ FineHalves(t, exact)
                /\ exact => NoRawDestroyed

IInv(exact) == Control /\ Whole(exact)

\* When the loop of a copy begins, the copy has room for what the original holds
\* now: the capacity was read before, without the original's mutex.
CopiesFit == \A t \in Threads :
  pc[t] = "copy" /\ m_mutex[call[t].other] = Nil
    => queue[call[t].other].m_size <= temporary[t].m_maximumSize

-----------------------------------------------------------------------------
LEMMA CallsLemma ==
  ASSUME NEW c \in CallRecord
  PROVE  /\ c # NoCall
         /\ c.op \in SingleOps \cup CopyOps \cup SwapOps \cup {"destroy"}
         /\ c.q \in Queues
         /\ c.q # Nil
         /\ c.op \in SingleOps \cup {"destroy"} => c.other = Nil
         /\ c.op \in CopyOps \cup SwapOps => c.other \in Queues /\ c.other # Nil
         /\ c.op \in PushOps => c.elem \in Values
BY NilAssumption
   DEF CallRecord, NoCall, SingleOps, PushOps, PopOps, CopyOps, SwapOps

LEMMA SharedLemma ==
  ASSUME NEW t \in Threads, call[t] \in CallRecord, call[t].op \in ExchangeOps
  PROVE  Shared(t) \subseteq Queues /\ Shared(t) # {}
BY CallsLemma DEF Shared, ExchangeOps, CopyOps, SwapOps

-----------------------------------------------------------------------------
(* The places of the threads. *)

\* What a step of t does within its call: t goes on, and at most wakes others.
Edge(t) ==
  \/ pc[t] \in {"lock", "relock"} /\ pc'[t] \in {"waiting", "return"}
  \/ pc[t] \in {"waiting", "relock"} /\ pc'[t] = "relock"
  \/ pc[t] = "read" /\ ~SelfAssignment(t) /\ pc'[t] \in {"copy", "return"}
  \/ pc[t] \in {"copy", "read", "claim", "leave", "destroy"} /\ pc'[t] = "return"
  \/ pc[t] = "copy" /\ call[t].op # "copy_construct" /\ pc'[t] = "claim"
  \/ pc[t] = "claim" /\ ~SelfAssignment(t) /\ pc'[t] = "contend"
  \/ pc[t] = "contend" /\ ~SelfSwap(t) /\ pc'[t] = "swap"
  \/ pc[t] = "contend" /\ pc'[t] = "claim"
  \/ pc[t] = "swap" /\ pc'[t] = "half"
  \/ pc[t] = "half" /\ pc'[t] = "leave"

Within(t) ==
  /\ call' = call
  /\ pc' \in [Threads -> Places]
  /\ Edge(t)
  /\ \A u \in Threads \ {t} : \/ pc'[u] = pc[u]
                              \/ pc[u] = "waiting" /\ pc'[u] = "relock"

\* What the place of t says of the call it is in.
LEMMA InCall ==
  ASSUME Control, NEW t \in Threads, pc[t] # "idle"
  PROVE  /\ call[t] \in CallRecord /\ call[t].q \in Queues /\ call[t].q # Nil
         /\ pc[t] \in {"lock", "relock", "waiting"} => call[t].op \in SingleOps
         /\ pc[t] \in Exchanging => call[t].op \in ExchangeOps
         /\ pc[t] \in {"read", "copy"} =>
              call[t].op \in CopyOps /\ call[t].other \in Queues /\ call[t].other \in alive
<1>1. AtPlace(t) /\ call[t] \in CallRecord \cup {NoCall} /\ call[t].other \in alive \cup {Nil}
  BY DEF Control, Types, Exist
<1>2. call[t] \in CallRecord
  BY <1>1 DEF AtPlace
<1>3. call[t].q \in Queues /\ call[t].q # Nil
  BY <1>2, CallsLemma
<1>4. /\ pc[t] \in {"lock", "relock", "waiting"} => call[t].op \in SingleOps
      /\ pc[t] \in Exchanging => call[t].op \in ExchangeOps
      /\ pc[t] \in {"read", "copy"} => call[t].op \in CopyOps
  BY <1>1 DEF AtPlace
<1>5. call[t].op \in CopyOps => call[t].other \in Queues /\ call[t].other \in alive
  BY <1>1, <1>2, CallsLemma
<1> QED
  BY <1>2, <1>3, <1>4, <1>5

\* A step of t that is neither the call nor the return.
Inner(t) ==
  \/ Push(t) \/ Pop(t) \/ PushFails(t) \/ PopFails(t)
  \/ Size(t) \/ Refuse(t) \/ Block(t) \/ Expire(t) \/ WakeSpuriously(t)
  \/ ReadCapacity(t) \/ CopyElements(t) \/ (\E k \in Nat : CopyThrows(t, k))
  \/ KeepSelf(t) \/ LockFirst(t) \/ LockSecond(t) \/ BackOff(t)
  \/ SwapIndices(t) \/ SwapStorage(t) \/ Leaving(t) \/ Destroy(t)

LEMMA GotoLemma ==
  ASSUME Types, NEW t \in Threads, NEW place \in Places, Goto(t, place)
  PROVE  /\ pc' \in [Threads -> Places]
         /\ pc'[t] = place
         /\ \A u \in Threads \ {t} : pc'[u] = pc[u]
BY DEF Types, Goto

LEMMA NotifyLemma ==
  ASSUME Control, NEW t \in Threads, pc[t] # "waiting", call[t].q \in Queues,
         NotifyOne(t, m_hasSpace) \/ NotifyOne(t, m_hasElements)
  PROVE  /\ pc' \in [Threads -> Places]
         /\ pc'[t] = "return"
         /\ \A u \in Threads \ {t} : \/ pc'[u] = pc[u]
                                     \/ pc[u] = "waiting" /\ pc'[u] = "relock"
<1>1. CASE Goto(t, "return")
  BY <1>1, GotoLemma DEF Control, Places
<1>2. ASSUME NEW w \in Threads, pc[w] = "waiting",
             pc' = [pc EXCEPT ![t] = "return", ![w] = "relock"]
      PROVE  /\ pc' \in [Threads -> Places]
             /\ pc'[t] = "return"
             /\ \A u \in Threads \ {t} : \/ pc'[u] = pc[u]
                                         \/ pc[u] = "waiting" /\ pc'[u] = "relock"
  BY <1>2 DEF Control, Types, Places
<1>3. /\ \A w \in m_hasSpace[call[t].q] : w \in Threads /\ pc[w] = "waiting"
      /\ \A w \in m_hasElements[call[t].q] : w \in Threads /\ pc[w] = "waiting"
  BY DEF Control, Types, Waiting
<1> QED
  BY <1>1, <1>2, <1>3 DEF NotifyOne

LEMMA WithinLemma ==
  ASSUME Control, NEW t \in Threads, Inner(t)
  PROVE  Within(t)
<1> USE DEF Control
<1>0. pc[t] = "lock" \/ pc[t] = "relock" => call[t].q \in Queues
  BY CallsLemma DEF Types, AtPlace
<1>1. ASSUME Push(t) \/ Pop(t)
      PROVE  Within(t)
  BY <1>0, <1>1, NotifyLemma DEF Push, Pop, Locks, Within, Edge
<1>2. ASSUME Size(t) \/ Refuse(t) \/ PushFails(t) \/ PopFails(t)
      PROVE  Within(t)
  BY <1>2, GotoLemma
     DEF Size, Refuse, PushFails, PopFails, Fail, Locks, Finish, Within, Edge, Places
<1>3. ASSUME Block(t) \/ Expire(t) \/ WakeSpuriously(t)
      PROVE  Within(t)
  BY <1>3, GotoLemma DEF Block, Expire, WakeSpuriously, Leave, Locks, Within, Edge, Places
<1>4. ASSUME ReadCapacity(t)
      PROVE  Within(t)
  BY <1>4, GotoLemma DEF ReadCapacity, Finish, Within, Edge, Places
<1>5. ASSUME CopyElements(t) \/ \E k \in Nat : CopyThrows(t, k)
      PROVE  Within(t)
  BY <1>5, GotoLemma DEF CopyElements, CopyThrows, Deliver, Finish, Within, Edge, Places
<1>6. ASSUME KeepSelf(t) \/ LockFirst(t) \/ LockSecond(t) \/ BackOff(t)
      PROVE  Within(t)
  BY <1>6, GotoLemma
     DEF KeepSelf, LockFirst, LockSecond, BackOff, Finish, Within, Edge, Places, Exchanging
<1>7. ASSUME SwapIndices(t) \/ SwapStorage(t) \/ Leaving(t) \/ Destroy(t)
      PROVE  Within(t)
  BY <1>7, GotoLemma
     DEF SwapIndices, SwapStorage, Leaving, Destroy, Finish, Within, Edge, Places, Exchanging
<1> QED
  BY <1>1, <1>2, <1>3, <1>4, <1>5, <1>6, <1>7 DEF Inner

LEMMA NextLemma ==
  ASSUME [Next]_vars
  PROVE  \/ UNCHANGED vars
         \/ \E t \in Threads : Inner(t) \/ Return(t) \/ \E c \in Menu[t] : Call(t, c)
<1>1. ASSUME NEW t \in Threads, NEW q \in alive, NEW k \in 1 .. queue[q].m_size, CopyThrows(t, k)
      PROVE  \E n \in Nat : CopyThrows(t, n)
  BY <1>1
<1> QED
  BY <1>1 DEF Next, Progress, Inner

LEMMA AtPlaceStep ==
  ASSUME Control, [Next]_vars
  PROVE  \A t \in Threads : AtPlace(t)'
<1> USE DEF Control
<1>1. ASSUME NEW t \in Threads, NEW c \in Menu[t], Call(t, c)
      PROVE  \A u \in Threads : AtPlace(u)'
  <2>1. c \in CallRecord
    BY MenuAssumption
  <2>2. c.op \in OwningOps => c.q # c.other
    BY <1>1, <2>1, CallsLemma DEF Call, Legal, alive, OwningOps, ConstructOps
  <2>3. /\ call' = [call EXCEPT ![t] = c] /\ pc \in [Threads -> Places]
        /\ call \in [Threads -> CallRecord \cup {NoCall}]
        /\ pc' = [pc EXCEPT ![t] = CASE c.op \in SingleOps -> "lock"
                                     [] c.op \in CopyOps   -> "read"
                                     [] c.op \in SwapOps   -> "claim"
                                     [] OTHER              -> "destroy"]
    BY <1>1 DEF Call, Goto, Types
  <2>4. AtPlace(t)'
    BY <2>1, <2>2, <2>3, CallsLemma
       DEF AtPlace, SingleOps, PushOps, PopOps, CopyOps, SwapOps, ExchangeOps, Exchanging
  <2>5. \A u \in Threads \ {t} : AtPlace(u)'
    BY <2>3 DEF AtPlace
  <2> QED
    BY <2>4, <2>5
<1>2. ASSUME NEW t \in Threads, Inner(t)
      PROVE  \A u \in Threads : AtPlace(u)'
  <2>1. Within(t)
    BY <1>2, WithinLemma
  <2>2. AtPlace(t)'
    BY <2>1 DEF Within, Edge, SelfAssignment, SelfSwap, AtPlace, Exchanging, ExchangeOps,
                SwapOps, CopyOps, AssignOps, OwningOps
  <2>3. \A u \in Threads \ {t} : AtPlace(u)'
    BY <2>1 DEF Within, AtPlace, Exchanging
  <2> QED
    BY <2>2, <2>3
<1>3. ASSUME NEW t \in Threads, Return(t)
      PROVE  \A u \in Threads : AtPlace(u)'
  BY <1>3 DEF Return, Goto, Types, AtPlace, NoCall, OwningOps, Exchanging
<1>4. ASSUME UNCHANGED vars
      PROVE  \A u \in Threads : AtPlace(u)'
  BY <1>4 DEF vars, AtPlace
<1> QED
  BY <1>1, <1>2, <1>3, <1>4, NextLemma
-----------------------------------------------------------------------------
(* The objects. *)

LEMMA FineObject ==
  ASSUME NEW o, Fine(o, FALSE)
  PROVE  o \in Object
<1>1. /\ o.m_maximumSize \in Capacities /\ o.m_first \in Nat /\ o.m_size \in Nat
      /\ o.m_data \in [0 .. o.m_maximumSize - 1 -> Counted \cup {Nil}]
  BY DEF Fine, Shape
<1>2. o.m_data \in UNION {[0 .. n - 1 -> Counted \cup {Nil}] : n \in Capacities}
  BY <1>1
<1> QED
  BY <1>1, <1>2 DEF Fine, Shape, Record, Object

LEMMA FineLemma ==
  ASSUME NEW e \in BOOLEAN, NEW o, Fine(o, e)
  PROVE  Fine(o, FALSE) /\ o \in Object /\ o # Nil
<1>1. Fine(o, FALSE)
  BY DEF Fine
<1> QED
  BY <1>1, FineObject, NilAssumption

LEMMA CapacitiesLemma == Capacities \subseteq Nat /\ 0 \in Capacities
BY StartAssumption DEF Capacities

LEMMA AllocatedCapacity ==
  ASSUME NEW n \in Capacities
  PROVE  n \in Nat /\ Allocated(n).m_maximumSize = n
<1>1. n \in Nat
  BY CapacitiesLemma
<1>2. Allocated(n).m_maximumSize = n
  BY DEF Allocated
<1> QED
  BY <1>1, <1>2

LEMMA FreshLemma ==
  ASSUME NEW e \in BOOLEAN, NEW n \in Capacities
  PROVE  Fine(Allocated(n), e)
<1>1. n \in Nat
  BY CapacitiesLemma
<1>2. Allocated(n).m_maximumSize = n
  BY DEF Allocated
<1> QED
  BY <1>1, <1>2, AllocatedLemma DEF Fine

LEMMA FinePush ==
  ASSUME NEW e \in BOOLEAN, NEW o, Fine(o, e), ~do_full(o), NEW v \in Counted
  PROVE  Fine(do_push(o, v), e)
<1>1. Shape(o, Counted) /\ o.m_maximumSize # 0
  BY DEF Fine, Shape, do_full
<1>2. Nil \notin Counted /\ v \in Counted \cup {Nil} /\ v # Nil
  BY NilAssumption
<1>3. Shape(do_push(o, v), Counted)
  BY <1>1, <1>2, do_pushLemma
<1>5. do_push(o, v).m_maximumSize = o.m_maximumSize
  BY <1>1 DEF do_push, Shape, Record
<1>4. WellFormed(o) => WellFormed(do_push(o, v))
  BY <1>1, <1>2, do_pushLemma
<1> QED
  BY <1>3, <1>4, <1>5 DEF Fine

\* An object whose mutex is free is not halfway through an exchange.
LEMMA FreeLemma ==
  ASSUME NEW e \in BOOLEAN, IInv(e), NEW q \in alive, m_mutex[q] = Nil
  PROVE  Fine(queue[q], e)
<1>1. ~Torn(q)
  BY NilAssumption DEF IInv, Control, Owns, Torn
<1> QED
  BY <1>1 DEF IInv, Whole

\* The thread t changed the objects in C, the others are as they were.
LEMMA WholeKept ==
  ASSUME NEW e \in BOOLEAN, IInv(e), NEW t \in Threads, Within(t),
         NEW C \in SUBSET Queues,
         \A q \in Queues \ C : queue'[q] = queue[q],
         \A q \in C : q \in alive' => Torn(q)' \/ Fine(queue'[q], e),
         pc[t] = "half" => Shared(t) \subseteq C,
         \A u \in Threads \ {t} : /\ temporary'[u] = temporary[u]
                                  /\ pc[u] = "half" => Shared(u) \cap C = {},
         FineTemporary(t, e)', FineHalves(t, e)',
         e => NoRawDestroyed'
  PROVE  Whole(e)'
<1> USE DEF IInv, Whole
<1>1. ASSUME NEW q \in Queues, q \in alive', ~Torn(q)'
      PROVE  Fine(queue'[q], e)
  <2>1. CASE q \in C
    BY <1>1, <2>1
  <2>2. CASE q \notin C
    <3>1. q \in alive /\ queue'[q] = queue[q]
      BY <1>1, <2>2 DEF alive
    <3>2. ASSUME NEW u \in Threads, pc[u] = "half", q \in Shared(u)
          PROVE  FALSE
      <4>1. u # t
        BY <2>2, <3>2
      <4>2. pc'[u] = "half" /\ call' = call
        BY <3>2, <4>1 DEF Within
      <4> QED
        BY <1>1, <3>2, <4>2 DEF Torn, Shared
    <3> QED
      BY <3>1, <3>2 DEF Torn
  <2> QED
    BY <2>1, <2>2
<1>2. ASSUME NEW u \in Threads \ {t}
      PROVE  FineTemporary(u, e)' /\ FineHalves(u, e)'
  <2>1. /\ call'[u] = call[u] /\ temporary'[u] = temporary[u]
        /\ \/ pc'[u] = pc[u]
           \/ pc[u] = "waiting" /\ pc'[u] = "relock"
    BY DEF Within
  <2>2. FineTemporary(u, e)'
    BY <2>1 DEF FineTemporary
  <2>3. ASSUME pc[u] = "half"
        PROVE  Ours(u)' = Ours(u) /\ Theirs(u)' = Theirs(u)
    <3>1. call[u] \in CallRecord /\ call[u].op \in ExchangeOps
      BY <2>3, InCall DEF Exchanging
    <3>2. \A q \in Shared(u) : queue'[q] = queue[q]
      BY <2>3, <3>1, SharedLemma
    <3> QED
      BY <2>1, <3>1, <3>2 DEF Ours, Theirs, Shared, ExchangeOps, SwapOps
  <2>4. FineHalves(u, e)'
    BY <2>1, <2>3 DEF FineHalves
  <2> QED
    BY <2>2, <2>4
<1> QED
  BY <1>1, <1>2 DEF alive

LEMMA WholeUntouched ==
  ASSUME NEW e \in BOOLEAN, IInv(e), NEW t \in Threads, Within(t), pc[t] # "half",
         queue' = queue,
         \A u \in Threads \ {t} : temporary'[u] = temporary[u],
         FineTemporary(t, e)', FineHalves(t, e)',
         e => NoRawDestroyed'
  PROVE  Whole(e)'
<1>1. PICK C \in SUBSET Queues : C = {}
  OBVIOUS
<1>2. /\ \A q \in Queues \ C : queue'[q] = queue[q]
      /\ \A q \in C : q \in alive' => Torn(q)' \/ Fine(queue'[q], e)
      /\ \A u \in Threads \ {t} : pc[u] = "half" => Shared(u) \cap C = {}
  BY <1>1
<1> QED
  BY <1>2, WholeKept

\* What t may do to the existence of objects: construct or destroy the one of
\* its call.
Lifecycle(t) ==
  \/ alive' = alive
  \/ /\ call[t].op \in ConstructOps /\ pc[t] \in {"copy", "leave"} /\ pc'[t] = "return"
     /\ alive' = alive \cup {call[t].q}
  \/ /\ pc[t] = "destroy" /\ pc'[t] = "return"
     /\ alive' = alive \ {call[t].q}

ObjectsStep(t, exact) == /\ queue' \in [Queues -> Object \cup {Nil}]
                         /\ temporary' \in [Threads -> Object \cup {Nil}]
                         /\ misused' \subseteq {"queue", "temporary", "unfinished copy"}
                         /\ Lifecycle(t)
                         /\ Whole(exact)'

\* Who is halfway through an exchange owns the mutexes of its objects.
LEMMA HalfOwns ==
  ASSUME Control, NEW u \in Threads, pc[u] = "half"
  PROVE  \A q \in Shared(u) : m_mutex[q] = u
BY DEF Control, Owns

LEMMA ObjectsUntouched ==
  ASSUME NEW e \in BOOLEAN, IInv(e), NEW t \in Threads, Within(t),
         UNCHANGED <<queue, temporary, misused>>,
         pc[t] # "half", pc'[t] # "half", pc'[t] # "copy", pc'[t] # "leave",
         pc'[t] \in {"claim", "contend", "swap"} => pc[t] \in {"claim", "contend", "swap"}
  PROVE  ObjectsStep(t, e)
<1>1. FineTemporary(t, e)' /\ FineHalves(t, e)'
  BY DEF IInv, Whole, Within, FineTemporary, FineHalves
<1>2. Whole(e)'
  <2>1. /\ queue' = queue /\ \A u \in Threads \ {t} : temporary'[u] = temporary[u]
        /\ e => NoRawDestroyed'
    BY DEF IInv, Whole, NoRawDestroyed
  <2> QED
    BY <1>1, <2>1, WholeUntouched
<1> QED
  BY <1>2 DEF IInv, Control, Types, ObjectsStep, Lifecycle, alive

\* t changes one object whose mutex is free.
LEMMA OneObject ==
  ASSUME NEW e \in BOOLEAN, IInv(e), NEW t \in Threads, Within(t),
         pc[t] \in {"lock", "relock"}, m_mutex[call[t].q] = Nil, pc'[t] = "return",
         NEW o, Fine(o, e), queue' = [queue EXCEPT ![call[t].q] = o],
         UNCHANGED <<temporary, misused>>
  PROVE  ObjectsStep(t, e)
<1> DEFINE q == call[t].q
<1>1. q \in Queues /\ q \in alive
  BY CallsLemma DEF IInv, Control, Types, AtPlace, Exist, OwningOps, SingleOps, PushOps, PopOps
<1>2. o \in Object /\ o # Nil
  BY FineLemma
<1>3. queue' \in [Queues -> Object \cup {Nil}] /\ alive' = alive
  BY <1>1, <1>2 DEF IInv, Control, Types, alive
<1>4. FineTemporary(t, e)' /\ FineHalves(t, e)'
  BY DEF FineTemporary, FineHalves
<1>5. queue'[q] = o /\ \A p \in Queues \ {q} : queue'[p] = queue[p]
  BY <1>1 DEF IInv, Control, Types
<1>6. \A u \in Threads \ {t} : pc[u] = "half" => Shared(u) \cap {q} = {}
  BY HalfOwns, NilAssumption DEF IInv
<1>7. {q} \in SUBSET Queues
  BY <1>1
<1>8. e => NoRawDestroyed'
  BY DEF IInv, Whole, NoRawDestroyed
<1>9. \A u \in Threads \ {t} : temporary'[u] = temporary[u]
  OBVIOUS
<1> HIDE DEF q
<1>10. Whole(e)'
  <2>1. \A p \in {q} : p \in alive' => Torn(p)' \/ Fine(queue'[p], e)
    BY <1>5
  <2>2. \A p \in Queues \ {q} : queue'[p] = queue[p]
    BY <1>5
  <2>3. pc[t] = "half" => Shared(t) \subseteq {q}
    OBVIOUS
  <2>4. \A u \in Threads \ {t} : /\ temporary'[u] = temporary[u]
                                  /\ pc[u] = "half" => Shared(u) \cap {q} = {}
    BY <1>6, <1>9
  <2> QED
    BY <1>4, <1>7, <1>8, <2>1, <2>2, <2>3, <2>4, WholeKept
<1> QED
  BY <1>3, <1>10 DEF IInv, Control, Types, ObjectsStep, Lifecycle

LEMMA PushObjects ==
  ASSUME NEW e \in BOOLEAN, IInv(e), NEW t \in Threads, Push(t) \/ Pop(t)
  PROVE  ObjectsStep(t, e)
<1> DEFINE q == call[t].q
           o == queue[q]
<1>1. Within(t)
  BY WithinLemma DEF IInv, Inner
<1>2. pc[t] \in {"lock", "relock"} /\ m_mutex[q] = Nil
  BY DEF Push, Pop, Locks
<1>3. call[t] \in CallRecord /\ q \in alive
  BY <1>2 DEF IInv, Control, Types, AtPlace, Exist, OwningOps, SingleOps, PushOps, PopOps
<1>4. Fine(o, e)
  BY <1>2, <1>3, FreeLemma
<1>5. Shape(o, Counted) /\ Nil \notin Counted
  BY <1>4, NilAssumption DEF Fine
<1>6. pc'[t] = "return"
  BY <1>2, <1>3, NotifyLemma, CallsLemma DEF Push, Pop, IInv
<1>7. CASE Push(t)
  <2>1. /\ call[t].elem \in Counted /\ ~do_full(o)
        /\ queue' = [queue EXCEPT ![q] = do_push(o, call[t].elem)]
    BY <1>3, <1>7, CallsLemma DEF Push, Ready, Counted, IInv, Control, Types, alive
  <2>3. Fine(do_push(o, call[t].elem), e)
    BY <1>4, <2>1, FinePush
  <2> QED
    BY <1>1, <1>2, <1>6, <1>7, <2>1, <2>3, OneObject DEF Push, histories
<1>8. CASE Pop(t)
  <2>1. ~do_empty(o) /\ queue' = [queue EXCEPT ![q] = do_pop(o)]
    BY <1>3, <1>8 DEF Pop, Ready, PushOps, PopOps, IInv, Control, Types, alive
  <2>2. Fine(do_pop(o), e)
    BY <1>4, <1>5, <2>1, do_popLemma DEF Fine
  <2> QED
    BY <1>1, <1>2, <1>6, <1>8, <2>1, <2>2, OneObject DEF Pop, histories
<1> QED
  BY <1>7, <1>8

\* A push that fails counts its slot, a pop that fails does its work or nothing.
LEMMA FailsObjects ==
  ASSUME NEW e \in BOOLEAN, IInv(e), NEW t \in Threads, PushFails(t) \/ PopFails(t)
  PROVE  ObjectsStep(t, e)
<1>1. Within(t)
  BY WithinLemma DEF IInv, Inner
<1>2. /\ pc[t] \in {"lock", "relock"} /\ m_mutex[call[t].q] = Nil
      /\ UNCHANGED <<temporary, misused>> /\ Goto(t, "return")
  BY DEF PushFails, PopFails, Fail, Finish, Locks
<1>3. pc'[t] = "return"
  BY <1>2, GotoLemma DEF IInv, Control, Places
<1>4. PICK q, o : q = call[t].q /\ o = queue[q]
  OBVIOUS
<1>5. q \in alive
  BY <1>2, <1>4 DEF IInv, Control, AtPlace, Exist, OwningOps, SingleOps, PushOps, PopOps
<1>6. Fine(o, e) /\ Nil \notin Counted
  BY <1>2, <1>4, <1>5, FreeLemma, NilAssumption
<1>7. CASE PushFails(t)
  <2>1. ~do_full(o) /\ queue' = [queue EXCEPT ![q] = do_push(o, Unmade)]
    BY <1>4, <1>5, <1>7 DEF PushFails, Ready
  <2>2. Fine(do_push(o, Unmade), e)
    BY <1>6, <2>1, FinePush DEF Counted
  <2> QED
    BY <1>1, <1>2, <1>3, <1>4, <2>1, <2>2, OneObject
<1>8. CASE PopFails(t) /\ queue' # queue
  <2>1. ~do_empty(o) /\ queue' = [queue EXCEPT ![q] = do_pop(o)]
    BY <1>4, <1>5, <1>8 DEF PopFails, Ready, PushOps, PopOps
  <2>2. Fine(do_pop(o), e)
    BY <1>6, <2>1, do_popLemma DEF Fine
  <2> QED
    BY <1>1, <1>2, <1>3, <1>4, <2>1, <2>2, OneObject
<1>9. CASE queue' = queue
  BY <1>1, <1>2, <1>3, <1>9, ObjectsUntouched
<1> QED
  BY <1>7, <1>8, <1>9

LEMMA ReadObjects ==
  ASSUME NEW e \in BOOLEAN, IInv(e), NEW t \in Threads, ReadCapacity(t)
  PROVE  ObjectsStep(t, e)
<1> DEFINE p == call[t].other
           n == queue[p].m_maximumSize
<1>1. Within(t)
  BY WithinLemma DEF IInv, Inner
<1>2. p \in alive /\ queue[p] \in Object /\ pc[t] = "read"
  <2>1. pc[t] = "read" /\ p \in Queues
    BY CallsLemma DEF ReadCapacity, IInv, Control, Types, AtPlace
  <2>2. p \in alive
    BY <2>1, NilAssumption DEF IInv, Control, Exist
  <2> QED
    BY <2>1, <2>2 DEF IInv, Control, Types, alive
<1>3. n \in Capacities
  BY <1>2 DEF Object
<1>4. /\ \A u \in Threads \ {t} : temporary'[u] = temporary[u]
      /\ temporary' \in [Threads -> Object \cup {Nil}]
      /\ FineTemporary(t, e)' /\ FineHalves(t, e)'
  <2>1. CASE n = 0
    <3>1. pc'[t] = "return"
      BY <2>1, GotoLemma DEF ReadCapacity, Finish, IInv, Control, Places
    <3> QED
      BY <2>1, <3>1 DEF ReadCapacity, FineTemporary, FineHalves, IInv, Control, Types
  <2>2. CASE n # 0
    <3>1. pc'[t] = "copy" /\ temporary' = [temporary EXCEPT ![t] = Allocated(n)]
      BY <2>2, GotoLemma DEF ReadCapacity, IInv, Control, Places
    <3>2. Allocated(n) \in Object
      BY <1>3, FreshLemma, FineLemma
    <3> QED
      BY <1>3, <2>2, <3>1, <3>2 DEF FineTemporary, FineHalves, IInv, Control, Types
  <2> QED
    BY <2>1, <2>2
<1>5. queue' = queue /\ misused' = misused
  BY DEF ReadCapacity, histories
<1>6. Whole(e)'
  <2>1. e => NoRawDestroyed'
    BY <1>5 DEF IInv, Whole, NoRawDestroyed
  <2>2. pc[t] # "half"
    BY <1>2
  <2> QED
    BY <1>1, <1>4, <1>5, <2>1, <2>2, WholeUntouched
<1> QED
  BY <1>4, <1>5, <1>6 DEF IInv, Control, Types, ObjectsStep, Lifecycle, alive

\* What the copy constructor leaves in the new object.
LEMMA CopiedLemma ==
  ASSUME NEW t \in Threads, NEW N \in Nat \ {0}, temporary[t] = Allocated(N),
         NEW original, original = queue[call[t].other], Shape(original, Counted),
         NEW n \in 0 .. original.m_size
  PROVE  /\ Shape(Copied(t, n), Counted)
         /\ Copied(t, n).m_maximumSize = N
         /\ Copied(t, n).m_size = n
         /\ WellFormed(original) /\ n <= N =>
              /\ WellFormed(Copied(t, n))
              /\ Contents(Copied(t, n)) = [i \in 1 .. n |-> Contents(original)[i]]
<1> DEFINE made == CHOOSE f : Filling(original, Allocated(N), n, f)
<1>1. n \in Nat
  BY ShapeNumbers
<1>2. Filling(original, Allocated(N), n, made)
  BY <1>1, FillingExists
<1>3. Copied(t, n) = made[n]
  BY DEF Copied, Filling
<1> HIDE DEF made
<1>4. Nil \notin Counted
  BY NilAssumption
<1>5. /\ Shape(made[n], Counted)
      /\ made[n].m_maximumSize = N
      /\ made[n].m_size = n
      /\ WellFormed(original) /\ n <= N =>
           /\ WellFormed(made[n])
           /\ Contents(made[n]) = [i \in 1 .. n |-> Contents(original)[i]]
  <2>1. PICK m : m = made
    OBVIOUS
  <2>2. Filling(original, Allocated(N), n, m)
    BY <1>2, <2>1
  <2>3. \A E : Nil \notin E /\ Shape(original, E) =>
          /\ Shape(m[n], E)
          /\ m[n].m_maximumSize = N
          /\ m[n].m_size = n
          /\ WellFormed(original) /\ n <= N =>
               /\ WellFormed(m[n])
               /\ Contents(m[n]) = [i \in 1 .. n |-> Contents(original)[i]]
    BY <2>2, FillingLemma
  <2> QED
    BY <1>4, <2>1, <2>3
<1> QED
  BY <1>3, <1>5

LEMMA CopyObjects ==
  ASSUME NEW e \in BOOLEAN, IInv(e), e => CopiesFit, NEW t \in Threads, CopyElements(t)
  PROVE  ObjectsStep(t, e)
<1> DEFINE p == call[t].other
           q == call[t].q
           copied == Copied(t, queue[p].m_size)
<1>1. Within(t)
  BY WithinLemma DEF IInv, Inner
<1>2. /\ pc[t] = "copy" /\ m_mutex[p] = Nil
      /\ Deliver(t, copied)
      /\ UNCHANGED <<call, misused>>
  BY DEF CopyElements, histories
<1>3. p \in alive /\ q \in Queues /\ call[t] \in CallRecord /\ call[t].op \in CopyOps
  <2>1. pc[t] = "copy" /\ Control
    BY <1>2 DEF IInv
  <2> QED
    BY <2>1, InCall
<1>4. PICK N \in Capacities \ {0} : temporary[t] = Allocated(N)
  BY <1>2 DEF IInv, Whole, FineTemporary
<1>5. N \in Nat \ {0} /\ temporary[t].m_maximumSize = N
  BY <1>4, AllocatedCapacity
<1>6. Fine(queue[p], e) /\ queue[p].m_size \in 0 .. queue[p].m_size
  <2>1. Fine(queue[p], e)
    BY <1>2, <1>3, FreeLemma
  <2>2. Shape(queue[p], Counted)
    BY <2>1 DEF Fine
  <2> QED
    BY <2>1, <2>2, ShapeNumbers
<1>7. e => queue[p].m_size <= N
  BY <1>2, <1>5 DEF CopiesFit
<1>8. Fine(copied, e)
  BY <1>4, <1>5, <1>6, <1>7, CopiedLemma DEF Fine
<1>9. copied \in Object /\ copied # Nil
  BY <1>8, FineLemma
<1> HIDE DEF copied
<1>10. e => NoRawDestroyed'
  BY <1>2 DEF IInv, Whole, NoRawDestroyed
<1>11. CASE call[t].op = "copy_construct"
  <2>1. /\ queue' = [queue EXCEPT ![q] = copied]
        /\ temporary' = [temporary EXCEPT ![t] = Nil]
        /\ pc'[t] = "return"
    BY <1>2, <1>11, GotoLemma DEF Deliver, Finish, IInv, Control, Places
  <2>2. /\ queue' \in [Queues -> Object \cup {Nil}] /\ alive' = alive \cup {q}
        /\ temporary' \in [Threads -> Object \cup {Nil}]
        /\ \A u \in Threads \ {t} : temporary'[u] = temporary[u]
        /\ queue'[q] = copied /\ \A r \in Queues \ {q} : queue'[r] = queue[r]
    BY <1>3, <1>9, <2>1 DEF IInv, Control, Types, alive
  <2>3. ASSUME NEW u \in Threads \ {t}, pc[u] = "half"
        PROVE  Shared(u) \cap {q} = {}
    <3>1. q \notin Involved(call[u]) /\ q # Nil
      BY <1>3, <1>11, CallsLemma DEF IInv, Control, Exist, OwningOps
    <3>2. Shared(u) \subseteq {call[u].q, call[u].other}
      BY DEF Shared
    <3> QED
      BY <3>1, <3>2 DEF Involved
  <2>4. FineTemporary(t, e)' /\ FineHalves(t, e)'
    BY <2>1 DEF FineTemporary, FineHalves
  <2>5. Whole(e)'
    <3>1. {q} \in SUBSET Queues
      BY <1>3
    <3> QED
      BY <1>1, <1>2, <1>8, <1>10, <2>2, <2>3, <2>4, <3>1, WholeKept
  <2> QED
    BY <1>2, <1>11, <2>1, <2>2, <2>5
       DEF ObjectsStep, Lifecycle, ConstructOps, OwningOps, IInv, Control, Types
<1>12. CASE call[t].op # "copy_construct"
  <2>1. /\ queue' = queue
        /\ temporary' = [temporary EXCEPT ![t] = copied]
        /\ pc'[t] = "claim"
    BY <1>2, <1>12, GotoLemma DEF Deliver, IInv, Control, Places
  <2>2. /\ temporary' \in [Threads -> Object \cup {Nil}] /\ temporary'[t] = copied
        /\ \A u \in Threads \ {t} : temporary'[u] = temporary[u]
    BY <1>9, <2>1 DEF IInv, Control, Types
  <2>3. FineTemporary(t, e)' /\ FineHalves(t, e)'
    BY <1>2, <1>3, <1>8, <2>1, <2>2 DEF FineTemporary, FineHalves, CopyOps
  <2>4. Whole(e)'
    <3>1. pc[t] # "half"
      BY <1>2
    <3> QED
      BY <1>1, <1>10, <2>1, <2>2, <2>3, <3>1, WholeUntouched
  <2> QED
    BY <1>2, <2>1, <2>2, <2>4 DEF ObjectsStep, Lifecycle, alive, IInv, Control, Types
<1> QED
  BY <1>11, <1>12

LEMMA CopyThrowsObjects ==
  ASSUME NEW e \in BOOLEAN, IInv(e), e => CopiesFit, NEW t \in Threads,
         NEW k \in Nat, CopyThrows(t, k)
  PROVE  ObjectsStep(t, e)
<1>1. Within(t)
  BY WithinLemma DEF IInv, Inner
<1>2. /\ queue' = queue /\ temporary' = [temporary EXCEPT ![t] = Nil]
      /\ Destroyed("unfinished copy", do_push(Copied(t, k - 1), Unmade))
      /\ pc[t] = "copy" /\ pc'[t] = "return"
      /\ m_mutex[call[t].other] = Nil /\ k \in 1 .. queue[call[t].other].m_size
  BY GotoLemma DEF CopyThrows, Finish, IInv, Control, Places
<1>3. /\ temporary' \in [Threads -> Object \cup {Nil}]
      /\ \A u \in Threads \ {t} : temporary'[u] = temporary[u]
  BY <1>2 DEF IInv, Control, Types
<1>4. FineTemporary(t, e)' /\ FineHalves(t, e)'
  BY <1>2 DEF FineTemporary, FineHalves
<1>5. e => ~MeetsRawStorage(do_push(Copied(t, k - 1), Unmade))
  <2> SUFFICES ASSUME e PROVE ~MeetsRawStorage(do_push(Copied(t, k - 1), Unmade))
    OBVIOUS
  <2>1. PICK p, o, c : p = call[t].other /\ o = queue[p] /\ c = Copied(t, k - 1)
    OBVIOUS
  <2>2. p \in alive
    BY <1>2, <2>1, InCall DEF IInv
  <2>3. PICK N \in Capacities \ {0} : temporary[t] = Allocated(N)
    BY <1>2 DEF IInv, Whole, FineTemporary
  <2>4. N \in Nat \ {0} /\ temporary[t].m_maximumSize = N
    BY <2>3, AllocatedCapacity
  <2>5. Shape(o, Counted) /\ WellFormed(o) /\ o.m_size \in Nat
    <3>1. Fine(o, e)
      BY <1>2, <2>1, <2>2, FreeLemma
    <3> QED
      BY <3>1, ShapeNumbers DEF Fine
  <2>6. o.m_size <= N
    BY <1>2, <2>1, <2>4 DEF CopiesFit
  <2>7. k - 1 \in 0 .. o.m_size /\ k - 1 < N /\ k - 1 <= N
    <3>1. k \in 1 .. o.m_size
      BY <1>2, <2>1
    <3>2. o.m_size \in Nat /\ o.m_size <= N /\ N \in Nat
      BY <2>4, <2>5, <2>6
    <3> QED
      BY <3>1, <3>2
  <2>8. /\ Shape(c, Counted) /\ c.m_maximumSize = N /\ c.m_size = k - 1
        /\ WellFormed(c)
    BY <2>1, <2>3, <2>4, <2>5, <2>7, CopiedLemma
  <2>9. Fine(c, e) /\ ~do_full(c)
    BY <2>3, <2>4, <2>7, <2>8 DEF Fine, do_full
  <2>10. Fine(do_push(c, Unmade), e)
    BY <2>9, FinePush DEF Counted
  <2> QED
    BY <2>1, <2>10, DestructorLemma DEF Fine
<1>6. /\ misused' \subseteq misused \cup {"unfinished copy"}
      /\ e => NoRawDestroyed'
  BY <1>2, <1>5 DEF Destroyed, IInv, Whole, NoRawDestroyed
<1>7. Whole(e)'
  BY <1>1, <1>2, <1>3, <1>4, <1>6, WholeUntouched
<1> QED
  BY <1>2, <1>3, <1>6, <1>7 DEF ObjectsStep, Lifecycle, alive, IInv, Control, Types

\* The halves of an exchange.
LEMMA HalvesLemma ==
  ASSUME NEW o \in Object, NEW p \in Object
  PROVE  /\ WithIndices(o, p) \in Object
         /\ WithStorage(o, p) = WithIndices(p, o)
         /\ WithIndices(WithIndices(o, p), WithIndices(p, o)) = o
<1>1. WithIndices(o, p) \in Object
  BY DEF WithIndices, Object
<1>2. WithStorage(o, p) = WithIndices(p, o)
  BY DEF WithIndices, WithStorage, Object
<1>3. WithIndices(WithIndices(o, p), WithIndices(p, o)) = o
  BY DEF WithIndices, Object
<1> QED
  BY <1>1, <1>2, <1>3

\* The two objects of an exchange, and where they are.
LEMMA OursLemma ==
  ASSUME Control, NEW t \in Threads, pc[t] \in {"swap", "half"}
  PROVE  /\ call[t] \in CallRecord /\ call[t].op \in ExchangeOps
         /\ call[t].q \in Queues /\ call[t].other \in Queues /\ call[t].q # call[t].other
         /\ Shared(t) \subseteq alive /\ Shared(t) \subseteq Queues
         /\ \A q \in Shared(t) : m_mutex[q] = t
<1>1. call[t] \in CallRecord /\ call[t].op \in ExchangeOps /\ call[t].q # call[t].other
  BY DEF Control, Types, AtPlace, Exchanging
<1>2. call[t].q \in Queues /\ call[t].other \in Queues /\ call[t].other # Nil
  BY <1>1, CallsLemma DEF ExchangeOps, CopyOps, SwapOps
<1>3. call[t].other \in alive
  BY <1>2 DEF Control, Exist
<1>4. call[t].op # "move_construct" => call[t].q \in alive
  BY <1>1 DEF Control, Exist, ExchangeOps, SwapOps, OwningOps
<1>5. Shared(t) \subseteq alive
  BY <1>3, <1>4 DEF Shared
<1>6. \A q \in Shared(t) : m_mutex[q] = t
  BY DEF Control, Owns
<1> QED
  BY <1>1, <1>2, <1>5, <1>6 DEF alive

LEMMA BecomeLemma ==
  ASSUME Control, NEW t \in Threads, pc[t] \in {"swap", "half"}, call' = call,
         NEW o \in Object, NEW p \in Object, Become(t, o, p)
  PROVE  /\ queue' \in [Queues -> Object \cup {Nil}]
         /\ temporary' \in [Threads -> Object \cup {Nil}]
         /\ alive' = alive
         /\ Ours(t)' = o /\ Theirs(t)' = p
         /\ \A q \in Queues \ Shared(t) : queue'[q] = queue[q]
         /\ \A q \in Shared(t) : queue'[q] \in {o, p}
         /\ \A u \in Threads \ {t} : temporary'[u] = temporary[u]
         /\ call[t].op = "copy_assign" => temporary'[t] = p
         /\ call[t].op = "move_construct" => temporary'[t] = o
<1> DEFINE q == call[t].q
           r == call[t].other
<1>1. /\ call[t].op \in ExchangeOps /\ q \in Queues /\ r \in Queues /\ q # r
      /\ Shared(t) \subseteq alive
  BY OursLemma
<1>2. o # Nil /\ p # Nil
  BY NilAssumption
<1>3. queue \in [Queues -> Object \cup {Nil}] /\ temporary \in [Threads -> Object \cup {Nil}]
  BY DEF Control, Types
<1> HIDE DEF q, r
<1>4. CASE call[t].op = "copy_assign"
  <2>1. /\ queue' = [queue EXCEPT ![q] = o] /\ temporary' = [temporary EXCEPT ![t] = p]
        /\ Shared(t) = {q}
    BY <1>4 DEF Become, Shared, q
  <2>2. Ours(t)' = queue'[q] /\ Theirs(t)' = temporary'[t]
    BY <1>4 DEF Ours, Theirs, q
  <2> QED
    BY <1>1, <1>2, <1>3, <1>4, <2>1, <2>2 DEF alive
<1>5. CASE call[t].op = "move_construct"
  <2>1. /\ queue' = [queue EXCEPT ![r] = p] /\ temporary' = [temporary EXCEPT ![t] = o]
        /\ Shared(t) = {r}
    BY <1>5 DEF Become, Shared, r
  <2>2. Ours(t)' = temporary'[t] /\ Theirs(t)' = queue'[r]
    BY <1>5 DEF Ours, Theirs, r
  <2> QED
    BY <1>1, <1>2, <1>3, <1>5, <2>1, <2>2 DEF alive
<1>6. CASE call[t].op \in {"swap", "move_assign"}
  <2>1. /\ queue' = [queue EXCEPT ![q] = o, ![r] = p] /\ temporary' = temporary
        /\ Shared(t) = {q, r}
    BY <1>6 DEF Become, Shared, q, r
  <2>2. Ours(t)' = queue'[q] /\ Theirs(t)' = queue'[r]
    BY <1>6 DEF Ours, Theirs, q, r
  <2>3. queue'[q] = o /\ queue'[r] = p /\ \A x \in Queues \ {q, r} : queue'[x] = queue[x]
    BY <1>1, <1>3, <2>1
  <2> QED
    BY <1>1, <1>2, <1>3, <1>6, <2>1, <2>2, <2>3 DEF alive
<1> QED
  BY <1>1, <1>4, <1>5, <1>6 DEF ExchangeOps, SwapOps

LEMMA PartsLemma ==
  ASSUME NEW e \in BOOLEAN, IInv(e), NEW t \in Threads, pc[t] \in {"swap", "half"}
  PROVE  /\ Ours(t) \in Object /\ Theirs(t) \in Object
         /\ pc[t] = "swap" => Fine(Ours(t), e) /\ Fine(Theirs(t), e)
<1> DEFINE q == call[t].q
           r == call[t].other
<1>1. /\ call[t].op \in ExchangeOps /\ Shared(t) \subseteq alive
      /\ \A x \in Shared(t) : m_mutex[x] = t
  BY OursLemma DEF IInv
<1>2. /\ call[t].op # "move_construct" => q \in Shared(t)
      /\ call[t].op # "copy_assign" => r \in Shared(t)
  BY <1>1 DEF Shared, ExchangeOps, SwapOps
<1>3. \A x \in alive : queue[x] \in Object
  BY DEF IInv, Control, Types, alive
<1>4. CASE pc[t] = "swap"
  <2>1. \A x \in Shared(t) : ~Torn(x)
    BY <1>1, <1>4, HalfOwns DEF Torn, IInv
  <2>2. \A x \in Shared(t) : Fine(queue[x], e)
    BY <1>1, <2>1 DEF IInv, Whole
  <2>3. call[t].op = "copy_assign" => Fine(temporary[t], e)
    BY <1>4 DEF IInv, Whole, FineTemporary
  <2>4. call[t].op = "move_construct" => Fine(temporary[t], e)
    BY <1>4, FreshLemma, CapacitiesLemma DEF IInv, Whole, FineTemporary
  <2>5. Fine(Ours(t), e) /\ Fine(Theirs(t), e)
    BY <1>2, <2>2, <2>3, <2>4 DEF Ours, Theirs
  <2> QED
    BY <1>4, <2>5, FineLemma
<1>5. CASE pc[t] = "half"
  BY <1>5 DEF IInv, Whole, FineHalves
<1> QED
  BY <1>4, <1>5

LEMMA SwapIndicesObjects ==
  ASSUME NEW e \in BOOLEAN, IInv(e), NEW t \in Threads, SwapIndices(t)
  PROVE  ObjectsStep(t, e)
<1> DEFINE o == Ours(t)
           p == Theirs(t)
<1>1. /\ pc[t] = "swap" /\ call' = call /\ misused' = misused
      /\ Become(t, WithIndices(o, p), WithIndices(p, o))
  BY DEF SwapIndices, histories
<1>2. Within(t) /\ pc'[t] = "half"
  BY WithinLemma, GotoLemma DEF SwapIndices, IInv, Control, Inner, Places, Exchanging
<1>3. o \in Object /\ p \in Object /\ Fine(o, e) /\ Fine(p, e)
  BY <1>1, PartsLemma
<1>4. /\ WithIndices(o, p) \in Object /\ WithIndices(p, o) \in Object
      /\ WithIndices(WithIndices(o, p), WithIndices(p, o)) = o
      /\ WithIndices(WithIndices(p, o), WithIndices(o, p)) = p
  BY <1>3, HalvesLemma
<1> HIDE DEF o, p
<1>5. /\ queue' \in [Queues -> Object \cup {Nil}]
      /\ temporary' \in [Threads -> Object \cup {Nil}]
      /\ alive' = alive
      /\ Ours(t)' = WithIndices(o, p) /\ Theirs(t)' = WithIndices(p, o)
      /\ \A q \in Queues \ Shared(t) : queue'[q] = queue[q]
      /\ \A u \in Threads \ {t} : temporary'[u] = temporary[u]
  BY <1>1, <1>4, BecomeLemma DEF IInv
<1>6. FineTemporary(t, e)' /\ FineHalves(t, e)'
  BY <1>2, <1>3, <1>4, <1>5 DEF FineTemporary, FineHalves
<1>7. Shared(t) \in SUBSET Queues /\ \A q \in Shared(t) : m_mutex[q] = t
  BY <1>1, OursLemma DEF IInv
<1>8. \A q \in Shared(t) : Torn(q)'
  BY <1>1, <1>2 DEF Torn, Shared
<1>9. \A u \in Threads \ {t} : pc[u] = "half" => Shared(u) \cap Shared(t) = {}
  BY <1>7, HalfOwns DEF IInv
<1>10. e => NoRawDestroyed'
  BY <1>1 DEF IInv, Whole, NoRawDestroyed
<1>11. Whole(e)'
  BY <1>1, <1>2, <1>5, <1>6, <1>7, <1>8, <1>9, <1>10, WholeKept
<1> QED
  BY <1>1, <1>5, <1>11 DEF ObjectsStep, Lifecycle, IInv, Control, Types

LEMMA SwapStorageObjects ==
  ASSUME NEW e \in BOOLEAN, IInv(e), NEW t \in Threads, SwapStorage(t)
  PROVE  ObjectsStep(t, e)
<1> DEFINE o == Ours(t)
           p == Theirs(t)
<1>1. /\ pc[t] = "half" /\ call' = call /\ misused' = misused
      /\ Become(t, WithStorage(o, p), WithStorage(p, o))
  BY DEF SwapStorage, histories
<1>2. Within(t) /\ pc'[t] = "leave"
  BY WithinLemma, GotoLemma DEF SwapStorage, IInv, Control, Inner, Places
<1>3. o \in Object /\ p \in Object /\ Fine(WithIndices(o, p), e) /\ Fine(WithIndices(p, o), e)
  BY <1>1 DEF IInv, Whole, FineHalves
<1>4. /\ WithStorage(o, p) = WithIndices(p, o) /\ WithStorage(p, o) = WithIndices(o, p)
      /\ WithIndices(o, p) \in Object /\ WithIndices(p, o) \in Object
  BY <1>3, HalvesLemma
<1> HIDE DEF o, p
<1>5. /\ queue' \in [Queues -> Object \cup {Nil}]
      /\ temporary' \in [Threads -> Object \cup {Nil}]
      /\ alive' = alive
      /\ \A q \in Queues \ Shared(t) : queue'[q] = queue[q]
      /\ \A q \in Shared(t) : queue'[q] \in {WithIndices(p, o), WithIndices(o, p)}
      /\ \A u \in Threads \ {t} : temporary'[u] = temporary[u]
      /\ call[t].op = "copy_assign" => temporary'[t] = WithIndices(o, p)
      /\ call[t].op = "move_construct" => temporary'[t] = WithIndices(p, o)
  BY <1>1, <1>4, BecomeLemma DEF IInv
<1>6. FineTemporary(t, e)' /\ FineHalves(t, e)'
  BY <1>1, <1>2, <1>3, <1>5 DEF FineTemporary, FineHalves
<1>7. Shared(t) \in SUBSET Queues /\ \A q \in Shared(t) : m_mutex[q] = t
  BY <1>1, OursLemma DEF IInv
<1>8. \A q \in Shared(t) : Fine(queue'[q], e)
  BY <1>3, <1>5
<1>9. \A u \in Threads \ {t} : pc[u] = "half" => Shared(u) \cap Shared(t) = {}
  BY <1>7, HalfOwns DEF IInv
<1>10. e => NoRawDestroyed'
  BY <1>1 DEF IInv, Whole, NoRawDestroyed
<1>11. Whole(e)'
  BY <1>2, <1>5, <1>6, <1>7, <1>8, <1>9, <1>10, WholeKept
<1> QED
  BY <1>1, <1>5, <1>11 DEF ObjectsStep, Lifecycle, IInv, Control, Types

\* The queue that t constructs or destroys is in no exchange of another thread.
LEMMA OwnLemma ==
  ASSUME Control, NEW t \in Threads, call[t] \in CallRecord, call[t].op \in OwningOps
  PROVE  \A u \in Threads \ {t} : Shared(u) \cap {call[t].q} = {}
<1>1. call[t].q # Nil /\ \A u \in Threads \ {t} : call[t].q \notin Involved(call[u])
  BY CallsLemma DEF Control, Exist
<1>2. \A u \in Threads : Shared(u) \subseteq {call[u].q, call[u].other}
  BY DEF Shared
<1> QED
  BY <1>1, <1>2 DEF Involved

LEMMA LeavingObjects ==
  ASSUME NEW e \in BOOLEAN, IInv(e), NEW t \in Threads, Leaving(t)
  PROVE  ObjectsStep(t, e)
<1> DEFINE q == call[t].q
           o == temporary[t]
<1>1. /\ pc[t] = "leave" /\ call' = call
      /\ temporary' = [temporary EXCEPT ![t] = Nil]
      /\ IF call[t].op = "move_construct" THEN queue' = [queue EXCEPT ![q] = o]
                                          ELSE queue' = queue
      /\ IF call[t].op = "copy_assign" THEN Destroyed("temporary", o) ELSE misused' = misused
  BY DEF Leaving
<1>2. Within(t) /\ pc'[t] = "return"
  BY WithinLemma, GotoLemma DEF Leaving, IInv, Control, Inner, Places
<1>3. call[t].op \in {"copy_assign", "move_construct"} => Fine(o, e) /\ o \in Object /\ o # Nil
  BY <1>1, FineLemma DEF IInv, Whole, FineTemporary
<1>4. call[t] \in CallRecord /\ q \in Queues
  BY <1>1, CallsLemma DEF IInv, Control, Types, AtPlace
<1> HIDE DEF o
<1>5. /\ queue' \in [Queues -> Object \cup {Nil}]
      /\ temporary' \in [Threads -> Object \cup {Nil}]
      /\ alive' = IF call[t].op = "move_construct" THEN alive \cup {q} ELSE alive
      /\ call[t].op = "move_construct" => queue'[q] = o
      /\ \A x \in Queues \ {q} : queue'[x] = queue[x]
      /\ \A u \in Threads \ {t} : temporary'[u] = temporary[u]
  <2> HIDE DEF q
  <2>1. queue \in [Queues -> Object \cup {Nil}] /\ temporary \in [Threads -> Object \cup {Nil}]
    BY DEF IInv, Control, Types
  <2>2. /\ temporary' \in [Threads -> Object \cup {Nil}]
        /\ \A u \in Threads \ {t} : temporary'[u] = temporary[u]
    BY <1>1, <2>1
  <2>3. CASE call[t].op = "move_construct"
    <3>1. /\ queue' \in [Queues -> Object \cup {Nil}] /\ queue'[q] = o
          /\ \A x \in Queues \ {q} : queue'[x] = queue[x]
      BY <1>1, <1>3, <1>4, <2>1, <2>3
    <3>2. alive' = alive \cup {q}
      BY <1>3, <1>4, <2>3, <3>1 DEF alive
    <3> QED
      BY <2>2, <2>3, <3>1, <3>2
  <2>4. CASE call[t].op # "move_construct"
    BY <1>1, <2>1, <2>2, <2>4 DEF alive
  <2> QED
    BY <2>3, <2>4
<1>6. FineTemporary(t, e)' /\ FineHalves(t, e)'
  BY <1>2 DEF FineTemporary, FineHalves
<1>7. /\ misused' \subseteq misused \cup {"temporary"}
      /\ e => NoRawDestroyed'
  <2>1. e /\ call[t].op = "copy_assign" => ~MeetsRawStorage(o)
    BY <1>3, DestructorLemma DEF Fine
  <2> QED
    BY <1>1, <2>1 DEF Destroyed, IInv, Whole, NoRawDestroyed
<1>8. CASE call[t].op = "move_construct"
  <2>1. \A u \in Threads \ {t} : pc[u] = "half" => Shared(u) \cap {q} = {}
    BY <1>4, <1>8, OwnLemma DEF IInv, OwningOps
  <2>2. pc[t] # "half" /\ {q} \in SUBSET Queues
    BY <1>1, <1>4
  <2>3. Fine(queue'[q], e)
    BY <1>3, <1>5, <1>8
  <2>4. Whole(e)'
    BY <1>2, <1>5, <1>6, <1>7, <2>1, <2>2, <2>3, WholeKept
  <2> QED
    BY <1>1, <1>2, <1>5, <1>7, <1>8, <2>4
       DEF ObjectsStep, Lifecycle, ConstructOps, OwningOps, IInv, Control, Types
<1>9. CASE call[t].op # "move_construct"
  <2>1. pc[t] # "half" /\ \A x \in Queues : queue'[x] = queue[x]
    BY <1>1, <1>9
  <2>2. Whole(e)'
    BY <1>2, <1>5, <1>6, <1>7, <2>1, WholeKept, {} \in SUBSET Queues
  <2> QED
    BY <1>5, <1>7, <1>9, <2>2 DEF ObjectsStep, Lifecycle, IInv, Control, Types
<1> QED
  BY <1>8, <1>9

LEMMA DestroyObjects ==
  ASSUME NEW e \in BOOLEAN, IInv(e), NEW t \in Threads, Destroy(t)
  PROVE  ObjectsStep(t, e)
<1> DEFINE q == call[t].q
           o == queue[q]
<1>1. /\ pc[t] = "destroy" /\ call' = call /\ temporary' = temporary
      /\ queue' = [queue EXCEPT ![q] = Nil]
      /\ Destroyed("queue", o)
  BY DEF Destroy
<1>2. Within(t) /\ pc'[t] = "return"
  BY WithinLemma, GotoLemma DEF Destroy, Finish, IInv, Control, Inner, Places
<1>3. call[t] \in CallRecord /\ call[t].op = "destroy" /\ q \in alive /\ q \in Queues
  BY <1>1 DEF IInv, Control, Types, AtPlace, Exist, alive
<1>4. /\ queue' \in [Queues -> Object \cup {Nil}]
      /\ alive' = alive \ {q} /\ q \notin alive'
      /\ \A x \in Queues \ {q} : queue'[x] = queue[x]
  BY <1>1, <1>3 DEF IInv, Control, Types, alive
<1>5. \A u \in Threads \ {t} : Shared(u) \cap {q} = {}
  BY <1>3, OwnLemma DEF IInv, OwningOps
<1>6. Fine(o, e)
  <2>1. ~Torn(q)
    BY <1>1, <1>5 DEF Torn
  <2> QED
    BY <1>3, <2>1 DEF IInv, Whole
<1>7. /\ misused' \subseteq misused \cup {"queue"}
      /\ e => NoRawDestroyed'
  <2>1. e => ~MeetsRawStorage(o)
    BY <1>6, DestructorLemma DEF Fine
  <2> QED
    BY <1>1, <2>1 DEF Destroyed, IInv, Whole, NoRawDestroyed
<1>8. FineTemporary(t, e)' /\ FineHalves(t, e)'
  BY <1>2 DEF FineTemporary, FineHalves
<1>9. Whole(e)'
  <2>1. {q} \in SUBSET Queues /\ pc[t] # "half"
    BY <1>1, <1>3
  <2>2. \A u \in Threads \ {t} : temporary'[u] = temporary[u]
    BY <1>1
  <2> HIDE DEF q
  <2> QED
    BY <1>2, <1>4, <1>5, <1>7, <1>8, <2>1, <2>2, WholeKept
<1> QED
  BY <1>1, <1>2, <1>4, <1>7, <1>9 DEF ObjectsStep, Lifecycle, IInv, Control, Types

LEMMA InnerObjects ==
  ASSUME NEW e \in BOOLEAN, IInv(e), e => CopiesFit, NEW t \in Threads, Inner(t)
  PROVE  ObjectsStep(t, e)
<1>0. Within(t)
  BY WithinLemma DEF IInv
<1>1. ASSUME Size(t) \/ Refuse(t)
      PROVE  ObjectsStep(t, e)
  <2>1. /\ UNCHANGED <<queue, temporary, misused>>
        /\ pc[t] \in {"lock", "relock"} /\ pc'[t] = "return"
    BY <1>1, GotoLemma DEF Size, Refuse, Finish, Locks, histories, IInv, Control, Places
  <2> QED
    BY <1>0, <2>1, ObjectsUntouched
<1>2. ASSUME Block(t) \/ Expire(t) \/ WakeSpuriously(t)
      PROVE  ObjectsStep(t, e)
  <2>1. /\ UNCHANGED <<queue, temporary, misused>>
        /\ pc[t] \in {"lock", "waiting", "relock"} /\ pc'[t] \in {"waiting", "relock"}
    BY <1>2, GotoLemma
       DEF Block, Expire, WakeSpuriously, Leave, Locks, histories, IInv, Control, Places
  <2> QED
    BY <1>0, <2>1, ObjectsUntouched
<1>3. ASSUME KeepSelf(t) \/ LockFirst(t) \/ LockSecond(t) \/ BackOff(t)
      PROVE  ObjectsStep(t, e)
  <2>1. /\ UNCHANGED <<queue, temporary, misused>>
        /\ \/ pc[t] \in {"read", "claim"} /\ pc'[t] = "return"
           \/ pc[t] \in {"claim", "contend"} /\ pc'[t] \in {"claim", "contend", "swap"}
    BY <1>3, GotoLemma
       DEF KeepSelf, LockFirst, LockSecond, BackOff, Finish, histories, IInv, Control, Places,
           Exchanging
  <2> QED
    BY <1>0, <2>1, ObjectsUntouched
<1> QED
  BY <1>1, <1>2, <1>3, PushObjects, FailsObjects, ReadObjects, CopyObjects, CopyThrowsObjects,
     SwapIndicesObjects, SwapStorageObjects, LeavingObjects, DestroyObjects
     DEF Inner

\* Calls and returns leave the objects alone.
LEMMA OutsideKept ==
  ASSUME NEW e \in BOOLEAN, IInv(e), NEW t \in Threads, NEW place \in Places, NEW c,
         pc[t] # "half", place # "half",
         pc' = [pc EXCEPT ![t] = place], call' = [call EXCEPT ![t] = c],
         UNCHANGED <<queue, misused>>,
         \A u \in Threads \ {t} : temporary'[u] = temporary[u],
         FineTemporary(t, e)'
  PROVE  Whole(e)'
<1> USE DEF IInv, Whole
<1>1. \A u \in Threads \ {t} : call'[u] = call[u] /\ pc'[u] = pc[u]
  BY DEF Control, Types
<1>2. pc'[t] = place
  BY DEF Control, Types
<1>3. \A u \in Threads \ {t} : FineTemporary(u, e)'
  BY <1>1 DEF FineTemporary
<1>4. ASSUME NEW u \in Threads
      PROVE  FineHalves(u, e)'
  <2>1. CASE u = t
    BY <1>2, <2>1 DEF FineHalves
  <2>2. CASE u # t
    <3>1. FineHalves(u, e) /\ pc'[u] = pc[u]
      BY <1>1, <2>2
    <3>2. Ours(u)' = Ours(u) /\ Theirs(u)' = Theirs(u)
      BY <1>1, <2>2 DEF Ours, Theirs
    <3> QED
      BY <3>1, <3>2 DEF FineHalves
  <2> QED
    BY <2>1, <2>2
<1>5. ASSUME NEW q \in Queues, Torn(q)
      PROVE  Torn(q)'
  <2>1. PICK u \in Threads : pc[u] = "half" /\ q \in Shared(u)
    BY <1>5 DEF Torn
  <2>2. pc'[u] = "half" /\ call'[u] = call[u]
    BY <1>1, <2>1
  <2> QED
    BY <2>1, <2>2 DEF Torn, Shared
<1>6. alive' = alive /\ alive \subseteq Queues
  BY DEF alive
<1>7. e => NoRawDestroyed'
  BY DEF NoRawDestroyed
<1> QED
  BY <1>3, <1>4, <1>5, <1>6, <1>7

LEMMA CallObjects ==
  ASSUME NEW e \in BOOLEAN, IInv(e), NEW t \in Threads, NEW c \in Menu[t], Call(t, c)
  PROVE  Whole(e)' /\ temporary' \in [Threads -> Object \cup {Nil}]
<1> DEFINE place == CASE c.op \in SingleOps -> "lock"
                      [] c.op \in CopyOps   -> "read"
                      [] c.op \in SwapOps   -> "claim"
                      [] OTHER              -> "destroy"
<1>1. c \in CallRecord
  BY MenuAssumption
<1>2. /\ pc' = [pc EXCEPT ![t] = place] /\ call' = [call EXCEPT ![t] = c]
      /\ pc[t] = "idle"
      /\ UNCHANGED <<queue, misused>>
      /\ temporary' = [temporary EXCEPT ![t] = IF c.op = "move_construct" THEN Allocated(0)
                                                                          ELSE Nil]
  BY DEF Call, Goto, histories
<1>3. place \in Places /\ place \notin Exchanging \cup {"copy", "leave"}
  BY DEF Places, Exchanging
<1>4. c.op = "copy_assign" => place = "read"
  BY DEF SingleOps, PushOps, PopOps, CopyOps, SwapOps
<1> HIDE DEF place
<1>5. pc'[t] = place /\ call'[t] = c
  BY <1>2 DEF IInv, Control, Types
<1>6. Allocated(0) \in Object
  BY FreshLemma, FineLemma, CapacitiesLemma
<1>7. /\ temporary' \in [Threads -> Object \cup {Nil}]
      /\ \A u \in Threads \ {t} : temporary'[u] = temporary[u]
      /\ c.op = "move_construct" => temporary'[t] = Allocated(0)
  BY <1>2, <1>6 DEF IInv, Control, Types
<1>8. FineTemporary(t, e)'
  BY <1>3, <1>4, <1>5, <1>7 DEF FineTemporary, Exchanging
<1>9. pc[t] # "half" /\ place # "half"
  BY <1>2, <1>3 DEF Exchanging
<1> QED
  BY <1>2, <1>3, <1>7, <1>8, <1>9, OutsideKept

LEMMA ReturnObjects ==
  ASSUME NEW e \in BOOLEAN, IInv(e), NEW t \in Threads, Return(t)
  PROVE  Whole(e)'
<1>1. /\ pc' = [pc EXCEPT ![t] = "idle"] /\ call' = [call EXCEPT ![t] = NoCall]
      /\ pc[t] = "return" /\ UNCHANGED <<queue, misused, temporary>>
  BY DEF Return, Goto, histories
<1>2. pc'[t] = "idle"
  BY <1>1 DEF IInv, Control, Types
<1>3. FineTemporary(t, e)'
  BY <1>2 DEF FineTemporary
<1>4. "idle" \in Places
  BY DEF Places
<1> QED
  BY <1>1, <1>3, <1>4, OutsideKept

-----------------------------------------------------------------------------
(* The rest of the invariant. *)

LEMMA TypesStep ==
  ASSUME NEW e \in BOOLEAN, IInv(e), NEW t \in Threads, Inner(t), ObjectsStep(t, e)
  PROVE  Types'
<1> USE DEF IInv, Control
<1>1. Within(t)
  BY WithinLemma
<1>2. Types
  OBVIOUS
<1>3. pc[t] \in {"lock", "relock", "waiting", "contend", "claim", "half"} => call[t] \in CallRecord
  BY DEF Types, AtPlace, Exchanging
<1>4. m_hasSpace' \in [Queues -> SUBSET Threads] /\ m_hasElements' \in [Queues -> SUBSET Threads]
  <2>1. CASE UNCHANGED conds
    BY <2>1 DEF conds, Types
  <2>0. ASSUME NEW q, NEW f \in [Queues -> SUBSET Threads], NEW g, NEW w,
               g = [f EXCEPT ![q] = @ \ {w}] \/ g = [f EXCEPT ![q] = @ \cup {t}]
        PROVE  g \in [Queues -> SUBSET Threads]
    BY <2>0
  <2>2. CASE NotifyOne(t, m_hasSpace) \/ NotifyOne(t, m_hasElements)
    <3>1. CASE \E w \in m_hasSpace[call[t].q] \cup m_hasElements[call[t].q] :
                 /\ m_hasSpace'    = [m_hasSpace EXCEPT ![call[t].q] = @ \ {w}]
                 /\ m_hasElements' = [m_hasElements EXCEPT ![call[t].q] = @ \ {w}]
      BY <1>2, <2>0, <3>1 DEF Types
    <3> QED
      BY <2>1, <2>2, <3>1 DEF NotifyOne
  <2>3. CASE Block(t)
    <3>1. CASE call[t].op \in PushOps
      BY <1>2, <2>0, <2>3, <3>1 DEF Block, Types
    <3>2. CASE call[t].op \notin PushOps
      BY <1>2, <2>0, <2>3, <3>2 DEF Block, Types
    <3> QED
      BY <3>1, <3>2
  <2>4. CASE Leave(t)
    BY <1>2, <2>0, <2>4 DEF Leave, Types
  <2> QED
    BY <2>1, <2>2, <2>3, <2>4
       DEF Inner, Push, Pop, PushFails, PopFails, Fail, Size, Refuse, Expire, WakeSpuriously,
           ReadCapacity, CopyElements, CopyThrows, KeepSelf, LockFirst, LockSecond, BackOff,
           SwapIndices, SwapStorage, Leaving, Destroy
<1>5. m_mutex' \in [Queues -> Threads \cup {Nil}]
  <2>1. CASE UNCHANGED m_mutex
    BY <2>1 DEF Types
  <2>2. CASE LockFirst(t)
    BY <2>2 DEF LockFirst, Types
  <2>3. CASE LockSecond(t)
    BY <2>3 DEF LockSecond, Types
  <2>4. CASE m_mutex' = Unlocked(t)
    BY <2>4 DEF Unlocked, Types
  <2> QED
    BY <2>1, <2>2, <2>3, <2>4
       DEF Inner, Push, Pop, PushFails, PopFails, Fail, Size, Refuse, Block, Expire,
           WakeSpuriously, Leave, ReadCapacity, CopyElements, CopyThrows, KeepSelf, BackOff,
           SwapIndices, SwapStorage, Leaving, Destroy
<1>6. expired' \subseteq Threads
  <2>1. expired' = expired \/ expired' = expired \cup {t}
    BY DEF Inner, Push, Pop, PushFails, PopFails, Fail, Size, Refuse, Block, Expire,
           WakeSpuriously, ReadCapacity, CopyElements, CopyThrows, KeepSelf, LockFirst,
           LockSecond, BackOff, SwapIndices, SwapStorage, Leaving, Destroy
  <2> QED
    BY <2>1 DEF Types
<1>7. call' \in [Threads -> CallRecord \cup {NoCall}] /\ pc' \in [Threads -> Places]
  BY <1>1 DEF Within, Types
<1> QED
  BY <1>4, <1>5, <1>6, <1>7 DEF Types, ObjectsStep

LEMMA ExistStep ==
  ASSUME Control, NEW t \in Threads, Within(t), Lifecycle(t)
  PROVE  \A u \in Threads : Exist(u)'
<1> USE DEF Control
<1>1. /\ call' = call /\ alive \subseteq Queues
      /\ \A u \in Threads : /\ call[u] \in CallRecord \cup {NoCall}
                            /\ pc[u] # "idle" => call[u] \in CallRecord
                            /\ call[u].op \in OwningOps =>
                                 /\ pc[u] # "idle"
                                 /\ \A v \in Threads \ {u} : call[u].q \notin Involved(call[v])
  <2>1. call' = call /\ alive \subseteq Queues
    BY DEF Within, alive
  <2>2. \A u \in Threads : /\ call[u] \in CallRecord \cup {NoCall}
                           /\ pc[u] # "idle" => call[u] \in CallRecord
    BY DEF Types, AtPlace
  <2>3. \A u \in Threads : call[u].op \in OwningOps => pc[u] # "idle"
    BY DEF AtPlace, NoCall, OwningOps
  <2>4. \A u \in Threads : call[u].op \in OwningOps =>
                             \A v \in Threads \ {u} : call[u].q \notin Involved(call[v])
    BY DEF Exist
  <2> QED
    BY <2>1, <2>2, <2>3, <2>4
<1>2. /\ pc'[t] # "idle" /\ pc'[t] # "destroy" /\ pc[t] # "return" /\ pc[t] # "idle"
      /\ \A u \in Threads \ {t} : pc'[u] \in {"idle", "destroy", "return"} => pc'[u] = pc[u]
      /\ \A u \in Threads \ {t} : pc[u] \in {"idle", "destroy", "return"} => pc'[u] = pc[u]
  BY DEF Within, Edge
<1>3. call[t] \in CallRecord /\ call[t].q # Nil /\ call[t].q \in Queues
  BY <1>1, <1>2, CallsLemma
<1>4. CASE alive' = alive
  BY <1>1, <1>2, <1>4 DEF Exist
<1>5. CASE /\ call[t].op \in ConstructOps /\ pc'[t] = "return"
           /\ alive' = alive \cup {call[t].q}
  <2>1. \A u \in Threads \ {t} : call[u].q # call[t].q
    BY <1>1, <1>3, <1>5 DEF ConstructOps, Involved
  <2>2. Exist(t)'
    BY <1>1, <1>2, <1>5 DEF Exist, ConstructOps
  <2>3. \A u \in Threads \ {t} : Exist(u)'
    BY <1>1, <1>2, <1>5, <2>1 DEF Exist
  <2> QED
    BY <2>2, <2>3
<1>6. CASE pc[t] = "destroy" /\ alive' = alive \ {call[t].q}
  <2>1. call[t].op = "destroy" /\ call[t].other = Nil
    BY <1>3, <1>6, CallsLemma DEF AtPlace
  <2>2. \A u \in Threads \ {t} : call[u].q # call[t].q /\ call[u].other # call[t].q
    BY <1>1, <1>3, <2>1 DEF OwningOps, Involved
  <2>3. Exist(t)'
    BY <1>1, <1>2, <2>1 DEF Exist, ConstructOps, OwningOps
  <2>4. \A u \in Threads \ {t} : Exist(u)'
    BY <1>1, <1>2, <1>6, <2>2 DEF Exist
  <2> QED
    BY <2>3, <2>4
<1> QED
  BY <1>4, <1>5, <1>6 DEF Lifecycle

LEMMA OwnsStep ==
  ASSUME Control, NEW t \in Threads, Inner(t)
  PROVE  \A u \in Threads : Owns(u)'
<1> USE DEF Control
<1>1. /\ call' = call /\ Within(t)
      /\ \A u \in Threads \ {t} : pc'[u] = pc[u] \/ (pc[u] = "waiting" /\ pc'[u] = "relock")
      /\ \A u \in Threads : Shared(u)' = Shared(u)
  BY WithinLemma DEF Within, Shared
<1>2. \A u \in Threads : u # Nil
  BY NilAssumption
<1>3. CASE UNCHANGED m_mutex /\ pc[t] \notin Exchanging /\ pc'[t] \notin {"swap", "half"}
  BY <1>1, <1>3 DEF Owns, Exchanging
<1>4. CASE SwapIndices(t)
  <2>1. m_mutex' = m_mutex /\ pc[t] = "swap" /\ pc'[t] = "half"
    BY <1>4, GotoLemma DEF SwapIndices, Places, Exchanging
  <2> QED
    BY <1>1, <2>1 DEF Owns, Exchanging
<1>5. CASE LockFirst(t)
  <2>1. PICK q \in Shared(t) : m_mutex[q] = Nil /\ m_mutex' = [m_mutex EXCEPT ![q] = t]
    BY <1>5 DEF LockFirst
  <2>2. pc[t] = "claim" /\ pc'[t] = "contend"
    BY <1>5, GotoLemma DEF LockFirst, Places, Exchanging
  <2>3. \A r \in Queues : m_mutex'[r] = IF r = q THEN t ELSE m_mutex[r]
    BY <2>1 DEF Types
  <2>4. Owns(t)'
    BY <1>1, <2>1, <2>2, <2>3 DEF Owns, Exchanging
  <2>5. ASSUME NEW u \in Threads \ {t}
        PROVE  Owns(u)'
    <3>1. /\ \A r \in Queues : m_mutex'[r] = u => m_mutex[r] = u
          /\ \A r \in Shared(u) : m_mutex[r] = u => r # q
      BY <1>2, <2>1, <2>3
    <3>2. pc[u] \in {"swap", "half"} => Shared(u) \subseteq Queues
      BY OursLemma
    <3> QED
      BY <1>1, <2>3, <3>1, <3>2 DEF Owns, Exchanging
  <2> QED
    BY <2>4, <2>5
<1>6. CASE LockSecond(t)
  <2>1. /\ \A q \in Shared(t) : m_mutex[q] \in {Nil, t}
        /\ m_mutex' = [q \in Queues |-> IF q \in Shared(t) THEN t ELSE m_mutex[q]]
    BY <1>6 DEF LockSecond
  <2>0. pc[t] = "contend" /\ pc'[t] = "swap"
    BY <1>6, GotoLemma DEF LockSecond, Places, Exchanging
  <2>2. pc[t] = "contend" /\ pc'[t] = "swap" /\ Shared(t) \subseteq Queues
    BY <2>0, SharedLemma DEF Exchanging, AtPlace, Types
  <2>3. Owns(t)'
    BY <1>1, <2>1, <2>2 DEF Owns, Exchanging
  <2>4. \A u \in Threads \ {t} : \A q \in Queues : m_mutex'[q] = u <=> m_mutex[q] = u
    BY <1>2, <2>1
  <2>5. \A u \in Threads \ {t} : pc[u] \in {"swap", "half"} => Shared(u) \subseteq Queues
    BY OursLemma
  <2>6. \A u \in Threads \ {t} : Owns(u)'
    BY <1>1, <2>4, <2>5 DEF Owns, Exchanging
  <2> QED
    BY <2>3, <2>6
<1>7. CASE BackOff(t) \/ SwapStorage(t)
  <2>1. m_mutex' = [q \in Queues |-> IF m_mutex[q] = t THEN Nil ELSE m_mutex[q]]
    BY <1>7 DEF BackOff, SwapStorage, Unlocked
  <2>2. pc'[t] \in {"claim", "leave"}
    BY <1>7, GotoLemma DEF BackOff, SwapStorage, Places, Exchanging
  <2>3. Owns(t)'
    BY <1>1, <1>2, <2>1, <2>2 DEF Owns, Exchanging
  <2>4. \A u \in Threads \ {t} : \A q \in Queues : m_mutex'[q] = u <=> m_mutex[q] = u
    BY <1>2, <2>1
  <2>5. \A u \in Threads \ {t} : pc[u] \in {"swap", "half"} => Shared(u) \subseteq Queues
    BY OursLemma
  <2>6. \A u \in Threads \ {t} : Owns(u)'
    BY <1>1, <2>4, <2>5 DEF Owns, Exchanging
  <2> QED
    BY <2>3, <2>6
<1>8. ASSUME ~(SwapIndices(t) \/ LockFirst(t) \/ LockSecond(t) \/ BackOff(t) \/ SwapStorage(t))
      PROVE  UNCHANGED m_mutex /\ pc[t] \notin Exchanging /\ pc'[t] \notin {"swap", "half"}
  <2>1. UNCHANGED m_mutex /\ pc[t] \notin Exchanging
    BY <1>8
       DEF Inner, Push, Pop, PushFails, PopFails, Fail, Size, Refuse, Block, Expire,
           WakeSpuriously, Leave, Locks, ReadCapacity, CopyElements, CopyThrows, KeepSelf,
           Leaving, Destroy, Exchanging
  <2> QED
    BY <1>1, <2>1 DEF Within, Edge, Exchanging
<1> QED
  BY <1>3, <1>4, <1>5, <1>6, <1>7, <1>8

LEMMA WaitingStep ==
  ASSUME Control, NEW t \in Threads, Inner(t)
  PROVE  \A q \in Queues : Waiting(q)'
<1> USE DEF Control
<1>1. /\ call' = call /\ Within(t)
      /\ pc \in [Threads -> Places]
      /\ m_hasSpace \in [Queues -> SUBSET Threads] /\ m_hasElements \in [Queues -> SUBSET Threads]
  BY WithinLemma DEF Within, Types
<1>2. ASSUME UNCHANGED conds, NEW place \in Places, Goto(t, place), pc[t] # "waiting"
      PROVE  \A q \in Queues : Waiting(q)'
  BY <1>1, <1>2, GotoLemma DEF conds, Waiting
<1>3. ASSUME NotifyOne(t, m_hasSpace) \/ NotifyOne(t, m_hasElements), pc[t] # "waiting",
             call[t].q \in Queues
      PROVE  \A q \in Queues : Waiting(q)'
  <2>1. CASE UNCHANGED conds /\ Goto(t, "return")
    BY <1>2, <1>3, <2>1 DEF Places
  <2>2. ASSUME NEW w \in m_hasSpace[call[t].q] \cup m_hasElements[call[t].q],
               pc' = [pc EXCEPT ![t] = "return", ![w] = "relock"],
               m_hasSpace'    = [m_hasSpace EXCEPT ![call[t].q] = @ \ {w}],
               m_hasElements' = [m_hasElements EXCEPT ![call[t].q] = @ \ {w}]
        PROVE  \A q \in Queues : Waiting(q)'
    <3>1. w \in Threads /\ call[w].q = call[t].q
      BY <1>1, <1>3, <2>2 DEF Waiting
    <3>2. \A u \in Threads \ {t, w} : pc'[u] = pc[u]
      BY <1>1, <2>2
    <3>3. \A q \in Queues : /\ m_hasSpace'[q] \subseteq m_hasSpace[q]
                            /\ m_hasElements'[q] \subseteq m_hasElements[q]
                            /\ w \notin m_hasSpace'[q] /\ w \notin m_hasElements'[q]
      BY <1>1, <1>3, <2>2, <3>1 DEF Waiting
    <3>4. \A q \in Queues : t \notin m_hasSpace'[q] /\ t \notin m_hasElements'[q]
      BY <1>3, <3>3 DEF Waiting
    <3> QED
      BY <1>1, <3>2, <3>3, <3>4 DEF Waiting
  <2> QED
    BY <1>3, <2>1, <2>2 DEF NotifyOne
<1>4. CASE Push(t) \/ Pop(t)
  <2>1. pc[t] # "waiting" /\ call[t].q \in Queues
    BY <1>4, InCall DEF Push, Pop, Locks
  <2> QED
    BY <1>3, <1>4, <2>1 DEF Push, Pop
<1>5. CASE Block(t)
  <2>1. /\ pc[t] \in {"lock", "relock"} /\ call[t] \in CallRecord /\ call[t].q \in Queues
        /\ call[t].op \in PushOps \cup PopOps
    <3>1. pc[t] \in {"lock", "relock"} /\ call[t].op \in PushOps \cup PopOps
      BY <1>5 DEF Block, Locks, WaitOps, PushOps, PopOps, TimedOps
    <3> QED
      BY <3>1, InCall
  <2>2. pc'[t] = "waiting" /\ \A u \in Threads \ {t} : pc'[u] = pc[u]
    BY <1>5, GotoLemma DEF Block, Places
  <2>3. CASE call[t].op \in PushOps
    <3>1. /\ m_hasSpace' = [m_hasSpace EXCEPT ![call[t].q] = @ \cup {t}]
          /\ m_hasElements' = m_hasElements
      BY <1>5, <2>3 DEF Block
    <3> QED
      BY <1>1, <2>1, <2>2, <2>3, <3>1 DEF Waiting
  <2>4. CASE call[t].op \notin PushOps
    <3>1. /\ m_hasElements' = [m_hasElements EXCEPT ![call[t].q] = @ \cup {t}]
          /\ m_hasSpace' = m_hasSpace
      BY <1>5, <2>4 DEF Block
    <3> QED
      BY <1>1, <2>1, <2>2, <2>4, <3>1 DEF Waiting
  <2> QED
    BY <2>3, <2>4
<1>6. CASE Leave(t)
  <2>1. \A u \in Threads \ {t} : pc'[u] = pc[u]
    BY <1>6, GotoLemma DEF Leave, Places
  <2>2. \A q \in Queues : /\ m_hasSpace'[q] \subseteq m_hasSpace[q]
                          /\ m_hasElements'[q] \subseteq m_hasElements[q]
                          /\ t \notin m_hasSpace'[q] /\ t \notin m_hasElements'[q]
    BY <1>1, <1>6 DEF Leave, Waiting
  <2> QED
    BY <1>1, <2>1, <2>2 DEF Waiting
<1>7. ASSUME ~(Push(t) \/ Pop(t) \/ Block(t) \/ Leave(t))
      PROVE  UNCHANGED conds /\ (\E place \in Places : Goto(t, place)) /\ pc[t] # "waiting"
  BY <1>7
     DEF Inner, PushFails, PopFails, Fail, Size, Refuse, Expire, WakeSpuriously, Locks,
         ReadCapacity, CopyElements, CopyThrows, Deliver, KeepSelf, LockFirst, LockSecond,
         BackOff, SwapIndices, SwapStorage, Leaving, Destroy, Finish, Places, Exchanging
<1> QED
  BY <1>2, <1>4, <1>5, <1>6, <1>7

LEMMA CallControl ==
  ASSUME Control, NEW t \in Threads, NEW c \in Menu[t], Call(t, c),
         temporary' \in [Threads -> Object \cup {Nil}]
  PROVE  Types' /\ \A u \in Threads : Exist(u)' /\ Owns(u)'
<1> USE DEF Control
<1> DEFINE place == CASE c.op \in SingleOps -> "lock"
                      [] c.op \in CopyOps   -> "read"
                      [] c.op \in SwapOps   -> "claim"
                      [] OTHER              -> "destroy"
<1>1. c \in CallRecord
  BY MenuAssumption
<1>2. /\ pc' = [pc EXCEPT ![t] = place] /\ call' = [call EXCEPT ![t] = c]
      /\ pc[t] = "idle" /\ Legal(t, c)
      /\ UNCHANGED <<queue, m_mutex, conds, expired, misused>>
  BY DEF Call, Goto, histories
<1>3. place \in {"lock", "read", "claim", "destroy"}
  OBVIOUS
<1>4. place = "destroy" => c.op = "destroy"
  BY <1>1, CallsLemma
<1> HIDE DEF place
<1>5. Types'
  <2>1. pc' \in [Threads -> Places] /\ call' \in [Threads -> CallRecord \cup {NoCall}]
    BY <1>1, <1>2, <1>3 DEF Types, Places
  <2> QED
    BY <1>2, <2>1 DEF Types, conds
<1>6. /\ pc'[t] = place /\ call'[t] = c /\ call[t] = NoCall
      /\ \A u \in Threads \ {t} : pc'[u] = pc[u] /\ call'[u] = call[u]
  BY <1>2 DEF Types, AtPlace
<1>7. alive' = alive
  BY <1>2 DEF alive
<1>8. \A u \in Threads \ {t} : /\ c.op \in OwningOps => c.q \notin Involved(call[u])
                               /\ call[u].op \in OwningOps => call[u].q \notin Involved(c)
  BY <1>2 DEF Legal
<1>9. /\ c.op \notin ConstructOps => c.q \in alive
      /\ c.op \in ConstructOps => c.q \notin alive
      /\ c.other \in alive \cup {Nil}
  BY <1>2 DEF Legal
<1>10. Exist(t)'
  BY <1>1, <1>3, <1>4, <1>6, <1>7, <1>8, <1>9 DEF Exist, OwningOps, ConstructOps
<1>11. \A u \in Threads \ {t} : Exist(u)'
  BY <1>6, <1>7, <1>8 DEF Exist
<1>12. \A u \in Threads : Owns(u)'
  <2>1. Owns(t)'
    BY <1>2, <1>3, <1>6 DEF Owns, Exchanging
  <2>2. \A u \in Threads \ {t} : Owns(u)'
    BY <1>2, <1>6 DEF Owns, Shared
  <2> QED
    BY <2>1, <2>2
<1> QED
  BY <1>5, <1>10, <1>11, <1>12

LEMMA ReturnControl ==
  ASSUME Control, NEW t \in Threads, Return(t)
  PROVE  Types' /\ \A u \in Threads : Exist(u)' /\ Owns(u)'
<1> USE DEF Control
<1>1. /\ pc' = [pc EXCEPT ![t] = "idle"] /\ call' = [call EXCEPT ![t] = NoCall]
      /\ pc[t] = "return" /\ expired' = expired \ {t}
      /\ UNCHANGED <<queue, m_mutex, conds, temporary, misused>>
  BY DEF Return, Goto, histories
<1>2. Types'
  BY <1>1 DEF Types, Places, conds
<1>3. /\ pc'[t] = "idle" /\ call'[t] = NoCall
      /\ \A u \in Threads \ {t} : pc'[u] = pc[u] /\ call'[u] = call[u]
  BY <1>1 DEF Types
<1>4. alive' = alive
  BY <1>1 DEF alive
<1>5. Exist(t)'
  BY <1>3, <1>4 DEF Exist, NoCall, OwningOps, ConstructOps
<1>6. \A u \in Threads \ {t} : Exist(u)'
  BY <1>3, <1>4 DEF Exist, NoCall, Involved
<1>7. Owns(t)'
  BY <1>1, <1>3 DEF Owns, Exchanging
<1>8. \A u \in Threads \ {t} : Owns(u)'
  BY <1>1, <1>3 DEF Owns, Shared
<1> QED
  BY <1>2, <1>5, <1>6, <1>7, <1>8

LEMMA CallWaiting ==
  ASSUME Control, NEW t \in Threads, pc[t] # "waiting", NEW place, NEW c,
         Goto(t, place), call' = [call EXCEPT ![t] = c], UNCHANGED conds
  PROVE  \A q \in Queues : Waiting(q)'
<1>1. \A u \in Threads \ {t} : pc'[u] = pc[u] /\ call'[u] = call[u]
  BY DEF Control, Types, Goto
<1>2. \A q \in Queues : m_hasSpace[q] \subseteq Threads /\ m_hasElements[q] \subseteq Threads
  BY DEF Control, Types
<1> QED
  BY <1>1, <1>2 DEF Control, Waiting, conds

\* An object as it is first.
LEMMA InitIInv ==
  ASSUME NEW e \in BOOLEAN, Init
  PROVE  IInv(e)
<1>1. /\ \A t \in Threads : pc[t] = "idle" /\ call[t] = NoCall
      /\ \A q \in Queues : m_mutex[q] = Nil
  BY DEF Init
<1>2. ASSUME NEW q \in Queues
      PROVE  Start[q] \in Capacities /\ Fine(Allocated(Start[q]), e)
                /\ Allocated(Start[q]) \in Object
  BY FreshLemma, FineLemma DEF Capacities
<1>3. Types
  BY <1>2 DEF Init, Types, Places
<1>4. \A t \in Threads : Nil # t
  BY NilAssumption
<1>5. Control
  BY <1>1, <1>3, <1>4
     DEF Init, Control, AtPlace, Exist, Owns, Waiting, NoCall, OwningOps, ConstructOps, Exchanging
<1>6. Whole(e)
  BY <1>1, <1>2 DEF Init, Whole, FineTemporary, FineHalves, NoRawDestroyed, alive
<1> QED
  BY <1>5, <1>6 DEF IInv

LEMMA StepIInv ==
  ASSUME NEW e \in BOOLEAN, IInv(e), e => CopiesFit, [Next]_vars
  PROVE  IInv(e)'
<1> USE DEF IInv
<1>1. \A t \in Threads : AtPlace(t)'
  BY AtPlaceStep
<1>2. ASSUME NEW t \in Threads, Inner(t)
      PROVE  Control' /\ Whole(e)'
  <2>1. Within(t) /\ ObjectsStep(t, e)
    BY <1>2, WithinLemma, InnerObjects
  <2>2. Types'
    BY <1>2, <2>1, TypesStep
  <2>3. \A u \in Threads : Exist(u)'
    BY <2>1, ExistStep DEF ObjectsStep
  <2>4. \A u \in Threads : Owns(u)'
    BY <1>2, OwnsStep
  <2>5. \A q \in Queues : Waiting(q)'
    BY <1>2, WaitingStep
  <2> QED
    BY <1>1, <2>1, <2>2, <2>3, <2>4, <2>5 DEF Control, ObjectsStep
<1>3. ASSUME NEW t \in Threads, NEW c \in Menu[t], Call(t, c)
      PROVE  Control' /\ Whole(e)'
  <2>1. Whole(e)' /\ temporary' \in [Threads -> Object \cup {Nil}]
    BY <1>3, CallObjects
  <2>2. Types' /\ \A u \in Threads : Exist(u)' /\ Owns(u)'
    BY <1>3, <2>1, CallControl
  <2>3. \A q \in Queues : Waiting(q)'
    BY <1>3, CallWaiting DEF Call
  <2> QED
    BY <1>1, <2>1, <2>2, <2>3 DEF Control
<1>4. ASSUME NEW t \in Threads, Return(t)
      PROVE  Control' /\ Whole(e)'
  <2>1. Whole(e)'
    BY <1>4, ReturnObjects
  <2>2. Types' /\ \A u \in Threads : Exist(u)' /\ Owns(u)'
    BY <1>4, ReturnControl
  <2>3. \A q \in Queues : Waiting(q)'
    BY <1>4, CallWaiting DEF Return
  <2> QED
    BY <1>1, <2>1, <2>2, <2>3 DEF Control
<1>5. ASSUME UNCHANGED vars
      PROVE  Control' /\ Whole(e)'
  <2>1. Control'
    <3>1. Types' /\ \A q \in Queues : Waiting(q)'
      BY <1>5 DEF vars, conds, Control, Types, Waiting
    <3>2. \A t \in Threads : Exist(t)'
      BY <1>5 DEF vars, Control, Exist, alive
    <3>3. \A t \in Threads : Owns(t)'
      BY <1>5 DEF vars, Control, Owns, Shared
    <3> QED
      BY <1>1, <3>1, <3>2, <3>3 DEF Control
  <2>2. Whole(e)'
    <3>1. \A q \in Queues : Torn(q)' <=> Torn(q)
      BY <1>5 DEF vars, Torn, Shared
    <3>2. \A t \in Threads : FineTemporary(t, e)' /\ FineHalves(t, e)'
      BY <1>5 DEF vars, Whole, FineTemporary, FineHalves, Ours, Theirs
    <3> QED
      BY <1>5, <3>1, <3>2 DEF vars, Whole, alive, NoRawDestroyed
  <2> QED
    BY <2>1, <2>2
<1> QED
  BY <1>2, <1>3, <1>4, <1>5, NextLemma

-----------------------------------------------------------------------------
(* Theorems. *)

\* Every reachable state is typed, whatever the threads call: objects are only
\* constructed where there is none, the members of an object whose mutex is free
\* have the types that go with its capacity, and only threads wait.
THEOREM TypeCorrect == Spec => []TypeOK
<1>1. Init => IInv(FALSE)
  BY InitIInv
<1>2. IInv(FALSE) /\ [Next]_vars => IInv(FALSE)'
  BY StepIInv
<1>3. IInv(FALSE) => TypeOK
  <2>1. ASSUME IInv(FALSE), NEW q \in alive
        PROVE  /\ queue[q].m_first \in Nat /\ queue[q].m_size \in Nat
               /\ m_mutex[q] = Nil => queue[q].m_data
                                        \in [0 .. queue[q].m_maximumSize - 1 -> Counted \cup {Nil}]
    <3>1. queue[q] \in Object
      BY <2>1 DEF IInv, Control, Types, alive
    <3>2. m_mutex[q] = Nil => Shape(queue[q], Counted)
      BY <2>1, FreeLemma DEF Fine
    <3> QED
      BY <3>1, <3>2 DEF Object, Shape
  <2>2. ASSUME IInv(FALSE), NEW q \in alive
        PROVE  /\ queue[q].m_first \in Nat /\ queue[q].m_size \in Nat
               /\ queue[q].m_data \in [0 .. queue[q].m_maximumSize - 1 -> Counted \cup {Nil}]
                    \/ m_mutex[q] # Nil
    BY <2>1, <2>2
  <2>3. ASSUME IInv(FALSE)
        PROVE  /\ m_mutex \in [Queues -> Threads \cup {Nil}]
               /\ \A q \in Queues : m_hasSpace[q] \cup m_hasElements[q] \subseteq Threads
               /\ \A t \in Threads : call[t] \in CallRecord \cup {NoCall}
               /\ expired \subseteq Threads
               /\ misused \subseteq {"queue", "temporary", "unfinished copy"}
    BY <2>3 DEF IInv, Control, Types
  <2> QED
    BY <2>2, <2>3 DEF TypeOK
<1> QED
  BY <1>1, <1>2, <1>3, PTL DEF Spec

LEMMA IntactStep ==
  ASSUME IInv(TRUE)
  PROVE  RingsIntact /\ NoRawDestroyed
BY FreeLemma DEF IInv, Whole, Fine, RingsIntact

LEMMA ExactLemma == Spec /\ []CopiesFit => []IInv(TRUE)
<1>1. Init => IInv(TRUE)
  BY InitIInv
<1>2. IInv(TRUE) /\ CopiesFit /\ [Next]_vars => IInv(TRUE)'
  BY StepIInv
<1> QED
  BY <1>1, <1>2, PTL DEF Spec

\* As long as every copy fits, capacity, indices, size and storage of a queue whose
\* mutex is free belong together, in whatever order the threads do what.  A push
\* whose element throws leaves a slot that is counted and raw (Unmade), which copies
\* and exchanges hand on; but no exchange under way and no failed push, pop or copy
\* makes the members disagree.  Only a change of the original's capacity between the
\* two parts of the copy constructor can.
THEOREM RingsIntactIfCopiesFit == Spec /\ []CopiesFit => []RingsIntact
BY ExactLemma, IntactStep, PTL

\* And no destructor of a queue, of the temporary of an assignment or of a copy that
\* failed meets storage then that no push or copy has counted: the slots without an
\* element that it takes for elements are those whose constructor threw.
THEOREM NoRawDestroyedIfCopiesFit == Spec /\ []CopiesFit => []NoRawDestroyed
BY ExactLemma, IntactStep, PTL

-----------------------------------------------------------------------------
(* When copies fit. *)

\* The objects whose capacity the call c may change while they exist.
ExchangedBy(c) == CASE c.op = "copy_assign"              -> {c.q}
                    [] c.op = "move_construct"           -> {c.other}
                    [] c.op \in {"swap", "move_assign"} -> {c.q, c.other}
                    [] OTHER                             -> {}

\* No other thread exchanges what t's call c copies.
Undisturbed(t, c) == \A u \in Threads \ {t} : \A d \in Menu[u] :
                       d.q # d.other => c.other \notin ExchangedBy(d)

\* Kind[q] has all capacities that q may come to have.
Settled(Kind) ==
  /\ Kind \in [Queues -> SUBSET Nat]
  /\ \A q \in Queues : Start[q] \in Kind[q] \cup {0}
  /\ \A t \in Threads : \A c \in Menu[t] :
       /\ c.op \in {"swap", "move_assign"} => Kind[c.q] = Kind[c.other]
       /\ c.op \in CopyOps \cup {"move_construct"} => Kind[c.other] \subseteq Kind[c.q]
       /\ c.op = "move_construct" => 0 \in Kind[c.other]

Capacity(q) == queue[q].m_maximumSize

ThreadKind(t, Kind) ==
  /\ call[t] \in Menu[t] \cup {NoCall}
  /\ pc[t] = "copy" =>
       /\ temporary[t].m_maximumSize \in Kind[call[t].other] \ {0}
       /\ Undisturbed(t, call[t]) => temporary[t].m_maximumSize = Capacity(call[t].other)
  /\ pc[t] \in {"claim", "contend", "swap"} /\ call[t].op = "copy_assign"
       => temporary[t].m_maximumSize \in Kind[call[t].q]
  /\ pc[t] \in {"half", "leave"} /\ call[t].op = "move_construct"
       => temporary[t].m_maximumSize \in Kind[call[t].q]

Kinds(Kind) == /\ \A q \in alive : Capacity(q) \in Kind[q]
               /\ \A t \in Threads : ThreadKind(t, Kind)

\* t changes the capacities of the objects in C only.
LEMMA KindsKept ==
  ASSUME NEW Kind, Kinds(Kind), NEW t \in Threads, Within(t),
         NEW C \in SUBSET Queues,
         \A q \in Queues \ C : Capacity(q)' = Capacity(q) /\ (q \in alive' => q \in alive),
         \A q \in C : q \in alive' => Capacity(q)' \in Kind[q],
         \A u \in Threads \ {t} :
           /\ temporary'[u] = temporary[u]
           /\ pc[u] = "copy" => call[u].other \in Queues
           /\ pc[u] = "copy" /\ Undisturbed(u, call[u]) => call[u].other \notin C,
         ThreadKind(t, Kind)'
  PROVE  Kinds(Kind)'
<1>1. \A q \in alive' : Capacity(q)' \in Kind[q]
  BY DEF Kinds, alive
<1>2. ASSUME NEW u \in Threads \ {t}
      PROVE  ThreadKind(u, Kind)'
  <2>1. /\ call' = call /\ temporary'[u] = temporary[u]
        /\ pc'[u] = pc[u] \/ pc'[u] = "relock"
    BY DEF Within
  <2>2. CASE pc[u] = "copy"
    <3>1. Undisturbed(u, call[u]) =>
            queue'[call[u].other].m_maximumSize = queue[call[u].other].m_maximumSize
      BY <2>2 DEF Capacity
    <3>2. Undisturbed(u, call[u])' <=> Undisturbed(u, call[u])
      BY <2>1 DEF Undisturbed
    <3> QED
      BY <2>1, <2>2, <3>1, <3>2 DEF Kinds, ThreadKind, Capacity
  <2>3. CASE pc[u] # "copy"
    <3>1. pc'[u] # "copy"
      BY <2>1, <2>3
    <3> QED
      BY <2>1, <3>1 DEF Kinds, ThreadKind
  <2> QED
    BY <2>2, <2>3
<1> QED
  BY <1>1, <1>2 DEF Kinds

\* t leaves all capacities alone.
LEMMA KindsUntouched ==
  ASSUME NEW Kind, Control, Kinds(Kind), NEW t \in Threads, Within(t),
         \A q \in Queues : Capacity(q)' = Capacity(q) /\ (q \in alive' => q \in alive),
         \A u \in Threads \ {t} : temporary'[u] = temporary[u],
         pc'[t] # "copy" /\ pc'[t] # "half" /\ pc'[t] # "leave",
         pc'[t] \in {"claim", "contend", "swap"} =>
            pc[t] \in {"claim", "contend", "swap"} /\ temporary'[t] = temporary[t]
  PROVE  Kinds(Kind)'
<1>1. ThreadKind(t, Kind)'
  BY DEF Within, Kinds, ThreadKind
<1>2. \A u \in Threads : pc[u] = "copy" => call[u].other \in Queues
  BY InCall
<1> QED
  BY <1>1, <1>2, KindsKept, {} \in SUBSET Queues

LEMMA KindsSingle ==
  ASSUME NEW e \in BOOLEAN, IInv(e), NEW Kind, Kinds(Kind), NEW t \in Threads,
         \/ Push(t) \/ Pop(t) \/ PushFails(t) \/ PopFails(t)
         \/ Size(t) \/ Refuse(t) \/ Block(t) \/ Expire(t) \/ WakeSpuriously(t)
         \/ KeepSelf(t) \/ LockFirst(t) \/ LockSecond(t) \/ BackOff(t)
         \/ \E k \in Nat : CopyThrows(t, k)
  PROVE  Kinds(Kind)'
<1>1. Control /\ Types /\ Within(t)
  BY WithinLemma DEF IInv, Control, Inner
<1>2. CASE Push(t) \/ Pop(t) \/ PushFails(t) \/ PopFails(t)
  <2> DEFINE q == call[t].q
  <2>1. /\ pc[t] \in {"lock", "relock"} /\ temporary' = temporary
        /\ m_mutex[q] = Nil
        /\ \/ \E v : queue' = [queue EXCEPT ![q] = do_push(@, v)]
           \/ queue' = [queue EXCEPT ![q] = do_pop(@)]
           \/ queue' = queue
    BY <1>2 DEF Push, Pop, PushFails, PopFails, Fail, Locks
  <2>2. q \in alive /\ q \in Queues
    BY <1>1, <2>1, CallsLemma
       DEF Types, Control, AtPlace, Exist, OwningOps, SingleOps, PushOps, PopOps, alive
  <2>3. queue[q] \in Object
    BY <1>1, <2>2 DEF Types, alive
  <2>4. /\ \A v : do_push(queue[q], v).m_maximumSize = queue[q].m_maximumSize
        /\ do_pop(queue[q]).m_maximumSize = queue[q].m_maximumSize
    BY <2>3 DEF do_push, do_pop, Object
  <2>5. pc'[t] = "return"
    BY <1>1, <1>2, <2>1, <2>2, NotifyLemma, GotoLemma
       DEF Push, Pop, PushFails, PopFails, Fail, Finish, Places
  <2>6. alive' = alive
    BY <1>2, <2>1, PushObjects, FailsObjects DEF ObjectsStep, Lifecycle
  <2>7. \A p \in Queues : Capacity(p)' = Capacity(p)
    <3>1. PICK o : /\ o.m_maximumSize = queue[q].m_maximumSize
                   /\ queue' = queue \/ queue' = [queue EXCEPT ![q] = o]
      BY <2>1, <2>4
    <3> HIDE DEF q
    <3> QED
      BY <1>1, <2>2, <3>1 DEF Types, Capacity
  <2> QED
    BY <1>1, <2>1, <2>5, <2>6, <2>7, KindsUntouched
<1>3. CASE \E k \in Nat : CopyThrows(t, k)
  <2>1. /\ queue' = queue /\ temporary' = [temporary EXCEPT ![t] = Nil]
        /\ pc'[t] = "return"
    BY <1>1, <1>3, GotoLemma DEF CopyThrows, Finish, Places
  <2> QED
    BY <1>1, <2>1, KindsUntouched DEF Types, Capacity, alive
<1>4. ASSUME ~(Push(t) \/ Pop(t) \/ PushFails(t) \/ PopFails(t)), ~\E k \in Nat : CopyThrows(t, k)
      PROVE  Kinds(Kind)'
  <2>1. UNCHANGED <<queue, temporary>> /\ pc[t] \in {"lock", "relock", "waiting", "read", "claim", "contend"}
    BY <1>4 DEF Size, Refuse, Block, Expire, WakeSpuriously, Leave, Locks, KeepSelf, LockFirst,
                LockSecond, BackOff
  <2>2. pc'[t] \in {"return", "waiting", "relock", "claim", "contend", "swap"}
    BY <1>1, <1>4, GotoLemma
       DEF Size, Refuse, Block, Expire, WakeSpuriously, Leave, KeepSelf, LockFirst,
           LockSecond, BackOff, Finish, Places, Exchanging
  <2>3. pc'[t] \in {"claim", "contend", "swap"} => pc[t] \in {"claim", "contend", "swap"}
    BY <1>1, <2>1 DEF Within, Edge
  <2> QED
    BY <1>1, <2>1, <2>2, <2>3, KindsUntouched DEF Capacity, alive
<1> QED
  BY <1>2, <1>3, <1>4

LEMMA KindsCopy ==
  ASSUME NEW e \in BOOLEAN, IInv(e), NEW Kind, Settled(Kind), Kinds(Kind), NEW t \in Threads,
         ReadCapacity(t) \/ CopyElements(t)
  PROVE  Kinds(Kind)'
<1> DEFINE p == call[t].other
           q == call[t].q
<1>1. Control /\ Types /\ Within(t)
  BY WithinLemma DEF IInv, Control, Inner
<1>2. /\ call' = call /\ pc[t] \in {"read", "copy"} /\ call[t] \in CallRecord
      /\ call[t].op \in CopyOps
  <2>1. call' = call /\ pc[t] \in {"read", "copy"}
    BY <1>1 DEF ReadCapacity, CopyElements, Within
  <2> QED
    BY <1>1, <2>1, InCall
<1>3. p \in alive /\ p \in Queues /\ q \in Queues /\ queue[p] \in Object /\ q # Nil
  <2>1. p \in alive /\ p \in Queues /\ q \in Queues /\ q # Nil
    BY <1>1, <1>2, InCall
  <2>2. queue[p] \in Object
    BY <1>1, <2>1 DEF Types, alive
  <2> QED
    BY <2>1, <2>2
<1>4. call[t] \in Menu[t]
  BY <1>2, CallsLemma DEF Kinds, ThreadKind
<1>5. Kind[p] \subseteq Kind[q]
  BY <1>2, <1>4 DEF Settled
<1>6. \A u \in Threads : pc[u] = "copy" => call[u].other \in Queues
  BY <1>1, InCall
<1>7. CASE ReadCapacity(t)
  <2> DEFINE n == queue[p].m_maximumSize
  <2>1. n \in Kind[p] /\ queue' = queue
    BY <1>3, <1>7 DEF ReadCapacity, Kinds, Capacity
  <2>2. CASE n = 0
    <3>1. pc'[t] = "return" /\ temporary' = temporary
      BY <1>1, <1>7, <2>2, GotoLemma DEF ReadCapacity, Finish, Places
    <3> QED
      BY <1>1, <2>1, <3>1, KindsUntouched DEF Capacity, alive
  <2>3. CASE n # 0
    <3>1. pc'[t] = "copy" /\ temporary' = [temporary EXCEPT ![t] = Allocated(n)]
      BY <1>1, <1>7, <2>3, GotoLemma DEF ReadCapacity, Places
    <3>2. /\ temporary'[t].m_maximumSize = n
          /\ \A u \in Threads \ {t} : temporary'[u] = temporary[u]
      BY <1>1, <3>1 DEF Types, Allocated
    <3>3. ThreadKind(t, Kind)'
      BY <1>2, <1>4, <2>1, <2>3, <3>1, <3>2 DEF ThreadKind, Capacity
    <3> QED
      BY <1>1, <1>6, <2>1, <3>2, <3>3, KindsKept, {} \in SUBSET Queues DEF Capacity, alive
  <2> QED
    BY <2>2, <2>3
<1>8. CASE CopyElements(t)
  <2> DEFINE copied == Copied(t, queue[p].m_size)
  <2>1. pc[t] = "copy" /\ m_mutex[p] = Nil /\ Deliver(t, copied)
    BY <1>8 DEF CopyElements
  <2>2. PICK N \in Capacities \ {0} : temporary[t] = Allocated(N)
    BY <2>1 DEF IInv, Whole, FineTemporary
  <2>3. N \in Nat \ {0} /\ temporary[t].m_maximumSize = N
    BY <2>2, AllocatedCapacity
  <2>4. Shape(queue[p], Counted) /\ queue[p].m_size \in 0 .. queue[p].m_size
    <3>1. Fine(queue[p], e)
      BY <1>3, <2>1, FreeLemma
    <3>2. Shape(queue[p], Counted)
      BY <3>1 DEF Fine
    <3> QED
      BY <3>2, ShapeNumbers
  <2>5. copied.m_maximumSize = N
    BY <2>2, <2>3, <2>4, CopiedLemma
  <2>6. N \in Kind[q]
    BY <1>5, <2>1, <2>3 DEF Kinds, ThreadKind
  <2> HIDE DEF copied
  <2>7. CASE call[t].op = "copy_construct"
    <3>1. /\ queue' = [queue EXCEPT ![q] = copied]
          /\ temporary' = [temporary EXCEPT ![t] = Nil]
          /\ pc'[t] = "return"
      BY <1>1, <2>1, <2>7, GotoLemma DEF Deliver, Finish, Places
    <3> HIDE DEF q
    <3>2. /\ queue'[q].m_maximumSize = N
          /\ \A r \in Queues \ {q} : queue'[r] = queue[r]
          /\ \A u \in Threads \ {t} : temporary'[u] = temporary[u]
      <4>1. queue'[q] = copied
        BY <1>1, <1>3, <3>1 DEF Types
      <4> QED
        BY <1>1, <2>5, <3>1, <4>1 DEF Types, Capacity
    <3>3. \A u \in Threads \ {t} : call[u].other # q
      BY <1>1, <1>3, <2>7 DEF Control, Exist, OwningOps, Involved, q
    <3>4. ThreadKind(t, Kind)'
      BY <1>2, <1>4, <3>1 DEF ThreadKind
    <3>5. {q} \in SUBSET Queues
      BY <1>3
    <3>6. \A r \in Queues \ {q} : Capacity(r)' = Capacity(r) /\ (r \in alive' => r \in alive)
      BY <3>2 DEF Capacity, alive
    <3>7. \A r \in {q} : Capacity(r)' \in Kind[r]
      BY <2>6, <3>2 DEF Capacity
    <3> QED
      BY <1>1, <1>6, <3>2, <3>3, <3>4, <3>5, <3>6, <3>7, KindsKept
  <2>8. CASE call[t].op # "copy_construct"
    <3>1. /\ queue' = queue
          /\ temporary' = [temporary EXCEPT ![t] = copied]
          /\ pc'[t] = "claim"
      BY <1>1, <2>1, <2>8, GotoLemma DEF Deliver, Places
    <3>2. /\ temporary'[t] = copied
          /\ \A u \in Threads \ {t} : temporary'[u] = temporary[u]
      BY <1>1, <3>1 DEF Types
    <3>3. ThreadKind(t, Kind)'
      BY <1>2, <1>4, <2>5, <2>6, <3>1, <3>2 DEF ThreadKind
    <3> QED
      BY <1>1, <1>6, <3>1, <3>2, <3>3, KindsKept, {} \in SUBSET Queues DEF Capacity, alive
  <2> QED
    BY <2>7, <2>8
<1> QED
  BY <1>7, <1>8

LEMMA KindsSwap ==
  ASSUME NEW e \in BOOLEAN, IInv(e), NEW Kind, Settled(Kind), Kinds(Kind), NEW t \in Threads,
         SwapIndices(t) \/ SwapStorage(t)
  PROVE  Kinds(Kind)'
<1> DEFINE o == Ours(t)
           p == Theirs(t)
           q == call[t].q
           r == call[t].other
<1>1. Control /\ Types /\ Within(t) /\ call' = call /\ pc[t] \in {"swap", "half"}
  BY WithinLemma DEF IInv, Control, Inner, Within, SwapIndices, SwapStorage
<1>2. /\ call[t] \in CallRecord /\ call[t].op \in ExchangeOps
      /\ q \in Queues /\ r \in Queues /\ q # r
      /\ Shared(t) \subseteq alive /\ Shared(t) \subseteq Queues
  BY <1>1, OursLemma
<1>3. call[t] \in Menu[t]
  BY <1>2, CallsLemma DEF Kinds, ThreadKind
<1>4. o \in Object /\ p \in Object
  BY <1>1, PartsLemma
<1>5. \A u \in Threads : pc[u] = "copy" => call[u].other \in Queues
  BY <1>1, InCall
<1>6. CASE SwapIndices(t)
  <2>1. pc[t] = "swap" /\ Become(t, WithIndices(o, p), WithIndices(p, o))
    BY <1>6 DEF SwapIndices
  <2>2. pc'[t] = "half"
    BY <1>1, <1>6, GotoLemma DEF SwapIndices, Places, Exchanging
  <2>3. /\ WithIndices(o, p) \in Object /\ WithIndices(p, o) \in Object
        /\ WithIndices(o, p).m_maximumSize = p.m_maximumSize
        /\ WithIndices(p, o).m_maximumSize = o.m_maximumSize
    BY <1>4, HalvesLemma DEF WithIndices, Object
  <2> HIDE DEF o, p
  <2>4. /\ alive' = alive
        /\ \A x \in Queues \ Shared(t) : queue'[x] = queue[x]
        /\ \A u \in Threads \ {t} : temporary'[u] = temporary[u]
        /\ call[t].op = "move_construct" => temporary'[t] = WithIndices(o, p)
    BY <1>1, <2>1, <2>3, BecomeLemma
  <2>5. \A x \in Shared(t) : queue'[x].m_maximumSize \in Kind[x]
    <3>1. CASE call[t].op = "copy_assign"
      <4>1. queue' = [queue EXCEPT ![q] = WithIndices(o, p)] /\ Shared(t) = {q}
        BY <2>1, <3>1 DEF Become, Shared
      <4>2. p = temporary[t] /\ temporary[t].m_maximumSize \in Kind[q]
        BY <2>1, <3>1 DEF Theirs, p, Kinds, ThreadKind
      <4>3. queue'[q].m_maximumSize = p.m_maximumSize
        BY <1>1, <1>2, <2>3, <4>1 DEF Types
      <4> QED
        BY <4>1, <4>2, <4>3
    <3>2. CASE call[t].op = "move_construct"
      <4>1. queue' = [queue EXCEPT ![r] = WithIndices(p, o)] /\ Shared(t) = {r}
        BY <2>1, <3>2 DEF Become, Shared
      <4>2. o.m_maximumSize = 0
        <5>1. temporary[t] = Allocated(0)
          BY <2>1, <3>2 DEF IInv, Whole, FineTemporary
        <5> QED
          BY <3>2, <5>1 DEF Ours, o, Allocated
      <4>3. queue'[r].m_maximumSize = o.m_maximumSize
        BY <1>1, <1>2, <2>3, <4>1 DEF Types
      <4>4. 0 \in Kind[r]
        BY <1>3, <3>2 DEF Settled
      <4> QED
        BY <4>1, <4>2, <4>3, <4>4
    <3>3. CASE call[t].op \in {"swap", "move_assign"}
      <4>1. /\ queue' = [queue EXCEPT ![q] = WithIndices(o, p), ![r] = WithIndices(p, o)]
            /\ Shared(t) = {q, r}
        BY <2>1, <3>3 DEF Become, Shared
      <4>2. o = queue[q] /\ p = queue[r]
        BY <3>3 DEF Ours, Theirs, o, p
      <4>3. queue'[q].m_maximumSize = p.m_maximumSize /\ queue'[r].m_maximumSize = o.m_maximumSize
        BY <1>1, <1>2, <2>3, <4>1 DEF Types
      <4>4. Kind[q] = Kind[r] /\ p.m_maximumSize \in Kind[r] /\ o.m_maximumSize \in Kind[q]
        BY <1>2, <1>3, <3>3, <4>1, <4>2 DEF Settled, Kinds, Capacity
      <4> QED
        BY <4>1, <4>3, <4>4
    <3> QED
      BY <1>2, <3>1, <3>2, <3>3 DEF ExchangeOps, SwapOps
  <2>6. ThreadKind(t, Kind)'
    <3>1. ASSUME call[t].op = "move_construct"
          PROVE  temporary'[t].m_maximumSize \in Kind[q]
      <4>1. p = queue[r] /\ r \in alive
        BY <1>2, <3>1 DEF Theirs, Shared, p
      <4>2. p.m_maximumSize \in Kind[r]
        BY <4>1 DEF Kinds, Capacity
      <4>3. Kind[r] \subseteq Kind[q]
        BY <1>3, <3>1 DEF Settled
      <4> QED
        BY <2>3, <2>4, <3>1, <4>2, <4>3
    <3> QED
      BY <1>1, <1>3, <2>2, <3>1 DEF ThreadKind
  <2>7. ASSUME NEW u \in Threads \ {t}, Undisturbed(u, call[u])
        PROVE  call[u].other \notin Shared(t)
    BY <1>2, <1>3, <2>7 DEF Undisturbed, ExchangedBy, Shared, ExchangeOps, SwapOps
  <2>8. \A x \in Queues \ Shared(t) : Capacity(x)' = Capacity(x) /\ (x \in alive' => x \in alive)
    BY <2>4 DEF Capacity
  <2>9. \A x \in Shared(t) : Capacity(x)' \in Kind[x]
    BY <2>5 DEF Capacity
  <2>10. Shared(t) \in SUBSET Queues
    BY <1>2
  <2> QED
    BY <1>1, <1>5, <2>4, <2>6, <2>7, <2>8, <2>9, <2>10, KindsKept
<1>7. CASE SwapStorage(t)
  <2>1. pc[t] = "half" /\ Become(t, WithStorage(o, p), WithStorage(p, o))
    BY <1>7 DEF SwapStorage
  <2>2. pc'[t] = "leave"
    BY <1>1, <1>7, GotoLemma DEF SwapStorage, Places
  <2>3. /\ WithStorage(o, p) \in Object /\ WithStorage(p, o) \in Object
        /\ WithStorage(o, p).m_maximumSize = o.m_maximumSize
        /\ WithStorage(p, o).m_maximumSize = p.m_maximumSize
    BY <1>4, HalvesLemma DEF WithStorage, Object
  <2> HIDE DEF o, p
  <2>4. /\ alive' = alive
        /\ \A x \in Queues \ Shared(t) : queue'[x] = queue[x]
        /\ \A u \in Threads \ {t} : temporary'[u] = temporary[u]
        /\ call[t].op = "move_construct" => temporary'[t] = WithStorage(o, p)
    BY <1>1, <2>1, <2>3, BecomeLemma
  <2>5. \A x \in Shared(t) : queue'[x].m_maximumSize = queue[x].m_maximumSize
    <3>1. CASE call[t].op = "copy_assign"
      <4>1. queue' = [queue EXCEPT ![q] = WithStorage(o, p)] /\ Shared(t) = {q} /\ o = queue[q]
        BY <2>1, <3>1 DEF Become, Shared, Ours, o
      <4> QED
        BY <1>1, <1>2, <2>3, <4>1 DEF Types
    <3>2. CASE call[t].op = "move_construct"
      <4>1. queue' = [queue EXCEPT ![r] = WithStorage(p, o)] /\ Shared(t) = {r} /\ p = queue[r]
        BY <2>1, <3>2 DEF Become, Shared, Theirs, p
      <4> QED
        BY <1>1, <1>2, <2>3, <4>1 DEF Types
    <3>3. CASE call[t].op \in {"swap", "move_assign"}
      <4>1. /\ queue' = [queue EXCEPT ![q] = WithStorage(o, p), ![r] = WithStorage(p, o)]
            /\ Shared(t) = {q, r} /\ o = queue[q] /\ p = queue[r]
        BY <2>1, <3>3 DEF Become, Shared, Ours, Theirs, o, p
      <4> QED
        BY <1>1, <1>2, <2>3, <4>1 DEF Types
    <3> QED
      BY <1>2, <3>1, <3>2, <3>3 DEF ExchangeOps, SwapOps
  <2>6. ThreadKind(t, Kind)'
    <3>1. ASSUME call[t].op = "move_construct"
          PROVE  temporary'[t].m_maximumSize \in Kind[q]
      <4>1. o = temporary[t] /\ temporary[t].m_maximumSize \in Kind[q]
        BY <2>1, <3>1 DEF Ours, o, Kinds, ThreadKind
      <4> QED
        BY <2>3, <2>4, <3>1, <4>1
    <3> QED
      BY <1>1, <1>3, <2>2, <3>1 DEF ThreadKind
  <2>7. \A x \in Queues : Capacity(x)' = Capacity(x) /\ (x \in alive' => x \in alive)
    BY <2>4, <2>5 DEF Capacity
  <2> QED
    BY <1>1, <1>5, <2>4, <2>6, <2>7, KindsKept, {} \in SUBSET Queues
<1> QED
  BY <1>6, <1>7

LEMMA KindsOwn ==
  ASSUME NEW e \in BOOLEAN, IInv(e), NEW Kind, Kinds(Kind), NEW t \in Threads,
         Leaving(t) \/ Destroy(t)
  PROVE  Kinds(Kind)'
<1> DEFINE q == call[t].q
<1>1. Control /\ Types /\ Within(t) /\ call' = call
  BY WithinLemma DEF IInv, Control, Inner, Within
<1>2. call[t] \in CallRecord /\ q \in Queues /\ q # Nil
  <2>1. pc[t] # "idle"
    BY DEF Leaving, Destroy
  <2> QED
    BY <1>1, <2>1, InCall
<1>3. pc'[t] = "return"
  BY <1>1, GotoLemma DEF Leaving, Destroy, Finish, Places
<1>4. \A u \in Threads : pc[u] = "copy" => call[u].other \in Queues
  BY <1>1, InCall
<1>5. ThreadKind(t, Kind)'
  BY <1>1, <1>3 DEF Kinds, ThreadKind
<1>6. \A u \in Threads \ {t} : temporary'[u] = temporary[u]
  BY <1>1 DEF Leaving, Destroy, Types
<1>7. CASE UNCHANGED queue
  BY <1>1, <1>4, <1>5, <1>6, <1>7, KindsKept, {} \in SUBSET Queues DEF Capacity, alive
<1>8. ASSUME NEW o, queue' = [queue EXCEPT ![q] = o], call[t].op \in OwningOps,
             o # Nil => o.m_maximumSize \in Kind[q]
      PROVE  Kinds(Kind)'
  <2>1. \A u \in Threads \ {t} : call[u].other # q
    BY <1>1, <1>2, <1>8 DEF Control, Exist, Involved
  <2> HIDE DEF q
  <2>2. queue'[q] = o /\ \A x \in Queues \ {q} : queue'[x] = queue[x]
    BY <1>1, <1>2, <1>8 DEF Types
  <2>3. \A x \in Queues \ {q} : Capacity(x)' = Capacity(x) /\ (x \in alive' => x \in alive)
    BY <2>2 DEF Capacity, alive
  <2>4. \A x \in {q} : x \in alive' => Capacity(x)' \in Kind[x]
    BY <1>8, <2>2 DEF Capacity, alive
  <2>5. {q} \in SUBSET Queues
    BY <1>2
  <2> QED
    BY <1>1, <1>4, <1>5, <1>6, <2>1, <2>3, <2>4, <2>5, KindsKept
<1>9. CASE Leaving(t) /\ call[t].op = "move_construct"
  <2>1. pc[t] = "leave" /\ queue' = [queue EXCEPT ![q] = temporary[t]]
    BY <1>9 DEF Leaving
  <2>2. temporary[t].m_maximumSize \in Kind[q]
    BY <1>9, <2>1 DEF Kinds, ThreadKind
  <2> QED
    BY <1>8, <1>9, <2>1, <2>2 DEF OwningOps
<1>10. CASE Destroy(t)
  BY <1>1, <1>8, <1>10 DEF Destroy, Control, AtPlace, OwningOps
<1>11. CASE Leaving(t) /\ call[t].op # "move_construct"
  BY <1>7, <1>11 DEF Leaving
<1> QED
  BY <1>9, <1>10, <1>11

LEMMA KindsOutside ==
  ASSUME Control, NEW Kind, Kinds(Kind), NEW t \in Threads,
         (\E c \in Menu[t] : Call(t, c)) \/ Return(t)
  PROVE  Kinds(Kind)'
<1>1. PICK place, c :
         /\ pc' = [pc EXCEPT ![t] = place] /\ call' = [call EXCEPT ![t] = c]
         /\ c \in Menu[t] \cup {NoCall} /\ queue' = queue
         /\ place \notin {"copy", "contend", "swap", "half", "leave"}
         /\ place = "claim" => c.op # "copy_assign"
  <2>1. CASE Return(t)
    BY <2>1 DEF Return, Goto
  <2>2. ASSUME NEW d \in Menu[t], Call(t, d)
        PROVE  \E place, c :
                 /\ pc' = [pc EXCEPT ![t] = place] /\ call' = [call EXCEPT ![t] = c]
                 /\ c \in Menu[t] \cup {NoCall} /\ queue' = queue
                 /\ place \notin {"copy", "contend", "swap", "half", "leave"}
                 /\ place = "claim" => c.op # "copy_assign"
    <3> DEFINE place == CASE d.op \in SingleOps -> "lock"
                          [] d.op \in CopyOps   -> "read"
                          [] d.op \in SwapOps   -> "claim"
                          [] OTHER              -> "destroy"
    <3>1. d.op = "copy_assign" => place = "read"
      BY DEF SingleOps, PushOps, PopOps, CopyOps, SwapOps
    <3>2. place \in {"lock", "read", "claim", "destroy"}
      OBVIOUS
    <3>3. pc' = [pc EXCEPT ![t] = place] /\ call' = [call EXCEPT ![t] = d] /\ queue' = queue
      BY <2>2 DEF Call, Goto
    <3> HIDE DEF place
    <3> QED
      BY <3>1, <3>2, <3>3
  <2> QED
    BY <2>1, <2>2
<1>2. /\ pc'[t] = place /\ call'[t] = c
      /\ \A u \in Threads \ {t} : pc'[u] = pc[u] /\ call'[u] = call[u]
  BY <1>1 DEF Control, Types
<1>3. \A u \in Threads \ {t} : temporary'[u] = temporary[u]
  BY DEF Call, Return, Control, Types
<1>4. ThreadKind(t, Kind)'
  BY <1>1, <1>2 DEF ThreadKind
<1>5. ASSUME NEW u \in Threads \ {t}
      PROVE  ThreadKind(u, Kind)'
  <2>1. Undisturbed(u, call[u])' <=> Undisturbed(u, call[u])
    BY <1>2 DEF Undisturbed
  <2> QED
    BY <1>1, <1>2, <1>3, <2>1 DEF Kinds, ThreadKind, Capacity
<1>6. \A q \in alive' : Capacity(q)' \in Kind[q]
  BY <1>1 DEF Kinds, Capacity, alive
<1> QED
  BY <1>4, <1>5, <1>6 DEF Kinds

LEMMA KindsInit ==
  ASSUME Init, NEW Kind, Settled(Kind)
  PROVE  Kinds(Kind)
<1>1. ASSUME NEW q \in alive
      PROVE  Capacity(q) \in Kind[q]
  <2>1. q \in Queues /\ Start[q] # 0 /\ queue[q] = Allocated(Start[q])
    BY DEF alive, Init
  <2> QED
    BY <2>1 DEF Settled, Capacity, Allocated
<1>2. \A t \in Threads : ThreadKind(t, Kind)
  BY DEF Init, ThreadKind, NoCall
<1> QED
  BY <1>1, <1>2 DEF Kinds

LEMMA KindsStep ==
  ASSUME NEW e \in BOOLEAN, IInv(e), NEW Kind, Settled(Kind), Kinds(Kind), [Next]_vars
  PROVE  Kinds(Kind)'
<1>1. ASSUME NEW t \in Threads, Inner(t)
      PROVE  Kinds(Kind)'
  BY <1>1, KindsSingle, KindsCopy, KindsSwap, KindsOwn DEF Inner
<1>2. ASSUME NEW t \in Threads, (\E c \in Menu[t] : Call(t, c)) \/ Return(t)
      PROVE  Kinds(Kind)'
  BY <1>2, KindsOutside DEF IInv
<1>3. CASE UNCHANGED vars
  <2>1. \A t \in Threads : Undisturbed(t, call[t])' <=> Undisturbed(t, call[t])
    BY <1>3 DEF vars, Undisturbed
  <2> QED
    BY <1>3, <2>1 DEF vars, Kinds, ThreadKind, Capacity, alive
<1> QED
  BY <1>1, <1>2, <1>3, NextLemma

\* Each copy's original can only have one capacity, or no other thread exchanges it.
OneCapacity(S) == \A m, n \in S : m = n

CopiesSettled(Kind) ==
  \A t \in Threads : \A c \in Menu[t] :
    c.op \in CopyOps => OneCapacity(Kind[c.other] \ {0}) \/ Undisturbed(t, c)

LEMMA FitLemma ==
  ASSUME IInv(TRUE), NEW Kind, Kinds(Kind), CopiesSettled(Kind)
  PROVE  CopiesFit
<1>1. ASSUME NEW t \in Threads, pc[t] = "copy", m_mutex[call[t].other] = Nil
      PROVE  queue[call[t].other].m_size <= temporary[t].m_maximumSize
  <2> DEFINE p == call[t].other
             n == temporary[t].m_maximumSize
  <2>1. call[t] \in CallRecord /\ call[t].op \in CopyOps
    BY <1>1 DEF IInv, Control, Types, AtPlace
  <2>2. p \in alive
    BY <2>1, CallsLemma DEF IInv, Control, Exist
  <2>3. Fine(queue[p], TRUE)
    BY <1>1, <2>2, FreeLemma
  <2>4. /\ queue[p].m_size \in Nat /\ queue[p].m_maximumSize \in Nat
        /\ queue[p].m_size <= queue[p].m_maximumSize
    BY <2>3, CapacitiesLemma DEF Fine, Shape, WellFormed
  <2>5. call[t] \in Menu[t]
    BY <2>1, CallsLemma DEF Kinds, ThreadKind
  <2>6. n \in Kind[p] \ {0} /\ (Undisturbed(t, call[t]) => n = queue[p].m_maximumSize)
    BY <1>1 DEF Kinds, ThreadKind, Capacity
  <2>7. queue[p].m_maximumSize \in Kind[p]
    BY <2>2 DEF Kinds, Capacity
  <2>8. queue[p].m_maximumSize \in {0, n}
    BY <2>1, <2>5, <2>6, <2>7 DEF CopiesSettled, OneCapacity
  <2>9. n \in Nat
    <3>1. PICK N \in Capacities : temporary[t] = Allocated(N)
      BY <1>1 DEF IInv, Whole, FineTemporary
    <3> QED
      BY <3>1, AllocatedCapacity
  <2> QED
    BY <2>4, <2>8, <2>9
<1> QED
  BY <1>1 DEF CopiesFit

\* If no queue that is copied can change from one capacity to another while the
\* copy is made, every copy fits, although its capacity is read without the mutex: the
\* members of a queue belong together, and a destructor meets no raw storage but the
\* slots whose constructor threw.  An original that another thread moves from in
\* between has no capacity, but also nothing to copy.
THEOREM SettledIntact ==
  ASSUME NEW Kind, Settled(Kind), CopiesSettled(Kind)
  PROVE  Spec => []RingsIntact /\ []NoRawDestroyed
<1> DEFINE Inv == IInv(TRUE) /\ Kinds(Kind)
<1>1. Init => Inv
  BY InitIInv, KindsInit
<1>2. Inv /\ [Next]_vars => Inv'
  BY StepIInv, KindsStep, FitLemma
<1>3. Inv => RingsIntact /\ NoRawDestroyed
  BY IntactStep
<1> QED
  BY <1>1, <1>2, <1>3, PTL DEF Spec

\* In particular if all queues that exist at first have one capacity.
COROLLARY EqualCapacitiesIntact ==
  ASSUME NEW n \in Nat, \A q \in Queues : Start[q] \in {0, n}
  PROVE  Spec => []RingsIntact /\ []NoRawDestroyed
<1> DEFINE Kind == [q \in Queues |-> {0, n}]
<1>1. \A t \in Threads : \A c \in Menu[t] :
        c.op \in CopyOps \cup SwapOps => c.q \in Queues /\ c.other \in Queues
  BY MenuAssumption, CallsLemma
<1>2. Settled(Kind)
  BY <1>1 DEF Settled, SwapOps, CopyOps
<1>3. CopiesSettled(Kind)
  BY <1>1 DEF CopiesSettled, OneCapacity
<1> HIDE DEF Kind
<1> QED
  BY <1>2, <1>3, SettledIntact

-----------------------------------------------------------------------------
(* Nobody is stranded without an exchange. *)

Served == \A q \in alive \ unnotified : ~Torn(q) => ElementsServed(q) /\ SpaceServed(q)

LEMMA CardinalityKept ==
  ASSUME IsFiniteSet(Threads), NEW S, NEW T, S \subseteq T, T \subseteq Threads
  PROVE  /\ Cardinality(S) \in Nat
         /\ Cardinality(T) \in Nat
         /\ Cardinality(S) <= Cardinality(T)
<1>1. IsFiniteSet(T)
  BY FS_Subset
<1> QED
  BY <1>1, FS_Subset, FS_CardinalityType

LEMMA CardinalityLessOne ==
  ASSUME IsFiniteSet(Threads), NEW S, NEW T, NEW t,
         S \subseteq Threads, T \subseteq Threads, S \ {t} \subseteq T
  PROVE  /\ Cardinality(S) \in Nat
         /\ Cardinality(T) \in Nat
         /\ Cardinality(S) <= Cardinality(T) + 1
<1>1. IsFiniteSet(S) /\ IsFiniteSet(T)
  BY FS_Subset
<1>2. Cardinality(S \ {t}) <= Cardinality(T) /\ Cardinality(S \ {t}) \in Nat
  BY CardinalityKept
<1>3. Cardinality(S) \in Nat /\ Cardinality(T) \in Nat
  BY <1>1, FS_CardinalityType
<1>4. Cardinality(S) = Cardinality(S \ {t}) \/ Cardinality(S) - 1 = Cardinality(S \ {t})
  BY <1>1, FS_RemoveElement
<1> QED
  BY <1>2, <1>3, <1>4

LEMMA CardinalityOneMore ==
  ASSUME IsFiniteSet(Threads), NEW S, NEW T, NEW t,
         t \notin S, S \cup {t} \subseteq T, T \subseteq Threads
  PROVE  /\ Cardinality(S) \in Nat
         /\ Cardinality(T) \in Nat
         /\ Cardinality(S) + 1 <= Cardinality(T)
<1>1. IsFiniteSet(S)
  BY FS_Subset
<1>2. Cardinality(S \cup {t}) <= Cardinality(T) /\ Cardinality(T) \in Nat
  BY CardinalityKept
<1>3. Cardinality(S) \in Nat /\ Cardinality(S \cup {t}) = Cardinality(S) + 1
  BY <1>1, FS_AddElement, FS_CardinalityType
<1> QED
  BY <1>2, <1>3

\* Each lemma looks at one queue and one side of it.
LEMMA ElementsKept ==
  ASSUME IsFiniteSet(Threads), NEW q, ElementsServed(q),
         queue'[q].m_size = queue[q].m_size, queue[q].m_size \in Nat,
         m_hasElements'[q] # {} => m_hasElements[q] # {},
         OnTheWay(q, PopOps) \subseteq OnTheWay(q, PopOps)'
  PROVE  ElementsServed(q)'
<1>1. OnTheWay(q, PopOps)' \subseteq Threads
  BY DEF OnTheWay
<1>2. /\ Cardinality(OnTheWay(q, PopOps)) \in Nat /\ Cardinality(OnTheWay(q, PopOps)') \in Nat
      /\ Cardinality(OnTheWay(q, PopOps)) <= Cardinality(OnTheWay(q, PopOps)')
  BY <1>1, CardinalityKept
<1> QED
  BY <1>2 DEF ElementsServed

LEMMA SpaceKept ==
  ASSUME IsFiniteSet(Threads), NEW q, SpaceServed(q),
         queue'[q].m_size = queue[q].m_size, queue[q].m_size \in Nat,
         queue'[q].m_maximumSize = queue[q].m_maximumSize, queue[q].m_maximumSize \in Nat,
         m_hasSpace'[q] # {} => m_hasSpace[q] # {},
         OnTheWay(q, PushOps) \subseteq OnTheWay(q, PushOps)'
  PROVE  SpaceServed(q)'
<1>1. OnTheWay(q, PushOps)' \subseteq Threads
  BY DEF OnTheWay
<1>2. /\ Cardinality(OnTheWay(q, PushOps)) \in Nat /\ Cardinality(OnTheWay(q, PushOps)') \in Nat
      /\ Cardinality(OnTheWay(q, PushOps)) <= Cardinality(OnTheWay(q, PushOps)')
  BY <1>1, CardinalityKept
<1> QED
  BY <1>2 DEF SpaceServed

\* Who takes an element (a slot) was on its way to it.
LEMMA ElementsTaken ==
  ASSUME IsFiniteSet(Threads), NEW q, NEW t, ElementsServed(q),
         queue'[q].m_size = queue[q].m_size - 1, queue[q].m_size \in Nat,
         m_hasElements'[q] # {} => m_hasElements[q] # {},
         OnTheWay(q, PopOps) \ {t} \subseteq OnTheWay(q, PopOps)'
  PROVE  ElementsServed(q)'
<1>1. OnTheWay(q, PopOps)' \subseteq Threads /\ OnTheWay(q, PopOps) \subseteq Threads
  BY DEF OnTheWay
<1>2. /\ Cardinality(OnTheWay(q, PopOps)) \in Nat /\ Cardinality(OnTheWay(q, PopOps)') \in Nat
      /\ Cardinality(OnTheWay(q, PopOps)) <= Cardinality(OnTheWay(q, PopOps)') + 1
  BY <1>1, CardinalityLessOne
<1> QED
  BY <1>2 DEF ElementsServed

LEMMA SpaceTaken ==
  ASSUME IsFiniteSet(Threads), NEW q, NEW t, SpaceServed(q),
         queue'[q].m_size = queue[q].m_size + 1, queue[q].m_size \in Nat,
         queue'[q].m_maximumSize = queue[q].m_maximumSize, queue[q].m_maximumSize \in Nat,
         m_hasSpace'[q] # {} => m_hasSpace[q] # {},
         OnTheWay(q, PushOps) \ {t} \subseteq OnTheWay(q, PushOps)'
  PROVE  SpaceServed(q)'
<1>1. OnTheWay(q, PushOps)' \subseteq Threads /\ OnTheWay(q, PushOps) \subseteq Threads
  BY DEF OnTheWay
<1>2. /\ Cardinality(OnTheWay(q, PushOps)) \in Nat /\ Cardinality(OnTheWay(q, PushOps)') \in Nat
      /\ Cardinality(OnTheWay(q, PushOps)) <= Cardinality(OnTheWay(q, PushOps)') + 1
  BY <1>1, CardinalityLessOne
<1> QED
  BY <1>2 DEF SpaceServed

\* A new element (slot) is announced to one of those that are blocked.
LEMMA ElementsAdded ==
  ASSUME IsFiniteSet(Threads), NEW q, NEW w, ElementsServed(q),
         queue'[q].m_size = queue[q].m_size + 1, queue[q].m_size \in Nat,
         m_hasElements[q] # {}, w \notin OnTheWay(q, PopOps),
         OnTheWay(q, PopOps) \cup {w} \subseteq OnTheWay(q, PopOps)'
  PROVE  ElementsServed(q)'
<1>1. OnTheWay(q, PopOps)' \subseteq Threads
  BY DEF OnTheWay
<1>2. /\ Cardinality(OnTheWay(q, PopOps)) \in Nat /\ Cardinality(OnTheWay(q, PopOps)') \in Nat
      /\ Cardinality(OnTheWay(q, PopOps)) + 1 <= Cardinality(OnTheWay(q, PopOps)')
  BY <1>1, CardinalityOneMore
<1> QED
  BY <1>2 DEF ElementsServed

LEMMA SpaceAdded ==
  ASSUME IsFiniteSet(Threads), NEW q, NEW w, SpaceServed(q),
         queue'[q].m_size = queue[q].m_size - 1, queue[q].m_size \in Nat,
         queue'[q].m_maximumSize = queue[q].m_maximumSize, queue[q].m_maximumSize \in Nat,
         m_hasSpace[q] # {}, w \notin OnTheWay(q, PushOps),
         OnTheWay(q, PushOps) \cup {w} \subseteq OnTheWay(q, PushOps)'
  PROVE  SpaceServed(q)'
<1>1. OnTheWay(q, PushOps)' \subseteq Threads
  BY DEF OnTheWay
<1>2. /\ Cardinality(OnTheWay(q, PushOps)) \in Nat /\ Cardinality(OnTheWay(q, PushOps)') \in Nat
      /\ Cardinality(OnTheWay(q, PushOps)) + 1 <= Cardinality(OnTheWay(q, PushOps)')
  BY <1>1, CardinalityOneMore
<1> QED
  BY <1>2 DEF SpaceServed

\* Without elements (free slots) there is nothing to serve.
LEMMA NothingToServe ==
  ASSUME IsFiniteSet(Threads), NEW q
  PROVE  /\ queue'[q].m_size = 0 => ElementsServed(q)'
         /\ queue'[q].m_maximumSize \in Nat /\ queue'[q].m_size = queue'[q].m_maximumSize
              => SpaceServed(q)'
<1>1. OnTheWay(q, PopOps)' \subseteq Threads /\ OnTheWay(q, PushOps)' \subseteq Threads
  BY DEF OnTheWay
<1>2. Cardinality(OnTheWay(q, PopOps)') \in Nat /\ Cardinality(OnTheWay(q, PushOps)') \in Nat
  BY <1>1, CardinalityKept
<1> QED
  BY <1>2 DEF ElementsServed, SpaceServed

\* Nobody waits at a queue that does not exist.
LEMMA NobodyWaits ==
  ASSUME Control, NEW q \in Queues, q \notin alive
  PROVE  m_hasSpace[q] = {} /\ m_hasElements[q] = {}
<1>1. ASSUME NEW t \in m_hasSpace[q] \cup m_hasElements[q]
      PROVE  FALSE
  <2>1. t \in Threads
    BY DEF Control, Types
  <2>2. pc[t] = "waiting" /\ call[t].q = q /\ call[t].op \in PushOps \cup PopOps
    BY <1>1 DEF Control, Waiting
  <2> QED
    BY <2>1, <2>2 DEF Control, Exist, OwningOps, PushOps, PopOps
<1> QED
  BY <1>1

\* The steps of t that leave queue q alone.
LEMMA ServedElsewhere ==
  ASSUME IsFiniteSet(Threads), Control, NEW t \in Threads, Within(t), NEW q \in Queues,
         q \in alive => ElementsServed(q) /\ SpaceServed(q),
         q \in alive => queue'[q] = queue[q],
         m_hasSpace'[q] \subseteq m_hasSpace[q], m_hasElements'[q] \subseteq m_hasElements[q],
         pc[t] \in {"lock", "relock"} => \/ pc'[t] \in {"lock", "relock"}
                                         \/ call[t].q # q
                                         \/ call[t].op = "size"
  PROVE  ElementsServed(q)' /\ SpaceServed(q)'
<1>1. CASE q \in alive
  <2>1. queue[q] \in Object
    BY <1>1 DEF Control, Types, alive
  <2>2. queue[q].m_size \in Nat /\ queue[q].m_maximumSize \in Nat
    BY <2>1, CapacitiesLemma DEF Object
  <2>3. /\ OnTheWay(q, PopOps) \subseteq OnTheWay(q, PopOps)'
        /\ OnTheWay(q, PushOps) \subseteq OnTheWay(q, PushOps)'
    BY DEF Within, OnTheWay, PopOps, PushOps
  <2>4. ElementsServed(q)'
    BY <1>1, <2>2, <2>3, ElementsKept
  <2>5. SpaceServed(q)'
    BY <1>1, <2>2, <2>3, SpaceKept
  <2> QED
    BY <2>4, <2>5
<1>2. CASE q \notin alive
  <2>1. m_hasSpace'[q] = {} /\ m_hasElements'[q] = {}
    BY <1>2, NobodyWaits
  <2> QED
    BY <2>1 DEF ElementsServed, SpaceServed
<1> QED
  BY <1>1, <1>2

LEMMA NotifyConds ==
  ASSUME Control, NEW t \in Threads, NEW q \in Queues, q = call[t].q, pc[t] # "waiting",
         NEW cond, cond = m_hasSpace \/ cond = m_hasElements, NotifyOne(t, cond)
  PROVE  /\ \A p \in Queues : m_hasSpace'[p] \subseteq m_hasSpace[p]
         /\ \A p \in Queues : m_hasElements'[p] \subseteq m_hasElements[p]
         /\ \/ cond[q] = {} /\ UNCHANGED conds
            \/ \E w \in cond[q] : w \in Threads \ {t} /\ pc[w] = "waiting" /\ pc'[w] = "relock"
<1>1. /\ m_hasSpace \in [Queues -> SUBSET Threads] /\ m_hasElements \in [Queues -> SUBSET Threads]
      /\ pc \in [Threads -> Places]
      /\ \A w \in m_hasSpace[q] \cup m_hasElements[q] : w \in Threads /\ pc[w] = "waiting"
  <2>1. /\ m_hasSpace \in [Queues -> SUBSET Threads] /\ m_hasElements \in [Queues -> SUBSET Threads]
        /\ pc \in [Threads -> Places]
    BY DEF Control, Types
  <2>2. \A w \in m_hasSpace[q] \cup m_hasElements[q] : pc[w] = "waiting"
    BY DEF Control, Waiting
  <2> QED
    BY <2>1, <2>2
<1>2. CASE cond[q] = {}
  BY <1>2 DEF NotifyOne, conds
<1>3. CASE cond[q] # {}
  <2>1. PICK w \in cond[q] : /\ pc' = [pc EXCEPT ![t] = "return", ![w] = "relock"]
                             /\ m_hasSpace'    = [m_hasSpace EXCEPT ![q] = @ \ {w}]
                             /\ m_hasElements' = [m_hasElements EXCEPT ![q] = @ \ {w}]
    BY <1>3 DEF NotifyOne
  <2>2. w \in Threads \ {t} /\ pc[w] = "waiting" /\ pc'[w] = "relock"
    BY <1>1, <2>1
  <2>3. \A p \in Queues : /\ m_hasSpace'[p] \subseteq m_hasSpace[p]
                          /\ m_hasElements'[p] \subseteq m_hasElements[p]
    BY <1>1, <2>1
  <2> QED
    BY <2>2, <2>3
<1> QED
  BY <1>2, <1>3

LEMMA OnTheWayStep ==
  ASSUME NEW t \in Threads, Within(t), NEW q, NEW ops
  PROVE  /\ OnTheWay(q, ops) \ {t} \subseteq OnTheWay(q, ops)'
         /\ \A w \in Threads : pc'[w] = "relock" /\ call[w].op \in ops /\ call[w].q = q
              => w \in OnTheWay(q, ops)'
BY DEF Within, OnTheWay

LEMMA PushServed ==
  ASSUME IsFiniteSet(Threads), Control, NEW t \in Threads, Push(t) \/ Pop(t), NEW q \in Queues,
         q \in alive, ElementsServed(q), SpaceServed(q)
  PROVE  ElementsServed(q)' /\ SpaceServed(q)'
<1> DEFINE o == queue[q]
<1>1. Within(t) /\ call' = call
  BY WithinLemma DEF Inner, Within
<1>2. pc[t] \in {"lock", "relock"} /\ call[t].q \in Queues
  <2>1. pc[t] \in {"lock", "relock"}
    BY DEF Push, Pop, Locks
  <2> QED
    BY <2>1, InCall
<1>3. o \in Object /\ o.m_size \in Nat /\ o.m_maximumSize \in Nat
  BY CapacitiesLemma DEF Control, Types, alive, Object
<1>4. /\ \A p \in Queues : m_hasSpace'[p] \subseteq m_hasSpace[p]
      /\ \A p \in Queues : m_hasElements'[p] \subseteq m_hasElements[p]
  BY <1>2, NotifyConds DEF Push, Pop
<1>5. CASE q # call[t].q
  <2>1. queue'[q] = queue[q]
    BY <1>2, <1>5 DEF Push, Pop, Control, Types
  <2>2. m_hasSpace'[q] \subseteq m_hasSpace[q] /\ m_hasElements'[q] \subseteq m_hasElements[q]
    BY <1>4
  <2> QED
    BY <1>1, <1>5, <2>1, <2>2, ServedElsewhere
<1>6. CASE q = call[t].q /\ Push(t)
  <2>1. call[t].op \in PushOps /\ NotifyOne(t, m_hasElements)
    BY <1>6 DEF Push
  <2>2. queue'[q].m_size = o.m_size + 1 /\ queue'[q].m_maximumSize = o.m_maximumSize
    <3>1. queue'[q] = do_push(o, call[t].elem)
      BY <1>6 DEF Push, Control, Types
    <3> QED
      BY <1>3, <3>1 DEF do_push, Object
  <2> HIDE DEF o
  <2>3. SpaceServed(q)'
    BY <1>1, <1>3, <1>4, <2>2, SpaceTaken, OnTheWayStep DEF o
  <2>4. CASE m_hasElements'[q] = {}
    BY <2>3, <2>4 DEF ElementsServed
  <2>5. CASE m_hasElements'[q] # {}
    <3>1. m_hasElements[q] # {}
      BY <1>4, <2>5
    <3>2. PICK w \in m_hasElements[q] : w \in Threads \ {t} /\ pc[w] = "waiting" /\ pc'[w] = "relock"
      BY <1>2, <1>6, <2>1, <3>1, NotifyConds
    <3>3. call[w].op \in PopOps /\ call[w].q = q
      BY <3>2 DEF Control, Waiting
    <3>4. t \notin OnTheWay(q, PopOps) /\ w \notin OnTheWay(q, PopOps)
      BY <2>1, <3>2 DEF OnTheWay, PushOps, PopOps
    <3>5. OnTheWay(q, PopOps) \cup {w} \subseteq OnTheWay(q, PopOps)'
      BY <1>1, <3>2, <3>3, <3>4, OnTheWayStep
    <3>6. ElementsServed(q)'
      BY <1>3, <2>2, <3>1, <3>4, <3>5, ElementsAdded DEF o
    <3> QED
      BY <2>3, <3>6
  <2> QED
    BY <2>4, <2>5
<1>7. CASE q = call[t].q /\ Pop(t)
  <2>1. call[t].op \in PopOps /\ NotifyOne(t, m_hasSpace)
    BY <1>7 DEF Pop
  <2>2. queue'[q].m_size = o.m_size - 1 /\ queue'[q].m_maximumSize = o.m_maximumSize
    <3>1. queue'[q] = do_pop(o)
      BY <1>7 DEF Pop, Control, Types
    <3> QED
      BY <1>3, <3>1 DEF do_pop, Object
  <2> HIDE DEF o
  <2>3. ElementsServed(q)'
    BY <1>1, <1>3, <1>4, <2>2, ElementsTaken, OnTheWayStep DEF o
  <2>4. CASE m_hasSpace'[q] = {}
    BY <2>3, <2>4 DEF SpaceServed
  <2>5. CASE m_hasSpace'[q] # {}
    <3>1. m_hasSpace[q] # {}
      BY <1>4, <2>5
    <3>2. PICK w \in m_hasSpace[q] : w \in Threads \ {t} /\ pc[w] = "waiting" /\ pc'[w] = "relock"
      BY <1>2, <1>7, <2>1, <3>1, NotifyConds
    <3>3. call[w].op \in PushOps /\ call[w].q = q
      BY <3>2 DEF Control, Waiting
    <3>4. t \notin OnTheWay(q, PushOps) /\ w \notin OnTheWay(q, PushOps)
      BY <2>1, <3>2 DEF OnTheWay, PushOps, PopOps
    <3>5. OnTheWay(q, PushOps) \cup {w} \subseteq OnTheWay(q, PushOps)'
      BY <1>1, <3>2, <3>3, <3>4, OnTheWayStep
    <3>6. SpaceServed(q)'
      BY <1>3, <2>2, <3>1, <3>4, <3>5, SpaceAdded DEF o
    <3> QED
      BY <2>3, <3>6
  <2> QED
    BY <2>4, <2>5
<1> QED
  BY <1>5, <1>6, <1>7

\* A thread that finds nothing to do leaves nothing behind for the others.
LEMMA RefuseServed ==
  ASSUME IsFiniteSet(Threads), Control, NEW t \in Threads, Refuse(t) \/ Block(t),
         NEW q \in Queues, q \in alive, ElementsServed(q), SpaceServed(q)
  PROVE  ElementsServed(q)' /\ SpaceServed(q)'
<1> DEFINE o == queue[q]
<1>1. Within(t) /\ call' = call /\ queue' = queue
  BY WithinLemma DEF Inner, Within, Refuse, Block
<1>2. pc[t] \in {"lock", "relock"} /\ call[t].q \in Queues /\ call[t].op \in PushOps \cup PopOps
  <2>1. pc[t] \in {"lock", "relock"}
    BY DEF Refuse, Block, Locks
  <2>2. call[t].q \in Queues /\ call[t].op \in SingleOps
    BY <2>1, InCall
  <2>3. call[t].op \in PushOps \cup PopOps
    BY DEF Refuse, Block, WaitOps, TimedOps, PushOps, PopOps
  <2> QED
    BY <2>1, <2>2, <2>3
<1>3. o \in Object /\ o.m_size \in Nat /\ o.m_maximumSize \in Nat
  BY CapacitiesLemma DEF Control, Types, alive, Object
<1>4. /\ \A p \in Queues \ {call[t].q} : m_hasSpace'[p] = m_hasSpace[p]
                                         /\ m_hasElements'[p] = m_hasElements[p]
      /\ call[t].op \in PushOps => m_hasElements' = m_hasElements
      /\ call[t].op \notin PushOps => m_hasSpace' = m_hasSpace
  BY DEF Refuse, Block, conds, Control, Types
<1>5. CASE q # call[t].q
  BY <1>1, <1>4, <1>5, ServedElsewhere
<1>6. CASE q = call[t].q /\ call[t].op \in PushOps
  <2>1. o.m_size = o.m_maximumSize
    BY <1>6 DEF Refuse, Block, Ready, do_full
  <2>2. SpaceServed(q)'
    BY <1>1, <1>3, <2>1, NothingToServe
  <2>3. t \notin OnTheWay(q, PopOps)
    BY <1>6 DEF OnTheWay, PushOps, PopOps
  <2>4. OnTheWay(q, PopOps) \subseteq OnTheWay(q, PopOps)'
    BY <1>1, <2>3, OnTheWayStep
  <2>5. ElementsServed(q)'
    BY <1>1, <1>3, <1>4, <1>6, <2>4, ElementsKept
  <2> QED
    BY <2>2, <2>5
<1>7. CASE q = call[t].q /\ call[t].op \notin PushOps
  <2>1. o.m_size = 0
    BY <1>7 DEF Refuse, Block, Ready, do_empty
  <2>2. ElementsServed(q)'
    BY <1>1, <1>3, <2>1, NothingToServe
  <2>3. t \notin OnTheWay(q, PushOps)
    BY <1>7 DEF OnTheWay
  <2>4. OnTheWay(q, PushOps) \subseteq OnTheWay(q, PushOps)'
    BY <1>1, <2>3, OnTheWayStep
  <2>5. SpaceServed(q)'
    BY <1>1, <1>3, <1>4, <1>7, <2>4, SpaceKept
  <2> QED
    BY <2>2, <2>5
<1> QED
  BY <1>5, <1>6, <1>7

\* A queue that is not torn after a step, nor was ever changed without notice, was
\* so before, or did not exist.
LEMMA ServedBefore ==
  ASSUME NEW e \in BOOLEAN, IInv(e), Served, NEW t \in Threads, Inner(t), ObjectsStep(t, e),
         NEW q \in alive', q \notin unnotified', ~Torn(q)'
  PROVE  /\ q \in Queues
         /\ q \in alive => ElementsServed(q) /\ SpaceServed(q)
         /\ q \in alive => q \notin unnotified /\ ~Torn(q)
         /\ pc[t] = "half" => q \notin Shared(t)
<1>1. Within(t) /\ call' = call /\ q \in Queues
  BY WithinLemma DEF IInv, Within, alive
<1>2. pc[t] = "half" => q \notin Shared(t)
  <2>1. pc[t] = "half" => SwapStorage(t)
    BY DEF Inner, Push, Pop, PushFails, PopFails, Fail, Size, Refuse, Block, Expire,
           WakeSpuriously, Locks, ReadCapacity, CopyElements, CopyThrows, KeepSelf, LockFirst,
           LockSecond, BackOff, SwapIndices, Leaving, Destroy
  <2> QED
    BY <2>1 DEF SwapStorage
<1>3. q \in alive => q \notin unnotified
  <2>1. CASE Destroy(t)
    <3>1. q # call[t].q
      BY <1>1, <2>1 DEF Destroy, alive, IInv, Control, Types
    <3> QED
      BY <2>1, <3>1 DEF Destroy
  <2>2. CASE ~Destroy(t)
    <3>1. unnotified \subseteq unnotified'
      BY <2>2 DEF Inner, Push, Pop, PushFails, PopFails, Fail, Size, Refuse, Block, Expire,
                  WakeSpuriously, Leave, ReadCapacity, CopyElements, CopyThrows, KeepSelf,
                  LockFirst, LockSecond, BackOff, SwapIndices, SwapStorage, Leaving, histories
    <3> QED
      BY <3>1
  <2> QED
    BY <2>1, <2>2
<1>4. ~Torn(q)
  <2>1. ASSUME NEW u \in Threads, pc[u] = "half", q \in Shared(u)
        PROVE  FALSE
    <3>1. u # t
      BY <1>2, <2>1
    <3>2. pc'[u] = "half"
      BY <1>1, <2>1, <3>1 DEF Within
    <3> QED
      BY <1>1, <2>1, <3>2 DEF Torn, Shared
  <2> QED
    BY <2>1 DEF Torn
<1> QED
  BY <1>1, <1>2, <1>3, <1>4 DEF Served

\* Only the calls on one queue change it where it is neither constructed nor
\* destroyed nor exchanged.
LEMMA OthersKeep ==
  ASSUME IInv(FALSE), NEW t \in Threads, Inner(t),
         ~(Push(t) \/ Pop(t) \/ PushFails(t) \/ PopFails(t)),
         NEW q \in alive, q \in alive', ~Torn(q)', pc[t] = "half" => q \notin Shared(t)
  PROVE  queue'[q] = queue[q]
<1>1. /\ Within(t) /\ Control /\ call' = call /\ q \in Queues
      /\ queue \in [Queues -> Object \cup {Nil}]
  BY WithinLemma DEF IInv, Control, Types, Within, alive
<1>2. CASE CopyElements(t)
  <2>1. pc[t] = "copy" /\ Deliver(t, Copied(t, queue[call[t].other].m_size))
    BY <1>2 DEF CopyElements
  <2>2. CASE call[t].op = "copy_construct"
    <3>1. q # call[t].q
      BY <1>1, <2>1, <2>2 DEF Control, Exist, ConstructOps, OwningOps
    <3> QED
      BY <1>1, <2>1, <2>2, <3>1 DEF Deliver
  <2>3. CASE call[t].op # "copy_construct"
    BY <2>1, <2>3 DEF Deliver
  <2> QED
    BY <2>2, <2>3
<1>3. CASE SwapIndices(t)
  <2>1. /\ pc[t] = "swap" /\ Become(t, WithIndices(Ours(t), Theirs(t)), WithIndices(Theirs(t), Ours(t)))
    BY <1>3 DEF SwapIndices
  <2>2. pc'[t] = "half"
    BY <1>1, <1>3, GotoLemma DEF SwapIndices, Control, Places, Exchanging
  <2>3. q \notin Shared(t)
    BY <1>1, <2>2 DEF Torn, Shared
  <2>4. /\ WithIndices(Ours(t), Theirs(t)) \in Object
        /\ WithIndices(Theirs(t), Ours(t)) \in Object
    BY <2>1, PartsLemma, HalvesLemma
  <2> QED
    BY <1>1, <2>1, <2>3, <2>4, BecomeLemma
<1>4. CASE SwapStorage(t)
  <2>1. /\ pc[t] = "half" /\ Become(t, WithStorage(Ours(t), Theirs(t)), WithStorage(Theirs(t), Ours(t)))
    BY <1>4 DEF SwapStorage
  <2>2. /\ WithStorage(Ours(t), Theirs(t)) \in Object
        /\ WithStorage(Theirs(t), Ours(t)) \in Object
    BY <2>1, PartsLemma, HalvesLemma
  <2> QED
    BY <1>1, <2>1, <2>2, BecomeLemma
<1>5. CASE Leaving(t)
  <2>1. pc[t] = "leave"
    BY <1>5 DEF Leaving
  <2>2. call[t].op = "move_construct" => q # call[t].q
    BY <1>1, <2>1 DEF Control, Exist, ConstructOps, OwningOps
  <2> QED
    BY <1>1, <1>5, <2>2 DEF Leaving
<1>6. CASE Destroy(t)
  <2>1. queue' = [queue EXCEPT ![call[t].q] = Nil]
    BY <1>6 DEF Destroy
  <2> QED
    BY <1>1, <2>1 DEF alive
<1> QED
  BY <1>2, <1>3, <1>4, <1>5, <1>6
     DEF Inner, Size, Refuse, Block, Expire, WakeSpuriously, Leave, ReadCapacity, CopyThrows,
         KeepSelf, LockFirst, LockSecond, BackOff

LEMMA ServedStep ==
  ASSUME IsFiniteSet(Threads), IInv(FALSE), Served, [Next]_vars
  PROVE  Served'
<1>1. ASSUME NEW t \in Threads, Inner(t)
      PROVE  Served'
  <2>1. Within(t) /\ ObjectsStep(t, FALSE) /\ Control /\ call' = call
    BY <1>1, WithinLemma, InnerObjects DEF IInv, Within
  <2>2. ASSUME NEW q \in alive', q \notin unnotified', ~Torn(q)'
        PROVE  ElementsServed(q)' /\ SpaceServed(q)'
    <3>1. /\ q \in Queues
          /\ q \in alive => ElementsServed(q) /\ SpaceServed(q)
          /\ pc[t] = "half" => q \notin Shared(t)
      BY <1>1, <2>1, <2>2, ServedBefore
    <3>2. CASE q \notin alive
      <4>1. pc[t] \notin {"lock", "relock"}
        BY <2>1, <2>2, <3>2 DEF ObjectsStep, Lifecycle
      <4>2. UNCHANGED conds
        BY <1>1, <4>1, <2>1, <2>2, <3>2
           DEF Inner, Push, Pop, PushFails, PopFails, Fail, Size, Refuse, Block, Expire,
               WakeSpuriously, Leave, Locks, ReadCapacity, CopyElements, CopyThrows, KeepSelf,
               LockFirst, LockSecond, BackOff, SwapIndices, SwapStorage, Leaving, Destroy, alive
      <4> QED
        BY <2>1, <3>1, <3>2, <4>1, <4>2, ServedElsewhere DEF conds
    <3>3. CASE q \in alive
      <4>1. CASE Push(t) \/ Pop(t)
        BY <2>1, <3>1, <3>3, <4>1, PushServed
      <4>2. CASE Refuse(t) \/ Block(t)
        BY <2>1, <3>1, <3>3, <4>2, RefuseServed
      <4>3. CASE Size(t)
        BY <2>1, <3>1, <4>3, ServedElsewhere DEF Size, conds
      <4>4. CASE Leave(t)
        <5>1. /\ m_hasSpace'[q] \subseteq m_hasSpace[q] /\ m_hasElements'[q] \subseteq m_hasElements[q]
              /\ pc'[t] = "relock" /\ queue' = queue
          BY <2>1, <3>1, <4>4, GotoLemma DEF Leave, Control, Types, Places
        <5> QED
          BY <2>1, <3>1, <5>1, ServedElsewhere
      <4>5. CASE PushFails(t) \/ PopFails(t)
        <5>1. unnotified' = unnotified \cup {call[t].q} /\ UNCHANGED conds
          BY <4>5 DEF PushFails, PopFails, Fail
        <5>2. q # call[t].q
          BY <2>2, <5>1
        <5>3. \/ queue' = queue
              \/ \E o : queue' = [queue EXCEPT ![call[t].q] = o]
          BY <4>5 DEF PushFails, PopFails
        <5>4. queue'[q] = queue[q]
          BY <2>1, <3>1, <5>2, <5>3 DEF Control, Types
        <5> QED
          BY <2>1, <3>1, <5>1, <5>2, <5>4, ServedElsewhere DEF conds
      <4>6. ASSUME ~(\/ Push(t) \/ Pop(t) \/ PushFails(t) \/ PopFails(t)
                     \/ Refuse(t) \/ Block(t) \/ Size(t) \/ Leave(t))
            PROVE  ElementsServed(q)' /\ SpaceServed(q)'
        <5>1. UNCHANGED conds /\ pc[t] \notin {"lock", "relock"}
          BY <1>1, <4>6
             DEF Inner, Expire, WakeSpuriously, ReadCapacity, CopyElements, CopyThrows, KeepSelf,
                 LockFirst, LockSecond, BackOff, SwapIndices, SwapStorage, Leaving, Destroy
        <5>2. queue'[q] = queue[q]
          BY <1>1, <2>2, <3>1, <3>3, <4>6, OthersKeep
        <5> QED
          BY <2>1, <3>1, <5>1, <5>2, ServedElsewhere DEF conds
      <4> QED
        BY <4>1, <4>2, <4>3, <4>4, <4>5, <4>6
    <3> QED
      BY <3>2, <3>3
  <2> QED
    BY <2>2 DEF Served
<1>2. ASSUME NEW t \in Threads, (\E c \in Menu[t] : Call(t, c)) \/ Return(t)
      PROVE  Served'
  <2>1. /\ UNCHANGED <<queue, conds, unnotified>> /\ pc[t] \in {"idle", "return"}
        /\ \A u \in Threads \ {t} : pc'[u] = pc[u] /\ call'[u] = call[u]
    <3>1. UNCHANGED <<queue, conds, unnotified>> /\ pc[t] \in {"idle", "return"}
      BY <1>2 DEF Call, Return, histories
    <3>2. \E place, c : pc' = [pc EXCEPT ![t] = place] /\ call' = [call EXCEPT ![t] = c]
      BY <1>2 DEF Call, Return, Goto
    <3>3. pc \in [Threads -> Places] /\ call \in [Threads -> CallRecord \cup {NoCall}]
      BY DEF IInv, Control, Types
    <3> QED
      BY <3>1, <3>2, <3>3
  <2>2. alive' = alive
    BY <2>1 DEF alive
  <2>3. \A q \in Queues : Torn(q) => Torn(q)'
    <3>1. ASSUME NEW q \in Queues, NEW u \in Threads, pc[u] = "half", q \in Shared(u)
          PROVE  Torn(q)'
      <4>1. u # t
        BY <2>1, <3>1
      <4> QED
        BY <2>1, <3>1, <4>1 DEF Torn, Shared
    <3> QED
      BY <3>1 DEF Torn
  <2>4. ASSUME NEW q \in alive', q \notin unnotified', ~Torn(q)'
        PROVE  ElementsServed(q)' /\ SpaceServed(q)'
    <3>1. q \in Queues /\ ElementsServed(q) /\ SpaceServed(q)
      BY <2>1, <2>2, <2>3, <2>4 DEF Served, alive
    <3>2. /\ OnTheWay(q, PopOps) \subseteq OnTheWay(q, PopOps)'
          /\ OnTheWay(q, PushOps) \subseteq OnTheWay(q, PushOps)'
      BY <2>1 DEF OnTheWay
    <3>3. queue[q] \in Object
      BY <2>2 DEF IInv, Control, Types, alive
    <3>4. queue[q].m_size \in Nat /\ queue[q].m_maximumSize \in Nat
      BY <3>3, CapacitiesLemma DEF Object
    <3>5. ElementsServed(q)'
      BY <2>1, <3>1, <3>2, <3>4, ElementsKept DEF conds
    <3>6. SpaceServed(q)'
      BY <2>1, <3>1, <3>2, <3>4, SpaceKept DEF conds
    <3> QED
      BY <3>5, <3>6
  <2> QED
    BY <2>4 DEF Served
<1>3. CASE UNCHANGED vars
  <2>1. /\ \A q \in Queues : Torn(q)' <=> Torn(q)
        /\ \A q \in Queues : ElementsServed(q)' <=> ElementsServed(q)
        /\ \A q \in Queues : SpaceServed(q)' <=> SpaceServed(q)
    BY <1>3 DEF vars, conds, Torn, Shared, ElementsServed, SpaceServed, OnTheWay
  <2> QED
    BY <1>3, <2>1 DEF vars, Served, alive
<1> QED
  BY <1>1, <1>2, <1>3, NextLemma

\* Whatever happens to other queues, whatever throws, and even if copies overflow:
\* in a queue that took part in no exchange and in which no push or pop threw, no
\* element and no free slot waits for a thread while another one is blocked and
\* nobody is on the way.
THEOREM OnlyUnnotifiedStrands ==
  ASSUME IsFiniteSet(Threads)
  PROVE  Spec => []StrandedOnlyUnnotified
<1> DEFINE Inv == IInv(FALSE) /\ Served
<1>1. Init => Inv
  <2>1. ASSUME Init
        PROVE  Served
    BY <2>1 DEF Init, Served, ElementsServed, SpaceServed, alive
  <2> QED
    BY <2>1, InitIInv
<1>2. Inv /\ [Next]_vars => Inv'
  BY StepIInv, ServedStep
<1>3. Inv => StrandedOnlyUnnotified
  <2>1. ASSUME Inv, NEW q \in alive \ unnotified, m_mutex[q] = Nil
        PROVE  ElementsServed(q) /\ SpaceServed(q)
    <3>1. ~Torn(q)
      BY <2>1, NilAssumption DEF IInv, Control, Owns, Torn
    <3> QED
      BY <2>1, <3>1 DEF Served
  <2> QED
    BY <2>1 DEF StrandedOnlyUnnotified
<1> QED
  BY <1>1, <1>2, <1>3, PTL DEF Spec

-----------------------------------------------------------------------------
(***************************************************************************)
(* The refinement: BoundedQueueObjects implements SharedQueues, for any    *)
(* threads, queues, elements, capacities and calls, as long as each copy   *)
(* finds its original with the capacity it read before.                    *)
(***************************************************************************)

(* The abstract queues. *)

LEMMA TemporaryKept ==
  ASSUME Control, NEW t \in Threads, Inner(t)
  PROVE  \A u \in Threads \ {t} : temporary'[u] = temporary[u]
<1>1. temporary' = temporary \/ \E o : temporary' = [temporary EXCEPT ![t] = o]
  BY DEF Inner, Push, Pop, PushFails, PopFails, Fail, Size, Refuse, Block, Expire,
         WakeSpuriously, Leave, ReadCapacity, CopyElements, CopyThrows, Deliver, KeepSelf,
         LockFirst, LockSecond, BackOff, SwapIndices, SwapStorage, Become, Leaving, Destroy
<1> QED
  BY <1>1 DEF Control, Types

\* What another thread exchanges is out of t's reach.
LEMMA ForeignKept ==
  ASSUME NEW e \in BOOLEAN, IInv(e), NEW t \in Threads, Inner(t),
         NEW u \in Threads \ {t}, pc[u] = "half", NEW q \in Shared(u)
  PROVE  queue'[q] = queue[q]
<1>1. Control /\ queue \in [Queues -> Object \cup {Nil}] /\ t # u /\ u # Nil /\ t # Nil
  BY NilAssumption DEF IInv, Control, Types
<1>2. q \in alive /\ q \in Queues /\ m_mutex[q] = u
  BY <1>1, OursLemma
<1>3. CASE Push(t) \/ Pop(t) \/ PushFails(t) \/ PopFails(t)
  <2>1. q # call[t].q
    BY <1>1, <1>2, <1>3 DEF Push, Pop, PushFails, PopFails, Locks
  <2>2. queue' = queue \/ \E o : queue' = [queue EXCEPT ![call[t].q] = o]
    BY <1>3 DEF Push, Pop, PushFails, PopFails
  <2> QED
    BY <1>1, <1>2, <2>1, <2>2
<1>4. CASE CopyElements(t)
  <2>1. pc[t] = "copy" /\ Deliver(t, Copied(t, queue[call[t].other].m_size))
    BY <1>4 DEF CopyElements
  <2>2. call[t].op = "copy_construct" => q # call[t].q
    BY <1>1, <1>2, <2>1 DEF Control, Exist, ConstructOps, OwningOps
  <2> QED
    BY <1>1, <1>2, <2>1, <2>2 DEF Deliver
<1>5. CASE SwapIndices(t)
  <2>1. /\ pc[t] = "swap" /\ call' = call
        /\ Become(t, WithIndices(Ours(t), Theirs(t)), WithIndices(Theirs(t), Ours(t)))
    BY <1>5 DEF SwapIndices
  <2>2. q \notin Shared(t)
    BY <1>1, <1>2, <2>1, OursLemma
  <2>3. /\ WithIndices(Ours(t), Theirs(t)) \in Object
        /\ WithIndices(Theirs(t), Ours(t)) \in Object
    BY <2>1, PartsLemma, HalvesLemma
  <2> QED
    BY <1>1, <1>2, <2>1, <2>2, <2>3, BecomeLemma
<1>6. CASE SwapStorage(t)
  <2>1. /\ pc[t] = "half" /\ call' = call
        /\ Become(t, WithStorage(Ours(t), Theirs(t)), WithStorage(Theirs(t), Ours(t)))
    BY <1>6 DEF SwapStorage
  <2>2. q \notin Shared(t)
    BY <1>1, <1>2, <2>1, OursLemma
  <2>3. /\ WithStorage(Ours(t), Theirs(t)) \in Object
        /\ WithStorage(Theirs(t), Ours(t)) \in Object
    BY <2>1, PartsLemma, HalvesLemma
  <2> QED
    BY <1>1, <1>2, <2>1, <2>2, <2>3, BecomeLemma
<1>7. CASE Leaving(t)
  <2>1. pc[t] = "leave"
    BY <1>7 DEF Leaving
  <2>2. call[t].op = "move_construct" => q # call[t].q
    BY <1>1, <1>2, <2>1 DEF Control, Exist, ConstructOps, OwningOps
  <2> QED
    BY <1>1, <1>2, <1>7, <2>2 DEF Leaving
<1>8. CASE Destroy(t)
  <2>1. pc[t] = "destroy" /\ queue' = [queue EXCEPT ![call[t].q] = Nil]
    BY <1>8 DEF Destroy
  <2>2. call[t] \in CallRecord /\ call[t].op \in OwningOps
    BY <1>1, <2>1 DEF Control, Types, AtPlace, OwningOps
  <2>3. q # call[t].q
    BY <1>1, <2>2, OwnLemma
  <2> QED
    BY <1>1, <1>2, <2>1, <2>3
<1> QED
  BY <1>3, <1>4, <1>5, <1>6, <1>7, <1>8
     DEF Inner, Size, Refuse, Block, Expire, WakeSpuriously, Leave, ReadCapacity, CopyThrows,
         KeepSelf, LockFirst, LockSecond, BackOff

LEMMA HalvesKept ==
  ASSUME NEW e \in BOOLEAN, IInv(e), NEW t \in Threads, Inner(t),
         NEW u \in Threads \ {t}, pc[u] = "half"
  PROVE  Ours(u)' = Ours(u) /\ Theirs(u)' = Theirs(u)
<1>1. call' = call /\ temporary'[u] = temporary[u]
  BY WithinLemma, TemporaryKept DEF IInv, Within
<1>2. call[u] \in CallRecord /\ call[u].op \in ExchangeOps
  BY DEF IInv, Control, Types, AtPlace, Exchanging
<1>3. \A q \in Shared(u) : queue'[q] = queue[q]
  BY ForeignKept
<1> QED
  BY <1>1, <1>2, <1>3 DEF Ours, Theirs, Shared, ExchangeOps, SwapOps

\* t is to return q, which it constructs.
Bearing(t, q) == pc[t] = "leave" /\ call[t].op = "move_construct" /\ call[t].q = q

\* The abstract value of a queue in each of the four cases.
ValueFacts ==
  /\ \A q \in Queues : \A t \in Threads : Bearing(t, q) => value[q] = Value(temporary[t])
  /\ \A q \in alive : ~Torn(q) => value[q] = Value(queue[q])
  /\ \A t \in Threads : pc[t] = "half" =>
       /\ call[t].op # "move_construct"
            => value[call[t].q] = Value(WithIndices(Ours(t), Theirs(t)))
       /\ call[t].op # "copy_assign"
            => value[call[t].other] = Value(WithIndices(Theirs(t), Ours(t)))
  /\ \A q \in Queues \ alive : (\A t \in Threads : ~Bearing(t, q)) => value[q] = Nil

LEMMA ValueLemma == Control => ValueFacts
<1> SUFFICES ASSUME Control
             PROVE  ValueFacts
  OBVIOUS
<1>1. ASSUME NEW q \in Queues, NEW t \in Threads, Bearing(t, q)
      PROVE  value[q] = Value(temporary[t])
  <2>1. \A u \in Threads : u \in Newborn(q) => u = t
    <3>1. call[t] \in CallRecord /\ call[t].op \in OwningOps /\ q # Nil
      BY <1>1, CallsLemma DEF Bearing, Control, Types, AtPlace, OwningOps
    <3>2. \A u \in Threads \ {t} : q \notin Involved(call[u])
      BY <1>1, <3>1 DEF Bearing, Control, Exist
    <3>3. \A u \in Newborn(q) : u \in Threads /\ q \in Involved(call[u])
      BY <3>1 DEF Newborn, Involved
    <3> QED
      BY <3>2, <3>3
  <2>2. t \in Newborn(q)
    BY <1>1 DEF Bearing, Newborn
  <2>3. (CHOOSE u \in Newborn(q) : TRUE) \in Newborn(q)
    BY <2>2
  <2>4. (CHOOSE u \in Newborn(q) : TRUE) = t
    BY <2>1, <2>3 DEF Newborn
  <2> QED
    BY <2>2, <2>4 DEF value
<1>2. ASSUME NEW q \in alive
      PROVE  q \in Queues /\ Newborn(q) = {}
  BY <1>2 DEF Newborn, Control, Exist, ConstructOps, OwningOps, alive
<1>3. \A q \in Queues : Torn(q) <=> Halfway(q) # {}
  BY DEF Torn, Halfway
<1>4. ASSUME NEW q \in alive, ~Torn(q)
      PROVE  value[q] = Value(queue[q])
  BY <1>2, <1>3, <1>4 DEF value, Members
<1>5. ASSUME NEW t \in Threads, pc[t] = "half", NEW q \in Shared(t)
      PROVE  value[q] = Value(WithIndices(queue[q], IF call[t].op # "move_construct" /\ q = call[t].q
                                                      THEN Theirs(t) ELSE Ours(t)))
  <2>1. q \in alive /\ q \in Queues /\ Newborn(q) = {}
    BY <1>2, <1>5, OursLemma
  <2>2. \A u \in Threads : u \in Halfway(q) => u = t
    BY <1>5, HalfOwns DEF Halfway
  <2>3. t \in Halfway(q)
    BY <1>5 DEF Halfway
  <2>4. (CHOOSE u \in Halfway(q) : TRUE) \in Halfway(q)
    BY <2>3
  <2>5. (CHOOSE u \in Halfway(q) : TRUE) = t
    BY <2>2, <2>4 DEF Halfway
  <2>6. Members(q) = WithIndices(queue[q], IF call[t].op # "move_construct" /\ q = call[t].q
                                             THEN Theirs(t) ELSE Ours(t))
    BY <2>3, <2>5 DEF Members
  <2> QED
    BY <2>1, <2>6 DEF value
<1>6. ASSUME NEW t \in Threads, pc[t] = "half"
      PROVE  /\ call[t].op # "move_construct"
                  => value[call[t].q] = Value(WithIndices(Ours(t), Theirs(t)))
             /\ call[t].op # "copy_assign"
                  => value[call[t].other] = Value(WithIndices(Theirs(t), Ours(t)))
  <2>1. call[t].op \in ExchangeOps /\ call[t].q # call[t].other
    BY <1>6, OursLemma
  <2> QED
    BY <1>5, <1>6, <2>1 DEF Shared, Ours, Theirs, ExchangeOps, SwapOps
<1>7. ASSUME NEW q \in Queues \ alive, \A t \in Threads : ~Bearing(t, q)
      PROVE  value[q] = Nil
  BY <1>7 DEF value, Newborn, Bearing
<1> QED
  BY <1>1, <1>4, <1>6, <1>7 DEF ValueFacts

LEMMA ValueElsewhere ==
  ASSUME Control, Control', NEW t \in Threads, NEW r \in Queues, queue'[r] = queue[r],
         \A u \in Threads \ {t} :
           /\ temporary'[u] = temporary[u] /\ call'[u] = call[u]
           /\ pc'[u] = pc[u] \/ (pc[u] = "waiting" /\ pc'[u] = "relock")
           /\ pc[u] = "half" => Ours(u)' = Ours(u) /\ Theirs(u)' = Theirs(u),
         pc[t] = "half" => r \notin Shared(t), pc'[t] = "half" => r \notin Shared(t)',
         ~Bearing(t, r), ~Bearing(t, r)'
  PROVE  value'[r] = value[r]
<1>1. ValueFacts /\ ValueFacts'
  <2>1. Control' => ValueFacts'
    BY ValueLemma, PTL
  <2> QED
    BY <2>1, ValueLemma
<1>2. \A u \in Threads : Bearing(u, r)' <=> Bearing(u, r)
  BY DEF Bearing
<1>3. \A u \in Threads \ {t} : Shared(u)' = Shared(u)
  BY DEF Shared
<1>4. Torn(r)' <=> Torn(r)
  BY <1>3 DEF Torn
<1>5. r \in alive' <=> r \in alive
  BY DEF alive
<1>6. CASE \E u \in Threads : Bearing(u, r)
  <2>1. PICK u \in Threads : Bearing(u, r)
    BY <1>6
  <2> QED
    BY <1>1, <1>2, <2>1 DEF ValueFacts
<1>7. CASE r \in alive /\ ~Torn(r)
  <2>1. value[r] = Value(queue[r])
    BY <1>1, <1>7 DEF ValueFacts
  <2>2. r \in alive' /\ ~Torn(r)'
    BY <1>4, <1>5, <1>7
  <2>3. value'[r] = Value(queue'[r])
    BY <1>1, <2>2 DEF ValueFacts
  <2> QED
    BY <2>1, <2>3
<1>8. CASE Torn(r)
  <2>1. PICK u \in Threads : pc[u] = "half" /\ r \in Shared(u)
    BY <1>8 DEF Torn
  <2>2. u # t /\ pc'[u] = "half" /\ call'[u] = call[u] /\ Ours(u)' = Ours(u) /\ Theirs(u)' = Theirs(u)
    BY <2>1
  <2>3. CASE call[u].op # "move_construct" /\ r = call[u].q
    BY <1>1, <2>1, <2>2, <2>3 DEF ValueFacts
  <2>4. CASE call[u].op # "copy_assign" /\ r = call[u].other
    BY <1>1, <2>1, <2>2, <2>4 DEF ValueFacts
  <2> QED
    BY <2>1, <2>3, <2>4 DEF Shared
<1>9. CASE r \notin alive /\ \A u \in Threads : ~Bearing(u, r)
  BY <1>1, <1>2, <1>5, <1>9 DEF ValueFacts
<1> QED
  BY <1>6, <1>7, <1>8, <1>9

\* What a step of t leaves of the other threads' calls.
Others(t) == \A u \in Threads \ {t} :
  /\ temporary'[u] = temporary[u] /\ call'[u] = call[u]
  /\ pc'[u] = pc[u] \/ (pc[u] = "waiting" /\ pc'[u] = "relock")
  /\ pc[u] = "half" => Ours(u)' = Ours(u) /\ Theirs(u)' = Theirs(u)

LEMMA OthersLemma ==
  ASSUME NEW e \in BOOLEAN, IInv(e), NEW t \in Threads,
         Inner(t) \/ Return(t) \/ \E c \in Menu[t] : Call(t, c)
  PROVE  Others(t)
<1>1. CASE Inner(t)
  <2>1. Within(t) /\ \A u \in Threads \ {t} : temporary'[u] = temporary[u]
    BY <1>1, WithinLemma, TemporaryKept DEF IInv
  <2>2. ASSUME NEW u \in Threads \ {t}, pc[u] = "half"
        PROVE  Ours(u)' = Ours(u) /\ Theirs(u)' = Theirs(u)
    BY <1>1, <2>2, HalvesKept
  <2> QED
    BY <2>1, <2>2 DEF Within, Others
<1>2. CASE Return(t) \/ \E c \in Menu[t] : Call(t, c)
  <2>1. /\ queue' = queue
        /\ \A u \in Threads \ {t} : /\ temporary'[u] = temporary[u] /\ call'[u] = call[u]
                                    /\ pc'[u] = pc[u]
    <3>1. /\ pc \in [Threads -> Places] /\ call \in [Threads -> CallRecord \cup {NoCall}]
          /\ temporary \in [Threads -> Object \cup {Nil}]
      BY DEF IInv, Control, Types
    <3>2. CASE Return(t)
      BY <3>1, <3>2 DEF Return, Goto
    <3>3. ASSUME NEW c \in Menu[t], Call(t, c)
          PROVE  /\ queue' = queue
                 /\ \A u \in Threads \ {t} : /\ temporary'[u] = temporary[u]
                                             /\ call'[u] = call[u] /\ pc'[u] = pc[u]
      <4>1. queue' = queue /\ call' = [call EXCEPT ![t] = c]
        BY <3>3 DEF Call
      <4>2. \A u \in Threads \ {t} : temporary'[u] = temporary[u]
        BY <3>1, <3>3 DEF Call
      <4>3. \A u \in Threads \ {t} : pc'[u] = pc[u]
        BY <3>1, <3>3 DEF Call, Goto
      <4> QED
        BY <3>1, <4>1, <4>2, <4>3
    <3> QED
      BY <1>2, <3>2, <3>3
  <2>2. \A u \in Threads \ {t} : Ours(u)' = Ours(u) /\ Theirs(u)' = Theirs(u)
    BY <2>1 DEF Ours, Theirs
  <2> QED
    BY <2>1, <2>2 DEF Others
<1> QED
  BY <1>1, <1>2

LEMMA PhaseLemma ==
  ASSUME NEW t \in Threads, Others(t)
  PROVE  /\ phase' = [phase EXCEPT ![t] = phase'[t]]
         /\ copy' = [copy EXCEPT ![t] = copy'[t]]
<1>1. \A u \in Threads \ {t} : Assigning(u)' <=> Assigning(u)
  BY DEF Others, Assigning
<1>2. \A u \in Threads \ {t} : phase'[u] = phase[u]
  BY <1>1 DEF Others, phase
<1>3. \A u \in Threads \ {t} : copy'[u] = copy[u]
  BY <1>1 DEF Others, copy
<1>4. /\ phase = [u \in Threads |-> phase[u]] /\ phase' = [u \in Threads |-> phase'[u]]
      /\ copy = [u \in Threads |-> copy[u]] /\ copy' = [u \in Threads |-> copy'[u]]
  BY DEF phase, copy
<1>5. phase' = [phase EXCEPT ![t] = phase'[t]]
  BY <1>2, <1>4
<1>6. copy' = [copy EXCEPT ![t] = copy'[t]]
  BY <1>3, <1>4
<1> QED
  BY <1>5, <1>6

\* t changes the queue q at most, and is not in the part of an exchange that the
\* abstract queues do not show.
LEMMA ValueOne ==
  ASSUME Control, Control', NEW t \in Threads, Others(t), NEW q \in Queues,
         \A r \in Queues \ {q} : queue'[r] = queue[r],
         pc[t] \notin {"half", "leave"}, pc'[t] \notin {"half", "leave"}
  PROVE  /\ value' = [value EXCEPT ![q] = value'[q]]
         /\ queue'[q] = queue[q] => value' = value
<1>1. \A r \in Queues : queue'[r] = queue[r] => value'[r] = value[r]
  BY ValueElsewhere DEF Others, Bearing
<1>2. value = [r \in Queues |-> value[r]] /\ value' = [r \in Queues |-> value'[r]]
  BY DEF value
<1>3. value' = [value EXCEPT ![q] = value'[q]]
  BY <1>1, <1>2
<1>4. queue'[q] = queue[q] => value' = value
  BY <1>1, <1>2
<1> QED
  BY <1>3, <1>4

LEMMA ValueSame ==
  ASSUME Control, Control', NEW t \in Threads, Others(t), queue' = queue,
         pc[t] \notin {"half", "leave"}, pc'[t] \notin {"half", "leave"}
  PROVE  value' = value
<1>1. \A r \in Queues : value'[r] = value[r]
  BY ValueElsewhere DEF Others, Bearing
<1>2. value = [r \in Queues |-> value[r]] /\ value' = [r \in Queues |-> value'[r]]
  BY DEF value
<1> QED
  BY <1>1, <1>2

LEMMA ValueFree ==
  ASSUME Control, NEW q \in alive, m_mutex[q] = Nil
  PROVE  value[q] = Value(queue[q])
<1>1. ~Torn(q)
  BY NilAssumption DEF Control, Owns, Torn
<1> QED
  BY <1>1, ValueLemma DEF ValueFacts

LEMMA ValueFreeAfter ==
  ASSUME Control', NEW q \in alive', m_mutex'[q] = Nil
  PROVE  value'[q] = Value(queue'[q])
<1>1. ~Torn(q)'
  BY NilAssumption DEF Control, Owns, Torn
<1>2. Control' => ValueFacts'
  BY ValueLemma, PTL
<1> QED
  BY <1>1, <1>2 DEF ValueFacts

\* An object that is whole is a bounded sequence.
LEMMA ValueFields ==
  ASSUME NEW o, Fine(o, TRUE)
  PROVE  /\ Value(o).capacity = o.m_maximumSize /\ Value(o).content = Contents(o)
         /\ Contents(o) \in Seq(Counted \cup {Nil}) /\ Len(Contents(o)) = o.m_size
         /\ Contents(o) = <<>> <=> o.m_size = 0
         /\ o.m_maximumSize \in Nat /\ o.m_size \in Nat /\ o.m_size <= o.m_maximumSize
<1>1. Shape(o, Counted) /\ WellFormed(o) /\ Nil \notin Counted
  BY NilAssumption DEF Fine
<1> QED
  BY <1>1, ContentsLemma, EmptyLemma DEF Value, Shape, WellFormed

\* Steps that show nothing.
LEMMA Stutter ==
  ASSUME NEW t \in Threads, Others(t), UNCHANGED <<call, ret>>, value' = value,
         phase'[t] = phase[t], copy'[t] = copy[t]
  PROVE  UNCHANGED Abstract!vars
<1>1. phase' = phase
  <2>1. phase = [u \in Threads |-> phase[u]]
    BY DEF phase
  <2> QED
    BY <2>1, PhaseLemma
<1>2. copy' = copy
  <2>1. copy = [u \in Threads |-> copy[u]]
    BY DEF copy
  <2> QED
    BY <2>1, PhaseLemma
<1> QED
  BY <1>1, <1>2 DEF Abstract!vars
-----------------------------------------------------------------------------
(* The refinement, function by function. *)

\* The record r with another content.
Holding(r, c) == [r EXCEPT !.content = c]

LEMMA RecordUpdate ==
  ASSUME NEW a, NEW b, NEW c, NEW r, r = [capacity |-> a, content |-> b]
  PROVE  Holding(r, c) = [capacity |-> a, content |-> c]
<1> DEFINE s == Holding(r, c)
<1>1. r \in [capacity : {a}, content : {b, c}] /\ r.capacity = a
  OBVIOUS
<1>2. s \in [capacity : {a}, content : {b, c}] /\ s.content = c
  BY <1>1 DEF Holding
<1>3. s.capacity = r.capacity
  BY <1>1 DEF Holding
<1> HIDE DEF s
<1>4. s = [capacity |-> s.capacity, content |-> s.content]
  BY <1>2
<1>5. s = [capacity |-> a, content |-> c]
  BY <1>1, <1>2, <1>3, <1>4
<1> QED
  BY <1>5 DEF s

LEMMA ContentCut ==
  ASSUME NEW q \in Queues, NEW a, NEW b, value[q] = [capacity |-> a, content |-> b],
         value' = [value EXCEPT ![q] = [capacity |-> a, content |-> Tail(b)]]
  PROVE  value' = [value EXCEPT ![q].content = Tail(@)]
<1>1. value[q].content = b
  OBVIOUS
<1>2. \A c : Holding(value[q], c) = [capacity |-> a, content |-> c]
  BY RecordUpdate
<1>3. [value EXCEPT ![q].content = Tail(@)]
        = [value EXCEPT ![q] = Holding(value[q], Tail(value[q].content))]
  BY DEF Holding
<1> QED
  BY <1>1, <1>2, <1>3

LEMMA PushRefines ==
  ASSUME IInv(TRUE), Control', NEW t \in Threads, Push(t)
  PROVE  Abstract!Put(t)
<1> DEFINE q == call[t].q
           v == call[t].elem
           o == queue[q]
<1>1. Control /\ Within(t) /\ Others(t) /\ call' = call
  BY WithinLemma, OthersLemma DEF IInv, Inner, Within
<1>2. /\ pc[t] \in {"lock", "relock"} /\ m_mutex[q] = Nil /\ call[t].op \in PushOps
      /\ queue' = [queue EXCEPT ![q] = do_push(o, v)] /\ m_mutex' = m_mutex
      /\ ret' = [ret EXCEPT ![t] = IF call[t].op = "push" THEN Void ELSE <<"bool", TRUE>>]
  BY DEF Push, Locks
<1>0. call[t] \in CallRecord
  BY <1>1, <1>2 DEF Control, Types, AtPlace
<1>3. q \in alive /\ q \in Queues /\ v \in Counted
  BY <1>0, <1>1, <1>2, CallsLemma DEF Control, Exist, OwningOps, PushOps, Counted
<1>4. Fine(o, TRUE) /\ ~do_full(o) /\ value[q] = Value(o)
  BY <1>1, <1>2, <1>3, FreeLemma, ValueFree DEF Push, Ready
<1>5. Shape(o, Counted) /\ Nil \notin Counted /\ o.m_size < o.m_maximumSize
  BY <1>4, NilAssumption, ValueFields DEF Fine, do_full
<1>6. pc'[t] = "return"
  BY <1>0, <1>1, <1>2, <1>3, NotifyLemma DEF Push
<1> HIDE DEF q, v, o
<1>7. /\ queue'[q] = do_push(o, v) /\ \A r \in Queues \ {q} : queue'[r] = queue[r]
      /\ q \in alive'
  <2>1. do_push(o, v) # Nil
    BY <1>3, <1>4, FinePush, FineLemma
  <2> QED
    BY <1>1, <1>2, <1>3, <2>1 DEF Control, Types, alive
<1>8. value' = [value EXCEPT ![q] = Value(do_push(o, v))]
  <2>1. value'[q] = Value(queue'[q])
    BY <1>2, <1>7, ValueFreeAfter
  <2>2. value' = [value EXCEPT ![q] = value'[q]]
    BY <1>1, <1>2, <1>3, <1>6, <1>7, ValueOne
  <2> QED
    BY <1>7, <2>1, <2>2
<1>9. Value(do_push(o, v)) = [capacity |-> o.m_maximumSize, content |-> Append(Contents(o), v)]
  <2>1. Contents(do_push(o, v)) = Append(Contents(o), v)
    BY <1>3, <1>5, AppendLemma
  <2>2. do_push(o, v).m_maximumSize = o.m_maximumSize
    BY <1>5 DEF do_push, Shape, Record
  <2> QED
    BY <2>1, <2>2 DEF Value
<1>10. value' = [value EXCEPT ![q].content = Append(@, v)]
  <2> DEFINE a == o.m_maximumSize
             b == Contents(o)
  <2>1. value[q] = [capacity |-> a, content |-> b]
    BY <1>4 DEF Value
  <2>2. value' = [value EXCEPT ![q] = [capacity |-> a, content |-> Append(b, v)]]
    BY <1>8, <1>9
  <2> HIDE DEF a, b
  <2> QED
    <3>1. value[q].content = b
      BY <2>1
    <3>2. \A c : Holding(value[q], c) = [capacity |-> a, content |-> c]
      BY <2>1, RecordUpdate
    <3>3. [value EXCEPT ![q].content = Append(@, v)]
            = [value EXCEPT ![q] = Holding(value[q], Append(value[q].content, v))]
      BY DEF Holding
    <3> QED
      BY <2>2, <3>1, <3>2, <3>3
<1>11. phase[t] = "called" /\ phase'[t] = "done" /\ copy'[t] = copy[t]
  BY <1>1, <1>2, <1>6 DEF phase, copy, Assigning
<1>12. phase' = [phase EXCEPT ![t] = "done"] /\ copy' = copy
  <2>1. copy = [u \in Threads |-> copy[u]]
    BY DEF copy
  <2> QED
    BY <1>1, <1>11, <2>1, PhaseLemma
<1>13. Len(value[q].content) < value[q].capacity
  BY <1>4, <1>5, ValueFields
<1> QED
  BY <1>1, <1>2, <1>10, <1>11, <1>12, <1>13
     DEF Abstract!Put, Abstract!Effect, Abstract!PushOps, Abstract!Void, PushOps, Void, q, v

LEMMA PopRefines ==
  ASSUME IInv(TRUE), Control', NEW t \in Threads, Pop(t)
  PROVE  Abstract!Take(t)
<1> DEFINE q == call[t].q
           o == queue[q]
<1>1. Control /\ Within(t) /\ Others(t) /\ call' = call
  BY WithinLemma, OthersLemma DEF IInv, Inner, Within
<1>2. /\ pc[t] \in {"lock", "relock"} /\ m_mutex[q] = Nil /\ call[t].op \in PopOps
      /\ queue' = [queue EXCEPT ![q] = do_pop(o)] /\ m_mutex' = m_mutex
      /\ ret' = [ret EXCEPT ![t] = <<"element", element(o, 0)>>]
  BY DEF Pop, Locks
<1>0. call[t] \in CallRecord
  BY <1>1, <1>2 DEF Control, Types, AtPlace
<1>3. q \in alive /\ q \in Queues
  BY <1>0, <1>1, <1>2, CallsLemma DEF Control, Exist, OwningOps, PopOps
<1>4. Fine(o, TRUE) /\ ~do_empty(o) /\ value[q] = Value(o)
  BY <1>1, <1>2, <1>3, FreeLemma, ValueFree DEF Pop, Ready, PushOps, PopOps
<1>5. Shape(o, Counted) /\ WellFormed(o) /\ Nil \notin Counted
  BY <1>4, NilAssumption DEF Fine
<1>6. pc'[t] = "return"
  BY <1>0, <1>1, <1>2, <1>3, NotifyLemma DEF Pop
<1>7. Fine(do_pop(o), TRUE) /\ do_pop(o) # Nil
  <2>1. Fine(do_pop(o), TRUE)
    BY <1>4, <1>5, do_popLemma DEF Fine
  <2> QED
    BY <2>1, FineLemma
<1> HIDE DEF q, o
<1>8. /\ queue'[q] = do_pop(o) /\ \A r \in Queues \ {q} : queue'[r] = queue[r]
      /\ q \in alive'
  BY <1>1, <1>2, <1>3, <1>7 DEF Control, Types, alive
<1>9. value' = [value EXCEPT ![q] = Value(do_pop(o))]
  <2>1. value'[q] = Value(queue'[q])
    BY <1>2, <1>8, ValueFreeAfter
  <2>2. value' = [value EXCEPT ![q] = value'[q]]
    BY <1>1, <1>2, <1>3, <1>6, <1>8, ValueOne
  <2> QED
    BY <1>8, <2>1, <2>2
<1>10. Value(do_pop(o)) = [capacity |-> o.m_maximumSize, content |-> Tail(Contents(o))]
  <2>1. Contents(do_pop(o)) = Tail(Contents(o))
    BY <1>4, <1>5, TailLemma
  <2>2. do_pop(o).m_maximumSize = o.m_maximumSize
    BY <1>5 DEF do_pop, Shape, Record
  <2> QED
    BY <2>1, <2>2 DEF Value
<1>11. value' = [value EXCEPT ![q].content = Tail(@)]
  <2> DEFINE a == o.m_maximumSize
             b == Contents(o)
  <2>1. value[q] = [capacity |-> a, content |-> b]
    BY <1>4 DEF Value
  <2>2. value' = [value EXCEPT ![q] = [capacity |-> a, content |-> Tail(b)]]
    BY <1>9, <1>10
  <2> HIDE DEF a, b
  <2> QED
    BY <1>3, <2>1, <2>2, ContentCut
<1>12. phase[t] = "called" /\ phase'[t] = "done" /\ copy'[t] = copy[t]
  BY <1>1, <1>2, <1>6 DEF phase, copy, Assigning
<1>13. phase' = [phase EXCEPT ![t] = "done"] /\ copy' = copy
  <2>1. copy = [u \in Threads |-> copy[u]]
    BY DEF copy
  <2> QED
    BY <1>1, <1>12, <2>1, PhaseLemma
<1>14. value[q].content # <<>> /\ Head(value[q].content) = element(o, 0)
  BY <1>4, <1>5, HeadLemma, ValueFields
<1> QED
  BY <1>1, <1>2, <1>11, <1>12, <1>13, <1>14
     DEF Abstract!Take, Abstract!Effect, Abstract!PopOps, PopOps, q

LEMMA AtCall ==
  ASSUME Control, NEW t \in Threads, pc[t] # "idle"
  PROVE  call[t] \in CallRecord
<1>1. call[t] \in CallRecord \cup {NoCall} /\ call[t] # NoCall
  BY DEF Control, Types, AtPlace
<1> QED
  BY <1>1

LEMMA PhaseFacts ==
  ASSUME NEW t \in Threads
  PROVE  /\ pc[t] = "idle" => phase[t] = "idle"
         /\ pc[t] \in {"leave", "return"} => phase[t] = "done"
         /\ pc'[t] = "idle" => phase'[t] = "idle"
         /\ pc'[t] \in {"leave", "return"} => phase'[t] = "done"
<1>1. pc[t] = "idle" => phase[t] = "idle"
  BY DEF phase, Assigning
<1>2. pc[t] = "leave" \/ pc[t] = "return" => phase[t] = "done"
  BY DEF phase, Assigning
<1>3. pc'[t] = "idle" => phase'[t] = "idle"
  BY DEF phase, Assigning
<1>4. pc'[t] = "leave" \/ pc'[t] = "return" => phase'[t] = "done"
  BY DEF phase, Assigning
<1> QED
  BY <1>1, <1>2, <1>3, <1>4

\* A call takes effect.
LEMMA Effective ==
  ASSUME NEW t \in Threads, Others(t), call' = call, pc'[t] \in {"return", "leave"},
         NEW r, ret' = [ret EXCEPT ![t] = r]
  PROVE  /\ Abstract!Effect(t, value', r)
         /\ pc[t] \notin {"claim", "contend", "swap", "half"} => copy' = copy
<1>1. phase'[t] = "done"
  BY PhaseFacts
<1>2. phase' = [phase EXCEPT ![t] = "done"]
  BY <1>1, PhaseLemma
<1>3. ASSUME pc[t] \notin {"claim", "contend", "swap", "half"}
      PROVE  copy' = copy
  <2>1. copy'[t] = Nil /\ copy[t] = Nil
    BY <1>3 DEF copy, Assigning
  <2>2. copy = [u \in Threads |-> copy[u]]
    BY DEF copy
  <2> QED
    BY <2>1, <2>2, PhaseLemma
<1> QED
  BY <1>2, <1>3 DEF Abstract!Effect

\* What a call that fails finds, and what it leaves apart from the queue.
LEMMA FailedCall ==
  ASSUME IInv(TRUE), NEW t \in Threads, PushFails(t) \/ PopFails(t)
  PROVE  /\ Others(t) /\ call' = call /\ m_mutex' = m_mutex
         /\ pc[t] \in {"lock", "relock"} /\ pc'[t] = "return" /\ phase[t] = "called"
         /\ call[t].q \in Queues /\ call[t].q \in alive /\ m_mutex[call[t].q] = Nil
         /\ Fine(queue[call[t].q], TRUE) /\ value[call[t].q] = Value(queue[call[t].q])
         /\ Abstract!Effect(t, value', Exception) /\ copy' = copy
<1>1. Control /\ Others(t)
  BY OthersLemma DEF IInv, Inner
<1>2. Locks(t) /\ call[t].op \in PushOps \cup PopOps /\ Fail(t)
  BY DEF PushFails, PopFails
<1>3. /\ pc[t] \in {"lock", "relock"} /\ m_mutex[call[t].q] = Nil
      /\ call' = call /\ m_mutex' = m_mutex
      /\ pc' = [pc EXCEPT ![t] = "return"] /\ ret' = [ret EXCEPT ![t] = Exception]
  BY <1>2 DEF Locks, Fail, Finish, Goto
<1>4. pc'[t] = "return"
  BY <1>1, <1>3 DEF Control, Types
<1>5. call[t] \in CallRecord
  BY <1>1, <1>3, AtCall
<1>6. call[t].q \in Queues /\ call[t].q \in alive
  <2>1. call[t].op \notin OwningOps
    BY <1>2 DEF OwningOps, PushOps, PopOps
  <2>2. pc[t] # "idle" /\ call[t].q \in Queues
    BY <1>3, <1>5, CallsLemma
  <2>3. Exist(t)
    BY <1>1 DEF Control
  <2> QED
    BY <2>1, <2>2, <2>3 DEF Exist
<1>7. Fine(queue[call[t].q], TRUE) /\ value[call[t].q] = Value(queue[call[t].q])
  BY <1>1, <1>3, <1>6, FreeLemma, ValueFree
<1>8. phase[t] = "called"
  BY <1>3 DEF phase, Assigning
<1>9. Abstract!Effect(t, value', Exception) /\ copy' = copy
  BY <1>1, <1>3, <1>4, Effective
<1> QED
  BY <1>1, <1>3, <1>4, <1>6, <1>7, <1>8, <1>9

LEMMA PushFailsRefines ==
  ASSUME IInv(TRUE), Control', NEW t \in Threads, PushFails(t)
  PROVE  Abstract!PutFails(t)
<1>1. PICK q \in Queues, o \in {queue[call[t].q]} : q = call[t].q /\ o = queue[q]
  BY FailedCall
<1>2. /\ Control /\ Others(t) /\ q \in alive /\ m_mutex'[q] = Nil
      /\ pc[t] \in {"lock", "relock"} /\ pc'[t] = "return"
      /\ Fine(o, TRUE) /\ value[q] = Value(o)
  BY <1>1, FailedCall DEF IInv
<1>3. /\ "construct" \in Throws /\ call[t].op \in PushOps /\ ~do_full(o)
      /\ queue' = [queue EXCEPT ![q] = do_push(o, Unmade)]
  BY <1>1 DEF PushFails, Ready
<1>4. /\ Shape(o, Counted) /\ Nil \notin Counted /\ Unmade \in Counted
      /\ o.m_size < o.m_maximumSize
  <2>1. Nil \notin Counted
    BY NilAssumption
  <2>2. Unmade \in Counted
    BY DEF Counted
  <2>3. Shape(o, Counted) /\ o.m_size # o.m_maximumSize
    BY <1>2, <1>3 DEF Fine, do_full
  <2>4. Fine(o, TRUE)
    BY <1>2
  <2>5. o.m_maximumSize \in Nat /\ o.m_size \in Nat /\ o.m_size <= o.m_maximumSize
    BY <2>4, ValueFields
  <2> QED
    BY <2>1, <2>2, <2>3, <2>5
<1>5. /\ queue'[q] = do_push(o, Unmade) /\ \A r \in Queues \ {q} : queue'[r] = queue[r]
      /\ q \in alive'
  <2>1. do_push(o, Unmade) # Nil
    BY <1>2, <1>3, <1>4, FinePush, FineLemma
  <2> QED
    BY <1>2, <1>3, <2>1 DEF Control, Types, alive
<1>6. value' = [value EXCEPT ![q] = Value(do_push(o, Unmade))]
  <2>1. value'[q] = Value(queue'[q])
    BY <1>2, <1>5, ValueFreeAfter
  <2>2. value' = [value EXCEPT ![q] = value'[q]]
    BY <1>2, <1>5, ValueOne
  <2> QED
    BY <1>5, <2>1, <2>2
<1>7. Value(do_push(o, Unmade))
        = [capacity |-> o.m_maximumSize, content |-> Append(Contents(o), Unmade)]
  <2>1. Contents(do_push(o, Unmade)) = Append(Contents(o), Unmade)
    BY <1>4, AppendLemma
  <2>2. do_push(o, Unmade).m_maximumSize = o.m_maximumSize
    BY <1>4 DEF do_push, Shape, Record
  <2> QED
    BY <2>1, <2>2 DEF Value
<1>8. value' = [value EXCEPT ![q].content = Append(@, Unmade)]
  <2> DEFINE a == o.m_maximumSize
             b == Contents(o)
  <2>1. value[q] = [capacity |-> a, content |-> b]
    BY <1>2 DEF Value
  <2>2. value' = [value EXCEPT ![q] = [capacity |-> a, content |-> Append(b, Unmade)]]
    BY <1>6, <1>7
  <2> HIDE DEF a, b
  <2> QED
    <3>1. value[q].content = b
      BY <2>1
    <3>2. \A c : Holding(value[q], c) = [capacity |-> a, content |-> c]
      BY <2>1, RecordUpdate
    <3>3. [value EXCEPT ![q].content = Append(@, Unmade)]
            = [value EXCEPT ![q] = Holding(value[q], Append(value[q].content, Unmade))]
      BY DEF Holding
    <3> QED
      BY <2>2, <3>1, <3>2, <3>3
<1>9. Len(value[q].content) < value[q].capacity
  BY <1>2, <1>4, ValueFields
<1>10. phase[t] = "called" /\ Abstract!Effect(t, value', Abstract!Exception) /\ copy' = copy
  BY FailedCall DEF Abstract!Exception, Exception
<1> QED
  BY <1>1, <1>3, <1>8, <1>9, <1>10 DEF Abstract!PutFails, Abstract!PushOps, PushOps

LEMMA PopFailsRefines ==
  ASSUME IInv(TRUE), Control', NEW t \in Threads, PopFails(t)
  PROVE  Abstract!TakeFails(t)
<1>1. PICK q \in Queues, o \in {queue[call[t].q]} : q = call[t].q /\ o = queue[q]
  BY FailedCall
<1>2. /\ Control /\ Others(t) /\ q \in alive /\ m_mutex'[q] = Nil
      /\ pc[t] \in {"lock", "relock"} /\ pc'[t] = "return"
      /\ Fine(o, TRUE) /\ value[q] = Value(o)
  BY <1>1, FailedCall DEF IInv
<1>3. /\ call[t].op \in PopOps /\ ~do_empty(o)
      /\ \/ "construct" \in Throws /\ queue' = queue
         \/ /\ "assign" \in Throws /\ call[t].op # "pop"
            /\ queue' = [queue EXCEPT ![q] = do_pop(o)]
  <2>1. call[t].op \in PopOps /\ ~do_empty(queue[call[t].q])
    <3>1. call[t].op \in PopOps /\ Ready(t)
      BY DEF PopFails
    <3> QED
      BY <3>1 DEF Ready, PushOps, PopOps
  <2>2. \/ "construct" \in Throws /\ queue' = queue
        \/ /\ "assign" \in Throws /\ call[t].op # "pop"
           /\ queue' = [queue EXCEPT ![call[t].q] = do_pop(queue[call[t].q])]
    BY DEF PopFails
  <2> QED
    BY <1>1, <2>1, <2>2
<1>4. Shape(o, Counted) /\ WellFormed(o) /\ Nil \notin Counted
  BY <1>2, NilAssumption DEF Fine
<1>5. value[q].content # <<>>
  <2>1. Contents(o) # <<>>
    BY <1>3, <1>4, HeadLemma
  <2>2. Value(o).content = Contents(o)
    BY <1>2, ValueFields
  <2> QED
    BY <1>2, <2>1, <2>2
<1>6. phase[t] = "called" /\ Abstract!Effect(t, value', Abstract!Exception) /\ copy' = copy
  BY FailedCall DEF Abstract!Exception, Exception
<1>7. CASE "construct" \in Throws /\ queue' = queue
  <2>1. value' = value
    BY <1>2, <1>7, ValueSame
  <2> QED
    BY <1>1, <1>3, <1>5, <1>6, <1>7, <2>1 DEF Abstract!TakeFails, Abstract!PopOps, PopOps
<1>8. CASE /\ "assign" \in Throws /\ call[t].op # "pop"
           /\ queue' = [queue EXCEPT ![q] = do_pop(o)]
  <2>1. do_pop(o) # Nil
    <3>1. Fine(do_pop(o), TRUE)
      BY <1>2, <1>3, <1>4, do_popLemma DEF Fine
    <3> QED
      BY <3>1, FineLemma
  <2>2. /\ queue'[q] = do_pop(o) /\ \A r \in Queues \ {q} : queue'[r] = queue[r]
        /\ q \in alive'
    BY <1>2, <1>8, <2>1 DEF Control, Types, alive
  <2>3. value'[q] = Value(do_pop(o))
    BY <1>2, <2>2, ValueFreeAfter
  <2>4. value' = [value EXCEPT ![q] = value'[q]]
    BY <1>2, <2>2, ValueOne
  <2>5. Value(do_pop(o)) = [capacity |-> o.m_maximumSize, content |-> Tail(Contents(o))]
    <3>1. Contents(do_pop(o)) = Tail(Contents(o))
      BY <1>3, <1>4, TailLemma
    <3>2. do_pop(o).m_maximumSize = o.m_maximumSize
      BY <1>4 DEF do_pop, Shape, Record
    <3> QED
      BY <3>1, <3>2 DEF Value
  <2>6. value' = [value EXCEPT ![q].content = Tail(@)]
    <3>1. value[q] = [capacity |-> o.m_maximumSize, content |-> Contents(o)]
      BY <1>2 DEF Value
    <3>2. value' = [value EXCEPT ![q] = [capacity |-> o.m_maximumSize,
                                         content |-> Tail(Contents(o))]]
      BY <2>3, <2>4, <2>5
    <3> QED
      BY <3>1, <3>2, ContentCut
  <2> QED
    BY <1>1, <1>3, <1>5, <1>6, <1>8, <2>6 DEF Abstract!TakeFails, Abstract!PopOps, PopOps
<1> QED
  BY <1>3, <1>7, <1>8

\* The two facts about calls that only the refinement needs.
Timed == \A t \in expired : call[t].op \in TimedOps
MovedOut == \A t \in Threads : pc[t] = "half" /\ call[t].op = "move_construct"
                                 => WithIndices(Ours(t), Theirs(t)) = Allocated(0)

LEMMA SizeRefines ==
  ASSUME IInv(TRUE), Control', NEW t \in Threads, Size(t)
  PROVE  Abstract!Observe(t)
<1> DEFINE q == call[t].q
<1>1. Control /\ Others(t)
  BY OthersLemma DEF IInv, Inner
<1>2. /\ pc[t] \in {"lock", "relock"} /\ m_mutex[q] = Nil /\ call[t].op = "size"
      /\ queue' = queue /\ call' = call
      /\ pc' = [pc EXCEPT ![t] = "return"]
      /\ ret' = [ret EXCEPT ![t] = <<"count", queue[q].m_size>>]
  BY DEF Size, Locks, Finish, Goto
<1>3. call[t] \in CallRecord /\ pc'[t] = "return"
  <2>1. pc'[t] = "return"
    BY <1>1, <1>2 DEF Control, Types
  <2> QED
    BY <1>1, <1>2, <2>1, AtCall
<1>4. q \in alive
  BY <1>1, <1>2, <1>3, CallsLemma DEF Control, Exist, OwningOps
<1>5. value[q] = Value(queue[q]) /\ Fine(queue[q], TRUE)
  BY <1>1, <1>2, <1>4, ValueFree, FreeLemma
<1>6. Len(value[q].content) = queue[q].m_size
  BY <1>5, ValueFields
<1>7. value' = value
  BY <1>1, <1>2, <1>3, ValueSame
<1>8. phase[t] = "called"
  BY <1>2 DEF phase, Assigning
<1>9. Abstract!Effect(t, value', <<"count", queue[q].m_size>>) /\ copy' = copy
  BY <1>1, <1>2, <1>3, Effective
<1> QED
  BY <1>2, <1>6, <1>7, <1>8, <1>9 DEF Abstract!Observe

LEMMA RefuseRefines ==
  ASSUME IInv(TRUE), Timed, Control', NEW t \in Threads, Refuse(t)
  PROVE  Abstract!Refuse(t)
<1> DEFINE q == call[t].q
<1>1. Control /\ Others(t)
  BY OthersLemma DEF IInv, Inner
<1>2. /\ pc[t] \in {"lock", "relock"} /\ m_mutex[q] = Nil
      /\ call[t].op \in PushOps \cup PopOps /\ ~Ready(t)
      /\ call[t].op \in WaitOps => t \in expired
      /\ queue' = queue /\ call' = call
      /\ pc' = [pc EXCEPT ![t] = "return"]
      /\ ret' = [ret EXCEPT ![t] = Refused]
  BY DEF Refuse, Locks, Finish, Goto
<1>3. call[t] \in CallRecord /\ pc'[t] = "return"
  <2>1. pc'[t] = "return"
    BY <1>1, <1>2 DEF Control, Types
  <2> QED
    BY <1>1, <1>2, <2>1, AtCall
<1>4. q \in alive
  BY <1>1, <1>2, <1>3, CallsLemma DEF Control, Exist, OwningOps, PushOps, PopOps
<1>5. value[q] = Value(queue[q]) /\ Fine(queue[q], TRUE)
  BY <1>1, <1>2, <1>4, ValueFree, FreeLemma
<1>6. /\ Len(value[q].content) = queue[q].m_size
      /\ value[q].capacity = queue[q].m_maximumSize
      /\ value[q].content = <<>> <=> queue[q].m_size = 0
  BY <1>5, ValueFields
<1>7. value' = value
  BY <1>1, <1>2, <1>3, ValueSame
<1>8. phase[t] = "called"
  BY <1>2 DEF phase, Assigning
<1>9. Abstract!Effect(t, value', Refused) /\ copy' = copy
  BY <1>1, <1>2, <1>3, Effective
<1>10. call[t].op \notin {"push", "pop"}
  BY <1>2 DEF Timed, WaitOps, TimedOps
<1>11. \/ /\ call[t].op \in PushOps \ {"push"}
          /\ Len(value[q].content) = value[q].capacity
       \/ call[t].op \in PopOps \ {"pop"} /\ value[q].content = <<>>
  BY <1>2, <1>6, <1>10 DEF Ready, do_full, do_empty
<1> QED
  BY <1>7, <1>8, <1>9, <1>11
     DEF Abstract!Refuse, Abstract!PushOps, Abstract!PopOps, Abstract!Refused, PushOps, PopOps, Refused

LEMMA KeepSelfRefines ==
  ASSUME IInv(TRUE), Control', NEW t \in Threads, KeepSelf(t)
  PROVE  Abstract!Ignore(t)
<1>1. Control /\ Others(t)
  BY OthersLemma DEF IInv, Inner
<1>2. /\ pc[t] \in {"read", "claim"} /\ call[t].op \in AssignOps /\ call[t].q = call[t].other
      /\ queue' = queue /\ call' = call /\ temporary' = temporary
      /\ pc' = [pc EXCEPT ![t] = "return"]
      /\ ret' = [ret EXCEPT ![t] = Void]
  BY DEF KeepSelf, SelfAssignment, Finish, Goto
<1>3. pc'[t] = "return"
  BY <1>1, <1>2 DEF Control, Types
<1>4. value' = value
  BY <1>1, <1>2, <1>3, ValueSame
<1>5. phase[t] = "called" /\ ~Assigning(t) /\ ~Assigning(t)'
  BY <1>2, <1>3 DEF phase, Assigning
<1>6. Abstract!Effect(t, value', Void)
  BY <1>1, <1>2, <1>3, Effective
<1>7. copy' = copy
  <2>1. copy'[t] = copy[t] /\ copy = [u \in Threads |-> copy[u]]
    BY <1>5 DEF copy
  <2> QED
    BY <1>1, <2>1, PhaseLemma
<1> QED
  BY <1>2, <1>4, <1>5, <1>6, <1>7 DEF Abstract!Ignore, Abstract!Void, Void, AssignOps

LEMMA DestroyRefines ==
  ASSUME IInv(TRUE), Control', NEW t \in Threads, Destroy(t)
  PROVE  Abstract!Destroy(t)
<1>0. PICK q \in Queues : q = call[t].q
  <2>1. call[t] \in CallRecord
    BY AtCall DEF Destroy, IInv
  <2> QED
    BY <2>1, CallsLemma
<1>1. Control /\ Others(t)
  BY OthersLemma DEF IInv, Inner
<1>2. /\ pc[t] = "destroy" /\ call' = call
      /\ queue' = [queue EXCEPT ![q] = Nil]
      /\ pc' = [pc EXCEPT ![t] = "return"]
      /\ ret' = [ret EXCEPT ![t] = Void]
  BY <1>0 DEF Destroy, Finish, Goto
<1>3. call[t] \in CallRecord /\ call[t].op = "destroy" /\ pc'[t] = "return"
  <2>1. pc'[t] = "return"
    BY <1>1, <1>2 DEF Control, Types
  <2>2. call[t].op = "destroy"
    BY <1>1, <1>2 DEF Control, AtPlace
  <2> QED
    BY <1>1, <1>2, <2>1, <2>2, AtCall
<1>4. queue'[q] = Nil /\ \A r \in Queues \ {q} : queue'[r] = queue[r]
  BY <1>1, <1>2, <1>3 DEF Control, Types
<1>5. value'[q] = Nil
  <2>1. \A u \in Threads : ~Bearing(u, q)'
    <3>1. q # Nil /\ \A u \in Threads \ {t} : q \notin Involved(call[u])
      BY <1>0, <1>1, <1>3, CallsLemma DEF Control, Exist, OwningOps
    <3> QED
      BY <1>2, <1>3, <3>1 DEF Bearing, Involved, OwningOps
  <2>2. q \in Queues \ alive'
    BY <1>3, <1>4 DEF alive
  <2>3. ValueFacts'
    <3>1. Control' => ValueFacts'
      BY ValueLemma, PTL
    <3> QED
      BY <3>1
  <2> QED
    BY <2>1, <2>2, <2>3 DEF ValueFacts
<1>6. value' = [value EXCEPT ![q] = Nil]
  <2>1. value' = [value EXCEPT ![q] = value'[q]]
    BY <1>1, <1>2, <1>3, <1>4, ValueOne
  <2> QED
    BY <1>5, <2>1
<1>7. phase[t] = "called"
  BY <1>2 DEF phase, Assigning
<1>8. Abstract!Effect(t, value', Void) /\ copy' = copy
  BY <1>1, <1>2, <1>3, Effective
<1> QED
  BY <1>0, <1>3, <1>6, <1>7, <1>8 DEF Abstract!Destroy, Abstract!Void, Void

LEMMA CalledFacts ==
  ASSUME NEW t \in Threads
  PROVE  /\ pc[t] \notin {"idle", "leave", "return"} /\ ~Assigning(t) => phase[t] = "called"
         /\ pc'[t] \notin {"idle", "leave", "return"} /\ ~Assigning(t)' => phase'[t] = "called"
         /\ Assigning(t) => phase[t] = "copied"
         /\ Assigning(t)' => phase'[t] = "copied"
         /\ ~Assigning(t) => copy[t] = Nil
         /\ ~Assigning(t)' => copy'[t] = Nil
<1>1. pc[t] \notin {"idle", "leave", "return"} /\ ~Assigning(t) => phase[t] = "called"
  BY DEF phase
<1>2. pc'[t] \notin {"idle", "leave", "return"} /\ ~Assigning(t)' => phase'[t] = "called"
  BY DEF phase
<1>3. Assigning(t) => phase[t] = "copied"
  BY DEF phase, Assigning
<1>4. Assigning(t)' => phase'[t] = "copied"
  BY DEF phase, Assigning
<1>5. (~Assigning(t) => copy[t] = Nil) /\ (~Assigning(t)' => copy'[t] = Nil)
  BY DEF copy
<1> QED
  BY <1>1, <1>2, <1>3, <1>4, <1>5

\* The copy that t prepares, if any, is as before.
LEMMA CopySame ==
  ASSUME NEW t \in Threads, Others(t), copy'[t] = copy[t]
  PROVE  copy' = copy
<1>1. copy = [u \in Threads |-> copy[u]]
  BY DEF copy
<1> QED
  BY <1>1, PhaseLemma

\* Where a call begins.
LEMMA CallPlace ==
  ASSUME Control, NEW t \in Threads, NEW c \in Menu[t], Call(t, c)
  PROVE  /\ pc'[t] \in {"lock", "read", "claim", "destroy"}
         /\ c.op \in CopyOps => pc'[t] = "read"
<1> DEFINE place == CASE c.op \in SingleOps -> "lock"
                      [] c.op \in CopyOps   -> "read"
                      [] c.op \in SwapOps   -> "claim"
                      [] OTHER              -> "destroy"
<1>1. place \in {"lock", "read", "claim", "destroy"}
  BY DEF SingleOps, PushOps, PopOps, CopyOps, SwapOps
<1>2. c.op \in CopyOps => place = "read"
  BY DEF SingleOps, PushOps, PopOps, CopyOps, SwapOps
<1> HIDE DEF place
<1>3. pc'[t] = place
  BY DEF Call, Control, Types, Goto, place
<1> QED
  BY <1>1, <1>2, <1>3

LEMMA CallRefines ==
  ASSUME IInv(TRUE), Control', NEW t \in Threads, NEW c \in Menu[t], Call(t, c)
  PROVE  Abstract!Invoke(t, c)
<1>1. Control /\ Others(t)
  BY OthersLemma DEF IInv
<1>2. /\ pc[t] = "idle" /\ queue' = queue /\ ret' = ret
      /\ call' = [call EXCEPT ![t] = c]
      /\ Goto(t, CASE c.op \in SingleOps -> "lock"
                   [] c.op \in CopyOps   -> "read"
                   [] c.op \in SwapOps   -> "claim"
                   [] OTHER              -> "destroy")
  BY DEF Call
<1>3. call'[t] = c
  BY <1>1, <1>2 DEF Control, Types
<1>4. /\ pc'[t] \in {"lock", "read", "claim", "destroy"}
      /\ c.op \in CopyOps => pc'[t] = "read"
  BY <1>1, CallPlace
<1>5. ~Assigning(t) /\ ~Assigning(t)'
  BY <1>2, <1>3, <1>4 DEF Assigning, CopyOps
<1>6. phase[t] = "idle" /\ phase'[t] = "called" /\ copy'[t] = copy[t]
  BY <1>2, <1>4, <1>5, PhaseFacts, CalledFacts
<1>7. phase' = [phase EXCEPT ![t] = "called"] /\ copy' = copy
  BY <1>1, <1>6, PhaseLemma, CopySame
<1>8. value' = value
  BY <1>1, <1>2, <1>4, ValueSame
<1> QED
  BY <1>2, <1>6, <1>7, <1>8 DEF Abstract!Invoke

LEMMA ReturnRefines ==
  ASSUME IInv(TRUE), Control', NEW t \in Threads, Return(t)
  PROVE  Abstract!Respond(t)
<1>1. Control /\ Others(t)
  BY OthersLemma DEF IInv
<1>2. /\ pc[t] = "return" /\ queue' = queue
      /\ call' = [call EXCEPT ![t] = NoCall] /\ ret' = [ret EXCEPT ![t] = NoRet]
      /\ pc' = [pc EXCEPT ![t] = "idle"]
  BY DEF Return, Goto
<1>3. pc'[t] = "idle"
  BY <1>1, <1>2 DEF Control, Types
<1>4. ~Assigning(t) /\ ~Assigning(t)'
  BY <1>2, <1>3 DEF Assigning
<1>5. phase[t] = "done" /\ phase'[t] = "idle" /\ copy'[t] = copy[t]
  BY <1>2, <1>3, <1>4, PhaseFacts, CalledFacts
<1>6. phase' = [phase EXCEPT ![t] = "idle"] /\ copy' = copy
  BY <1>1, <1>5, PhaseLemma, CopySame
<1>7. value' = value
  BY <1>1, <1>2, <1>3, ValueSame
<1> QED
  BY <1>2, <1>5, <1>6, <1>7 DEF Abstract!Respond, Abstract!NoCall, Abstract!NoRet, NoCall, NoRet

\* A thread that waits, wakes, or takes and gives back the mutexes of an exchange
\* shows nothing of it.
LEMMA LockingStutters ==
  ASSUME IInv(TRUE), Control', NEW t \in Threads,
         Block(t) \/ Expire(t) \/ WakeSpuriously(t) \/ LockFirst(t) \/ LockSecond(t) \/ BackOff(t)
  PROVE  UNCHANGED Abstract!vars
<1>1. Control /\ Others(t) /\ Within(t)
  BY OthersLemma, WithinLemma DEF IInv, Inner
<1>2. UNCHANGED <<queue, call, ret, temporary>>
  BY DEF Block, Expire, WakeSpuriously, Leave, LockFirst, LockSecond, BackOff
<1>3. \/ /\ pc[t] \in {"lock", "relock", "waiting"} /\ pc'[t] \in {"relock", "waiting"}
         /\ call[t].op # "copy_assign"
      \/ pc[t] \in {"claim", "contend"} /\ pc'[t] \in {"claim", "contend", "swap"}
  <2>1. CASE Block(t) \/ Expire(t) \/ WakeSpuriously(t)
    <3>1. pc[t] \in {"lock", "relock", "waiting"} /\ pc'[t] \in {"relock", "waiting"}
      BY <1>1, <2>1, GotoLemma
         DEF Control, Block, Expire, WakeSpuriously, Leave, Locks, Places
    <3>2. call[t].op \in SingleOps
      BY <1>1, <3>1 DEF Control, AtPlace
    <3> QED
      BY <3>1, <3>2 DEF SingleOps, PushOps, PopOps
  <2>2. CASE LockFirst(t) \/ LockSecond(t) \/ BackOff(t)
    BY <1>1, <2>2, GotoLemma
       DEF Control, LockFirst, LockSecond, BackOff, Places, Exchanging
  <2> QED
    BY <2>1, <2>2
<1>4. value' = value
  BY <1>1, <1>2, <1>3, ValueSame
<1>5. /\ Assigning(t)' <=> Assigning(t)
      /\ pc[t] \notin {"idle", "leave", "return", "half"}
      /\ pc'[t] \notin {"idle", "leave", "return", "half"}
  BY <1>2, <1>3 DEF Assigning
<1>6. phase'[t] = phase[t]
  BY <1>5, CalledFacts
<1>7. copy'[t] = copy[t]
  BY <1>2, <1>5 DEF copy
<1> QED
  BY <1>1, <1>2, <1>4, <1>6, <1>7, Stutter

\* No other thread is halfway through an exchange of t's objects.
LEMMA OneHalf ==
  ASSUME Control, NEW t \in Threads, pc[t] \in {"swap", "half"}, Others(t), call' = call,
         NEW q \in Shared(t)
  PROVE  \A u \in Threads \ {t} : /\ ~(pc[u] = "half" /\ q \in Shared(u))
                                  /\ ~(pc'[u] = "half" /\ q \in Shared(u)')
<1>1. m_mutex[q] = t
  BY OursLemma
<1>2. \A u \in Threads \ {t} : ~(pc[u] = "half" /\ q \in Shared(u))
  BY <1>1, HalfOwns
<1>3. \A u \in Threads \ {t} : /\ pc'[u] = "half" => pc[u] = "half"
                               /\ Shared(u)' = Shared(u)
  BY DEF Others, Shared
<1> QED
  BY <1>2, <1>3

\* The first half of an exchange shows nothing: the abstract queues, and the copy of
\* a copy assignment, are seen through the members that are still in place.
LEMMA SwapIndicesStutters ==
  ASSUME IInv(TRUE), Control', NEW t \in Threads, SwapIndices(t)
  PROVE  UNCHANGED Abstract!vars
<1> DEFINE o == WithIndices(Ours(t), Theirs(t))
           p == WithIndices(Theirs(t), Ours(t))
<1>1. Control /\ Others(t)
  BY OthersLemma DEF IInv, Inner
<1>2. /\ pc[t] = "swap" /\ Become(t, o, p) /\ UNCHANGED <<call, ret>>
      /\ pc' = [pc EXCEPT ![t] = "half"]
  BY DEF SwapIndices, Goto
<1>3. pc'[t] = "half"
  BY <1>1, <1>2 DEF Control, Types
<1>4. /\ call[t].op \in ExchangeOps /\ call[t].q \in Queues /\ call[t].other \in Queues
      /\ call[t].q # call[t].other /\ Shared(t) \subseteq alive /\ Shared(t) \subseteq Queues
  BY <1>1, <1>2, OursLemma
<1>5. Ours(t) \in Object /\ Theirs(t) \in Object
  BY <1>2, PartsLemma
<1>6. /\ o \in Object /\ p \in Object
      /\ WithIndices(o, p) = Ours(t) /\ WithIndices(p, o) = Theirs(t)
  BY <1>5, HalvesLemma
<1> HIDE DEF o, p
<1>7. /\ Ours(t)' = o /\ Theirs(t)' = p
      /\ \A r \in Queues \ Shared(t) : queue'[r] = queue[r]
      /\ call[t].op = "copy_assign" => temporary'[t] = p
  BY <1>1, <1>2, <1>6, BecomeLemma
<1>8. ASSUME NEW r \in Queues
      PROVE  value'[r] = value[r]
  <2>1. CASE r \notin Shared(t)
    <3>1. Shared(t)' = Shared(t)
      BY <1>2 DEF Shared
    <3>2. ~Bearing(t, r) /\ ~Bearing(t, r)'
      BY <1>2, <1>3 DEF Bearing
    <3> QED
      BY <1>1, <1>2, <1>7, <2>1, <3>1, <3>2, ValueElsewhere DEF Others
  <2>2. CASE r \in Shared(t)
    <3>1. r \in alive /\ ~Torn(r)
      BY <1>1, <1>2, <1>4, <2>2, OneHalf DEF Torn
    <3>2. value[r] = Value(queue[r])
      BY <1>1, <3>1, ValueLemma DEF ValueFacts
    <3>3. ValueFacts'
      <4>1. Control' => ValueFacts'
        BY ValueLemma, PTL
      <4> QED
        BY <4>1
    <3>4. CASE call[t].op # "move_construct" /\ r = call[t].q
      <4>1. queue[r] = Ours(t)
        BY <3>4 DEF Ours
      <4>2. value'[call'[t].q] = Value(WithIndices(Ours(t)', Theirs(t)'))
        BY <1>2, <1>3, <3>3, <3>4 DEF ValueFacts
      <4>3. value'[r] = Value(WithIndices(o, p))
        BY <1>2, <1>7, <3>4, <4>2
      <4> QED
        BY <1>6, <3>2, <4>1, <4>3
    <3>5. CASE call[t].op # "copy_assign" /\ r = call[t].other
      <4>1. queue[r] = Theirs(t)
        BY <3>5 DEF Theirs
      <4>2. value'[call'[t].other] = Value(WithIndices(Theirs(t)', Ours(t)'))
        BY <1>2, <1>3, <3>3, <3>5 DEF ValueFacts
      <4>3. value'[r] = Value(WithIndices(p, o))
        BY <1>2, <1>7, <3>5, <4>2
      <4> QED
        BY <1>6, <3>2, <4>1, <4>3
    <3> QED
      BY <2>2, <3>4, <3>5 DEF Shared
  <2> QED
    BY <2>1, <2>2
<1>9. value' = value
  <2>1. value = [r \in Queues |-> value[r]] /\ value' = [r \in Queues |-> value'[r]]
    BY DEF value
  <2> QED
    BY <1>8, <2>1
<1>10. Assigning(t)' <=> Assigning(t)
  BY <1>2, <1>3 DEF Assigning
<1>11. phase'[t] = phase[t]
  BY <1>2, <1>3, <1>10, CalledFacts
<1>12. copy'[t] = copy[t]
  <2>1. CASE ~Assigning(t)
    BY <1>10, <2>1, CalledFacts
  <2>2. CASE Assigning(t)
    <3>1. call[t].op = "copy_assign" /\ Theirs(t) = temporary[t]
      BY <2>2 DEF Assigning, Theirs
    <3>2. copy[t] = Value(temporary[t])
      BY <1>2, <2>2 DEF copy
    <3>3. copy'[t] = Value(WithIndices(temporary'[t], Ours(t)'))
      BY <1>3, <1>10, <2>2 DEF copy
    <3> QED
      BY <1>6, <1>7, <3>1, <3>2, <3>3
  <2> QED
    BY <2>1, <2>2
<1> QED
  BY <1>1, <1>2, <1>9, <1>11, <1>12, Stutter

\* The end of a move construction puts in place what the new queue has already.
LEMMA LeavingStutters ==
  ASSUME IInv(TRUE), Control', NEW t \in Threads, Leaving(t)
  PROVE  UNCHANGED Abstract!vars
<1>1. Control /\ Others(t)
  BY OthersLemma DEF IInv, Inner
<1>2. /\ pc[t] = "leave" /\ UNCHANGED <<call, ret>>
      /\ pc' = [pc EXCEPT ![t] = "return"]
      /\ IF call[t].op = "move_construct"
           THEN queue' = [queue EXCEPT ![call[t].q] = temporary[t]]
           ELSE queue' = queue
  BY DEF Leaving, Goto
<1>3. pc'[t] = "return"
  BY <1>1, <1>2 DEF Control, Types
<1>4. call[t] \in CallRecord
  BY <1>1, <1>2, AtCall
<1>5. PICK q \in Queues : q = call[t].q
  BY <1>4, CallsLemma
<1>6. ASSUME NEW r \in Queues, r # q \/ call[t].op # "move_construct"
      PROVE  value'[r] = value[r]
  <2>1. queue'[r] = queue[r]
    BY <1>1, <1>2, <1>5, <1>6 DEF Control, Types
  <2>2. ~Bearing(t, r) /\ ~Bearing(t, r)'
    BY <1>3, <1>5, <1>6 DEF Bearing
  <2> QED
    BY <1>1, <1>2, <1>3, <2>1, <2>2, ValueElsewhere DEF Others
<1>7. ASSUME call[t].op = "move_construct"
      PROVE  value'[q] = value[q]
  <2>1. value[q] = Value(temporary[t])
    BY <1>1, <1>2, <1>5, <1>7, ValueLemma DEF ValueFacts, Bearing
  <2>2. temporary[t] # Nil
    BY <1>2, <1>7, FineLemma DEF IInv, Whole, FineTemporary
  <2>3. queue'[q] = temporary[t] /\ q \in alive'
    BY <1>1, <1>2, <1>5, <1>7, <2>2 DEF Control, Types, alive
  <2>4. ~Torn(q)'
    <3>1. \A u \in Threads \ {t} : q \notin Shared(u)
      BY <1>1, <1>4, <1>5, <1>7, OwnLemma DEF OwningOps
    <3>2. \A u \in Threads : Shared(u)' = Shared(u)
      BY <1>2 DEF Shared
    <3> QED
      BY <1>3, <3>1, <3>2 DEF Torn
  <2>5. ValueFacts'
    <3>1. Control' => ValueFacts'
      BY ValueLemma, PTL
    <3> QED
      BY <3>1
  <2> QED
    BY <2>1, <2>3, <2>4, <2>5 DEF ValueFacts
<1>8. value' = value
  <2>1. value = [r \in Queues |-> value[r]] /\ value' = [r \in Queues |-> value'[r]]
    BY DEF value
  <2> QED
    BY <1>6, <1>7, <2>1
<1>9. ~Assigning(t) /\ ~Assigning(t)'
  BY <1>2, <1>3 DEF Assigning
<1> QED
  BY <1>1, <1>2, <1>3, <1>8, <1>9, PhaseFacts, CalledFacts, Stutter

-----------------------------------------------------------------------------
(* What the refinement asks of copies: the capacity that was read without the *)
(* original's mutex is still the original's when its elements are copied, and *)
(* a capacity of zero is not one of the middle of an exchange.                *)
CopiesCurrent == \A t \in Threads :
  /\ pc[t] = "copy" /\ m_mutex[call[t].other] = Nil
       => Capacity(call[t].other) = temporary[t].m_maximumSize
  /\ pc[t] = "read" /\ ~SelfAssignment(t) /\ Capacity(call[t].other) = 0
       => value[call[t].other].capacity = 0

LEMMA ReadCapacityRefines ==
  ASSUME IInv(TRUE), CopiesCurrent, Control', NEW t \in Threads, ReadCapacity(t)
  PROVE  Abstract!RefuseCopy(t) \/ UNCHANGED Abstract!vars
<1> DEFINE n == queue[call[t].other].m_maximumSize
<1>1. Control /\ Others(t)
  BY OthersLemma DEF IInv, Inner
<1>2. /\ pc[t] = "read" /\ ~SelfAssignment(t) /\ call' = call /\ queue' = queue
      /\ IF n = 0 THEN /\ pc' = [pc EXCEPT ![t] = "return"]
                       /\ ret' = [ret EXCEPT ![t] = Threw]
                  ELSE /\ pc' = [pc EXCEPT ![t] = "copy"]
                       /\ ret' = ret
  BY DEF ReadCapacity, Finish, Goto
<1>3. call[t].op \in CopyOps
  BY <1>1, <1>2 DEF Control, AtPlace
<1>4. phase[t] = "called" /\ ~Assigning(t)
  BY <1>2, CalledFacts DEF Assigning
<1>5. CASE n = 0
  <2>1. pc'[t] = "return" /\ ret' = [ret EXCEPT ![t] = Threw]
    BY <1>1, <1>2, <1>5 DEF Control, Types
  <2>2. value' = value
    BY <1>1, <1>2, <2>1, ValueSame
  <2>3. Abstract!Effect(t, value', Threw) /\ copy' = copy
    BY <1>1, <1>2, <2>1, Effective
  <2>4. value[call[t].other].capacity = 0
    BY <1>2, <1>5 DEF CopiesCurrent, Capacity
  <2> QED
    BY <1>3, <1>4, <2>2, <2>3, <2>4 DEF Abstract!RefuseCopy, Abstract!Threw, Threw, CopyOps
<1>6. CASE n # 0
  <2>1. pc'[t] = "copy" /\ ret' = ret
    BY <1>1, <1>2, <1>6 DEF Control, Types
  <2>2. value' = value
    BY <1>1, <1>2, <2>1, ValueSame
  <2>3. ~Assigning(t)'
    BY <2>1 DEF Assigning
  <2>4. phase'[t] = phase[t] /\ copy'[t] = copy[t]
    BY <1>4, <2>1, <2>3, CalledFacts
  <2> QED
    BY <1>1, <1>2, <2>1, <2>2, <2>4, Stutter
<1> QED
  BY <1>5, <1>6

\* What t copies, when it has the original's mutex.
LEMMA OriginalLemma ==
  ASSUME IInv(TRUE), NEW t \in Threads, pc[t] = "copy", m_mutex[call[t].other] = Nil
  PROVE  /\ call[t] \in CallRecord /\ call[t].op \in CopyOps
         /\ call[t].q \in Queues /\ call[t].q # call[t].other
         /\ call[t].other \in alive
         /\ Fine(queue[call[t].other], TRUE)
         /\ value[call[t].other] = Value(queue[call[t].other])
         /\ phase[t] = "called" /\ ~Assigning(t)
<1>1. Control
  BY DEF IInv
<1>2. call[t] \in CallRecord
  BY <1>1, AtCall
<1>3. call[t].op \in CopyOps /\ call[t].q # call[t].other
  BY <1>1 DEF Control, AtPlace
<1>4. call[t].q \in Queues /\ call[t].other # Nil
  BY <1>2, <1>3, CallsLemma
<1>5. call[t].other \in alive
  BY <1>1, <1>4 DEF Control, Exist
<1>6. Fine(queue[call[t].other], TRUE) /\ value[call[t].other] = Value(queue[call[t].other])
  BY <1>1, <1>5, FreeLemma, ValueFree
<1>7. phase[t] = "called" /\ ~Assigning(t)
  BY CalledFacts DEF Assigning
<1> QED
  BY <1>2, <1>3, <1>4, <1>5, <1>6, <1>7

LEMMA CopyThrowsRefines ==
  ASSUME IInv(TRUE), Control', NEW t \in Threads, NEW k \in Nat, CopyThrows(t, k)
  PROVE  Abstract!CopyFails(t)
<1> DEFINE p == call[t].other
<1>1. Control /\ Others(t)
  BY OthersLemma DEF IInv, Inner
<1>2. /\ pc[t] = "copy" /\ m_mutex[p] = Nil /\ k \in 1 .. queue[p].m_size
      /\ call' = call /\ queue' = queue
      /\ pc' = [pc EXCEPT ![t] = "return"] /\ ret' = [ret EXCEPT ![t] = Exception]
  BY DEF CopyThrows, Finish, Goto
<1>3. pc'[t] = "return"
  BY <1>1, <1>2 DEF Control, Types
<1>4. /\ "construct" \in Throws
      /\ call[t].op \in CopyOps /\ phase[t] = "called" /\ value[p].content # <<>>
  <2>1. Fine(queue[p], TRUE) /\ value[p] = Value(queue[p])
    BY <1>2, OriginalLemma
  <2>2. queue[p].m_size # 0
    BY <1>2
  <2>3. value[p].content # <<>>
    BY <2>1, <2>2, ValueFields
  <2>4. "construct" \in Throws
    BY DEF CopyThrows
  <2> QED
    BY <1>2, <2>3, <2>4, OriginalLemma
<1>5. value' = value
  BY <1>1, <1>2, <1>3, ValueSame
<1>6. Abstract!Effect(t, value', Exception) /\ copy' = copy
  BY <1>1, <1>2, <1>3, Effective
<1> QED
  BY <1>4, <1>5, <1>6 DEF Abstract!CopyFails, Abstract!Exception, Exception, CopyOps

\* The copy is what the original is when the loop runs, under its mutex.
LEMMA CopyElementsRefines ==
  ASSUME IInv(TRUE), CopiesCurrent, Control', NEW t \in Threads, CopyElements(t)
  PROVE  Abstract!Copy(t)
<1> DEFINE copied == Copied(t, queue[call[t].other].m_size)
<1>1. Control /\ Others(t)
  BY OthersLemma DEF IInv, Inner
<1>2. /\ pc[t] = "copy" /\ m_mutex[call[t].other] = Nil /\ Deliver(t, copied) /\ call' = call
  BY DEF CopyElements
<1>3. PICK q \in Queues, p \in Queues : q = call[t].q /\ p = call[t].other
  BY <1>2, OriginalLemma DEF alive
<1>4. /\ call[t] \in CallRecord /\ call[t].op \in CopyOps /\ q # p /\ p \in alive
      /\ Fine(queue[p], TRUE) /\ value[p] = Value(queue[p])
      /\ phase[t] = "called" /\ ~Assigning(t)
  BY <1>2, <1>3, OriginalLemma
<1>5. PICK N \in Capacities \ {0} : temporary[t] = Allocated(N)
  BY <1>2 DEF IInv, Whole, FineTemporary
<1>6. N \in Nat \ {0} /\ temporary[t].m_maximumSize = N /\ queue[p].m_maximumSize = N
  <2>1. N \in Nat \ {0} /\ temporary[t].m_maximumSize = N
    BY <1>5, AllocatedCapacity
  <2> QED
    BY <1>2, <1>3, <2>1 DEF CopiesCurrent, Capacity
<1>7. /\ Shape(queue[p], Counted) /\ WellFormed(queue[p])
      /\ queue[p].m_size \in Nat /\ queue[p].m_size <= N
  BY <1>4, <1>6 DEF Fine, Shape, WellFormed
<1>8. /\ Shape(copied, Counted) /\ copied.m_maximumSize = N /\ WellFormed(copied)
      /\ Contents(copied) = [i \in 1 .. queue[p].m_size |-> Contents(queue[p])[i]]
  <2>1. temporary[t] = Allocated(N) /\ queue[p] = queue[call[t].other]
    BY <1>3, <1>5
  <2>2. \A n \in 0 .. queue[p].m_size :
          /\ Shape(Copied(t, n), Counted) /\ Copied(t, n).m_maximumSize = N
          /\ n <= N => /\ WellFormed(Copied(t, n))
                       /\ Contents(Copied(t, n)) = [i \in 1 .. n |-> Contents(queue[p])[i]]
    BY <1>6, <1>7, <2>1, CopiedLemma
  <2>3. queue[p].m_size \in 0 .. queue[p].m_size /\ copied = Copied(t, queue[p].m_size)
    BY <1>3, <1>7
  <2> QED
    BY <1>7, <2>2, <2>3
<1>9. Value(copied) = value[p]
  <2>1. Contents(copied) = Contents(queue[p])
    BY <1>8 DEF Contents
  <2> QED
    BY <1>4, <1>6, <1>8, <2>1 DEF Value
<1>10. copied # Nil
  <2>1. Fine(copied, TRUE)
    BY <1>5, <1>8 DEF Fine
  <2> QED
    BY <2>1, FineLemma
<1> HIDE DEF copied
<1>11. value[p].capacity # 0
  BY <1>4, <1>6 DEF Value
<1>12. CASE call[t].op = "copy_construct"
  <2>1. /\ queue' = [queue EXCEPT ![q] = copied] /\ pc' = [pc EXCEPT ![t] = "return"]
        /\ ret' = [ret EXCEPT ![t] = Void]
    BY <1>2, <1>3, <1>12 DEF Deliver, Finish, Goto
  <2>2. pc'[t] = "return" /\ queue'[q] = copied /\ \A r \in Queues \ {q} : queue'[r] = queue[r]
    BY <1>1, <2>1 DEF Control, Types
  <2>3. value'[q] = Value(copied)
    <3>1. q \in alive'
      BY <1>10, <2>2 DEF alive
    <3>2. ~Torn(q)'
      <4>1. \A u \in Threads \ {t} : q \notin Shared(u)
        BY <1>1, <1>3, <1>4, <1>12, OwnLemma DEF OwningOps
      <4>2. \A u \in Threads : Shared(u)' = Shared(u)
        BY <1>2 DEF Shared
      <4> QED
        BY <2>2, <4>1, <4>2 DEF Torn
    <3>3. ValueFacts'
      <4>1. Control' => ValueFacts'
        BY ValueLemma, PTL
      <4> QED
        BY <4>1
    <3> QED
      BY <2>2, <3>1, <3>2, <3>3 DEF ValueFacts
  <2>4. value' = [value EXCEPT ![q] = value[p]]
    <3>1. value' = [value EXCEPT ![q] = value'[q]]
      BY <1>1, <1>2, <2>2, ValueOne
    <3> QED
      BY <1>9, <2>3, <3>1
  <2>5. Abstract!Effect(t, value', Void) /\ copy' = copy
    BY <1>1, <1>2, <2>1, <2>2, Effective
  <2> QED
    BY <1>3, <1>4, <1>11, <1>12, <2>4, <2>5 DEF Abstract!Copy, Abstract!Void, Void
<1>13. CASE call[t].op = "copy_assign"
  <2>1. /\ queue' = queue /\ ret' = ret /\ pc' = [pc EXCEPT ![t] = "claim"]
        /\ temporary' = [temporary EXCEPT ![t] = copied]
    BY <1>2, <1>13 DEF Deliver, Goto, CopyElements
  <2>2. pc'[t] = "claim" /\ temporary'[t] = copied
    BY <1>1, <2>1 DEF Control, Types
  <2>3. value' = value
    BY <1>1, <1>2, <2>1, <2>2, ValueSame
  <2>4. Assigning(t)'
    BY <1>2, <1>3, <1>4, <1>13, <2>2 DEF Assigning
  <2>5. phase'[t] = "copied" /\ copy'[t] = value[p]
    <3>1. copy'[t] = Value(temporary'[t])
      BY <2>2, <2>4 DEF copy
    <3> QED
      BY <1>9, <2>2, <2>4, <3>1, CalledFacts
  <2>6. phase' = [phase EXCEPT ![t] = "copied"] /\ copy' = [copy EXCEPT ![t] = value[p]]
    BY <1>1, <2>5, PhaseLemma
  <2> QED
    BY <1>2, <1>3, <1>4, <1>11, <1>13, <2>1, <2>3, <2>6 DEF Abstract!Copy
<1> QED
  BY <1>4, <1>12, <1>13 DEF CopyOps

-----------------------------------------------------------------------------
(* The second half of an exchange: the whole of it happens here. *)

LEMMA SwapStorageRefines ==
  ASSUME IInv(TRUE), MovedOut, Control', NEW t \in Threads, SwapStorage(t)
  PROVE  Abstract!Exchange(t) \/ Abstract!Move(t) \/ Abstract!Replace(t)
<1> DEFINE o == WithIndices(Theirs(t), Ours(t))
           r == WithIndices(Ours(t), Theirs(t))
<1>1. Control /\ Others(t)
  BY OthersLemma DEF IInv, Inner
<1>2. /\ pc[t] = "half" /\ call' = call
      /\ Become(t, WithStorage(Ours(t), Theirs(t)), WithStorage(Theirs(t), Ours(t)))
      /\ pc' = [pc EXCEPT ![t] = "leave"] /\ ret' = [ret EXCEPT ![t] = Void]
  BY DEF SwapStorage, Goto
<1>3. pc'[t] = "leave"
  BY <1>1, <1>2 DEF Control, Types
<1>4. PICK q \in Queues, p \in Queues : q = call[t].q /\ p = call[t].other
  BY <1>1, <1>2, OursLemma
<1>5. /\ call[t] \in CallRecord /\ call[t].op \in ExchangeOps /\ q # p
      /\ Shared(t) \subseteq alive /\ Shared(t) \subseteq Queues
  BY <1>1, <1>2, <1>4, OursLemma
<1>6. Ours(t) \in Object /\ Theirs(t) \in Object
  BY <1>2, PartsLemma
<1>7. /\ o \in Object /\ r \in Object /\ Become(t, o, r)
  <2>1. WithStorage(Ours(t), Theirs(t)) = o /\ WithStorage(Theirs(t), Ours(t)) = r
    BY <1>6, HalvesLemma
  <2> QED
    BY <1>2, <1>6, <2>1, HalvesLemma
<1>8. /\ call[t].op # "move_construct" => value[q] = Value(r)
      /\ call[t].op # "copy_assign" => value[p] = Value(o)
      /\ call[t].op = "move_construct" => r = Allocated(0)
  BY <1>1, <1>2, <1>4, ValueLemma DEF ValueFacts, MovedOut
<1> HIDE DEF o, r
<1>9. /\ alive' = alive /\ Ours(t)' = o /\ Theirs(t)' = r
      /\ \A x \in Queues \ Shared(t) : queue'[x] = queue[x]
      /\ call[t].op = "move_construct" => temporary'[t] = o
  BY <1>1, <1>2, <1>7, BecomeLemma
<1>10. ValueFacts'
  <2>1. Control' => ValueFacts'
    BY ValueLemma, PTL
  <2> QED
    BY <2>1
<1>11. \A x \in Shared(t) : value'[x] = Value(queue'[x])
  <2>1. ASSUME NEW x \in Shared(t)
        PROVE  ~Torn(x)' /\ x \in alive'
    BY <1>1, <1>2, <1>3, <1>5, <1>9, <2>1, OneHalf DEF Torn
  <2> QED
    BY <1>10, <2>1 DEF ValueFacts
<1>12. ASSUME NEW x \in Queues, x \notin Shared(t), x # q \/ call[t].op # "move_construct"
       PROVE  value'[x] = value[x]
  <2>1. Shared(t)' = Shared(t)
    BY <1>2 DEF Shared
  <2>2. ~Bearing(t, x) /\ ~Bearing(t, x)'
    BY <1>2, <1>4, <1>12 DEF Bearing
  <2> QED
    BY <1>1, <1>2, <1>3, <1>9, <1>12, <2>1, <2>2, ValueElsewhere DEF Others
<1>13. /\ call[t].op # "move_construct" => queue'[q] = o
       /\ call[t].op # "copy_assign" => queue'[p] = r
  BY <1>2, <1>4, <1>9 DEF Ours, Theirs
<1>14. value = [x \in Queues |-> value[x]] /\ value' = [x \in Queues |-> value'[x]]
  BY DEF value
<1>15. Abstract!Effect(t, value', Void)
  BY <1>1, <1>2, <1>3, Effective
<1>16. ASSUME ~Assigning(t)
       PROVE  phase[t] = "called" /\ copy' = copy
  <2>1. ~Assigning(t)'
    BY <1>3 DEF Assigning
  <2> QED
    BY <1>1, <1>2, <1>16, <2>1, CalledFacts, CopySame
<1>17. CASE call[t].op \in {"swap", "move_assign"}
  <2>1. Shared(t) = {q, p}
    BY <1>4, <1>17 DEF Shared
  <2>2. value'[q] = value[p] /\ value'[p] = value[q]
    BY <1>8, <1>11, <1>13, <1>17, <2>1
  <2>3. \A x \in Queues \ {q, p} : value'[x] = value[x]
    BY <1>12, <1>17, <2>1
  <2>4. value' = [value EXCEPT ![q] = value[p], ![p] = value[q]]
    BY <1>5, <1>14, <2>2, <2>3
  <2>5. ~Assigning(t)
    BY <1>17 DEF Assigning
  <2> QED
    BY <1>4, <1>15, <1>16, <1>17, <2>4, <2>5 DEF Abstract!Exchange, Abstract!Void, Void
<1>18. CASE call[t].op = "move_construct"
  <2>1. Shared(t) = {p}
    BY <1>4, <1>18 DEF Shared
  <2>2. value'[p] = Abstract!Fresh(0)
    <3>1. value'[p] = Value(Allocated(0))
      BY <1>8, <1>11, <1>13, <1>18, <2>1
    <3>2. Contents(Allocated(0)) = <<>> /\ Allocated(0).m_maximumSize = 0
      BY AllocatedLemma DEF Allocated
    <3> QED
      BY <3>1, <3>2 DEF Value, Abstract!Fresh
  <2>3. value'[q] = value[p]
    <3>1. Bearing(t, q)'
      BY <1>2, <1>3, <1>4, <1>18 DEF Bearing
    <3> QED
      BY <1>8, <1>9, <1>10, <1>18, <3>1 DEF ValueFacts
  <2>4. \A x \in Queues \ {q, p} : value'[x] = value[x]
    BY <1>12, <2>1
  <2>5. value' = [value EXCEPT ![q] = value[p], ![p] = Abstract!Fresh(0)]
    BY <1>5, <1>14, <2>2, <2>3, <2>4
  <2>6. ~Assigning(t)
    BY <1>18 DEF Assigning
  <2> QED
    BY <1>4, <1>15, <1>16, <1>18, <2>5, <2>6 DEF Abstract!Move, Abstract!Void, Void
<1>19. CASE call[t].op = "copy_assign"
  <2>1. Shared(t) = {q}
    BY <1>4, <1>19 DEF Shared
  <2>2. Assigning(t) /\ ~Assigning(t)'
    BY <1>2, <1>3, <1>4, <1>5, <1>19 DEF Assigning
  <2>3. copy[t] = Value(o)
    BY <1>2, <1>19, <2>2 DEF copy, Theirs, o
  <2>4. value'[q] = copy[t]
    BY <1>11, <1>13, <1>19, <2>1, <2>3
  <2>5. \A x \in Queues \ {q} : value'[x] = value[x]
    BY <1>12, <1>19, <2>1
  <2>6. value' = [value EXCEPT ![q] = copy[t]]
    BY <1>14, <2>4, <2>5
  <2>7. phase[t] = "copied" /\ copy'[t] = Nil
    BY <2>2, CalledFacts
  <2>8. copy' = [copy EXCEPT ![t] = Nil]
    BY <1>1, <2>7, PhaseLemma
  <2> QED
    BY <1>4, <1>15, <2>6, <2>7, <2>8 DEF Abstract!Replace, Abstract!Void, Void
<1> QED
  BY <1>5, <1>17, <1>18, <1>19 DEF ExchangeOps, SwapOps

-----------------------------------------------------------------------------
(* The refinement. *)

LEMMA TimedStep ==
  ASSUME Control, Timed, [Next]_vars
  PROVE  Timed'
<1>1. ASSUME NEW t \in Threads, Inner(t)
      PROVE  Timed'
  <2>1. call' = call
    BY <1>1, WithinLemma DEF Within
  <2>2. expired' = expired \/ (expired' = expired \cup {t} /\ call[t].op \in TimedOps)
    <3>1. CASE Expire(t)
      BY <3>1 DEF Expire
    <3>2. CASE \/ Push(t) \/ Pop(t) \/ PushFails(t) \/ PopFails(t)
              \/ Size(t) \/ Refuse(t) \/ Block(t) \/ WakeSpuriously(t)
      BY <3>2 DEF Push, Pop, PushFails, PopFails, Fail, Size, Refuse, Block, WakeSpuriously
    <3>3. CASE \/ ReadCapacity(t) \/ CopyElements(t) \/ (\E k \in Nat : CopyThrows(t, k))
              \/ KeepSelf(t) \/ LockFirst(t) \/ LockSecond(t) \/ BackOff(t)
      BY <3>3 DEF ReadCapacity, CopyElements, CopyThrows, KeepSelf, LockFirst, LockSecond, BackOff
    <3>4. CASE SwapIndices(t) \/ SwapStorage(t) \/ Leaving(t) \/ Destroy(t)
      BY <3>4 DEF SwapIndices, SwapStorage, Leaving, Destroy
    <3> QED
      BY <1>1, <3>1, <3>2, <3>3, <3>4 DEF Inner
  <2> QED
    BY <2>1, <2>2 DEF Timed
<1>2. ASSUME NEW t \in Threads, (\E c \in Menu[t] : Call(t, c)) \/ Return(t)
      PROVE  Timed'
  <2>1. \A u \in Threads \ {t} : call'[u] = call[u]
    BY <1>2 DEF Call, Return, Control, Types
  <2>2. expired' \subseteq expired \ {t}
    <3>1. CASE Return(t)
      BY <3>1 DEF Return
    <3>2. ASSUME NEW c \in Menu[t], Call(t, c)
          PROVE  expired' \subseteq expired \ {t}
      <4>1. pc[t] = "idle" /\ expired' = expired
        BY <3>2 DEF Call
      <4>2. call[t] = NoCall
        BY <4>1 DEF Control, AtPlace
      <4>3. t \notin expired
        BY <4>2 DEF Timed, NoCall, TimedOps
      <4> QED
        BY <4>1, <4>3
    <3> QED
      BY <1>2, <3>1, <3>2
  <2>3. expired \subseteq Threads
    BY DEF Control, Types
  <2> QED
    BY <2>1, <2>2, <2>3 DEF Timed
<1>3. CASE UNCHANGED vars
  BY <1>3 DEF vars, Timed
<1> QED
  BY <1>1, <1>2, <1>3, NextLemma

LEMMA MovedOutStep ==
  ASSUME IInv(TRUE), MovedOut, [Next]_vars
  PROVE  MovedOut'
<1>0. Control
  BY DEF IInv
<1>1. ASSUME NEW t \in Threads, Inner(t) \/ Return(t) \/ \E c \in Menu[t] : Call(t, c)
      PROVE  MovedOut'
  <2>1. Others(t)
    BY <1>1, OthersLemma
  <2>2. ASSUME NEW u \in Threads \ {t}, pc'[u] = "half", call'[u].op = "move_construct"
        PROVE  WithIndices(Ours(u)', Theirs(u)') = Allocated(0)
    BY <2>1, <2>2 DEF Others, MovedOut
  <2>3. ASSUME pc'[t] = "half", call'[t].op = "move_construct"
        PROVE  WithIndices(Ours(t)', Theirs(t)') = Allocated(0)
    <3>1. Inner(t) /\ Within(t)
      <4>1. ~Return(t)
        BY <1>0, <2>3 DEF Return, Goto, Control, Types
      <4>2. \A c \in Menu[t] : ~Call(t, c)
        BY <1>0, <2>3, CallPlace
      <4> QED
        BY <1>0, <1>1, <4>1, <4>2, WithinLemma
    <3>2. pc[t] = "swap" /\ call' = call
      BY <2>3, <3>1 DEF Within, Edge
    <3>3. SwapIndices(t)
      BY <3>1, <3>2
         DEF Inner, Push, Pop, PushFails, PopFails, Fail, Size, Refuse, Block, Expire,
             WakeSpuriously, Locks, ReadCapacity, CopyElements, CopyThrows, KeepSelf, LockFirst,
             LockSecond, BackOff, SwapStorage, Leaving, Destroy
    <3>4. Become(t, WithIndices(Ours(t), Theirs(t)), WithIndices(Theirs(t), Ours(t)))
      BY <3>3 DEF SwapIndices
    <3>5. Ours(t) \in Object /\ Theirs(t) \in Object
      BY <3>2, PartsLemma
    <3>6. /\ WithIndices(Ours(t), Theirs(t)) \in Object /\ WithIndices(Theirs(t), Ours(t)) \in Object
          /\ WithIndices(WithIndices(Ours(t), Theirs(t)), WithIndices(Theirs(t), Ours(t))) = Ours(t)
      BY <3>5, HalvesLemma
    <3>7. /\ Ours(t)' = WithIndices(Ours(t), Theirs(t))
          /\ Theirs(t)' = WithIndices(Theirs(t), Ours(t))
      BY <1>0, <3>2, <3>4, <3>6, BecomeLemma
    <3>8. Ours(t) = Allocated(0)
      BY <2>3, <3>2 DEF IInv, Whole, FineTemporary, Ours
    <3> QED
      BY <3>6, <3>7, <3>8
  <2> QED
    BY <2>2, <2>3 DEF MovedOut
<1>2. CASE UNCHANGED vars
  BY <1>2 DEF vars, MovedOut, Ours, Theirs
<1> QED
  BY <1>1, <1>2, NextLemma

LEMMA InnerRefines ==
  ASSUME IInv(TRUE), Timed, MovedOut, CopiesCurrent, Control', NEW t \in Threads, Inner(t)
  PROVE  Abstract!Next \/ UNCHANGED Abstract!vars
<1>1. CASE \/ Push(t) \/ Pop(t) \/ PushFails(t) \/ PopFails(t)
           \/ Size(t) \/ Refuse(t) \/ KeepSelf(t) \/ Destroy(t)
  BY <1>1, PushRefines, PopRefines, PushFailsRefines, PopFailsRefines, SizeRefines,
     RefuseRefines, KeepSelfRefines, DestroyRefines
     DEF Abstract!Next
<1>2. CASE ReadCapacity(t) \/ CopyElements(t) \/ \E k \in Nat : CopyThrows(t, k)
  BY <1>2, ReadCapacityRefines, CopyElementsRefines, CopyThrowsRefines DEF Abstract!Next
<1>3. CASE SwapStorage(t)
  BY <1>3, SwapStorageRefines DEF Abstract!Next
<1>4. CASE \/ Block(t) \/ Expire(t) \/ WakeSpuriously(t) \/ LockFirst(t) \/ LockSecond(t)
           \/ BackOff(t) \/ SwapIndices(t) \/ Leaving(t)
  BY <1>4, LockingStutters, SwapIndicesStutters, LeavingStutters
<1> QED
  BY <1>1, <1>2, <1>3, <1>4 DEF Inner

LEMMA StepRefines ==
  ASSUME IInv(TRUE), Timed, MovedOut, CopiesCurrent, IInv(TRUE)', [Next]_vars
  PROVE  [Abstract!Next]_(Abstract!vars)
<1>0. Control'
  BY DEF IInv
<1>1. ASSUME NEW t \in Threads, Inner(t)
      PROVE  Abstract!Next \/ UNCHANGED Abstract!vars
  BY <1>0, <1>1, InnerRefines
<1>2. ASSUME NEW t \in Threads, NEW c \in Menu[t], Call(t, c)
      PROVE  Abstract!Next
  BY <1>0, <1>2, CallRefines DEF Abstract!Next
<1>3. ASSUME NEW t \in Threads, Return(t)
      PROVE  Abstract!Next
  BY <1>0, <1>3, ReturnRefines DEF Abstract!Next
<1>4. ASSUME UNCHANGED vars
      PROVE  UNCHANGED Abstract!vars
  <2>1. value' = value
    BY <1>4 DEF vars, value, Newborn, Members, Halfway, Shared, alive, Ours, Theirs
  <2>2. phase' = phase /\ copy' = copy
    BY <1>4 DEF vars, phase, copy, Assigning, Ours
  <2> QED
    BY <1>4, <2>1, <2>2 DEF vars, Abstract!vars
<1> QED
  BY <1>1, <1>2, <1>3, <1>4, NextLemma

LEMMA InitRefines ==
  ASSUME Init
  PROVE  Abstract!Init
<1>1. Control /\ \A t \in Threads : pc[t] = "idle"
  BY InitIInv DEF IInv, Init
<1>2. ASSUME NEW q \in Queues
      PROVE  value[q] = IF Start[q] = 0 THEN Nil ELSE Abstract!Fresh(Start[q])
  <2>1. ~Torn(q) /\ \A t \in Threads : ~Bearing(t, q)
    BY <1>1 DEF Torn, Bearing
  <2>2. CASE Start[q] = 0
    <3>1. q \in Queues \ alive
      BY <2>2 DEF Init, alive
    <3> QED
      BY <1>1, <2>1, <2>2, <3>1, ValueLemma DEF ValueFacts
  <2>3. CASE Start[q] # 0
    <3>1. queue[q] = Allocated(Start[q]) /\ Start[q] \in Nat
      BY <2>3, StartAssumption DEF Init
    <3>2. q \in alive
      BY <3>1, FreshLemma, FineLemma DEF alive, Capacities
    <3>3. value[q] = Value(Allocated(Start[q]))
      BY <1>1, <2>1, <3>1, <3>2, ValueLemma DEF ValueFacts
    <3>4. /\ Contents(Allocated(Start[q])) = <<>>
          /\ Allocated(Start[q]).m_maximumSize = Start[q]
      BY <3>1, AllocatedLemma DEF Allocated
    <3> QED
      BY <2>3, <3>3, <3>4 DEF Value, Abstract!Fresh
  <2> QED
    BY <2>2, <2>3
<1>3. value = [q \in Queues |-> IF Start[q] = 0 THEN Nil ELSE Abstract!Fresh(Start[q])]
  BY <1>2 DEF value
<1>4. phase = [t \in Threads |-> "idle"] /\ copy = [t \in Threads |-> Nil]
  <2>1. \A t \in Threads : phase[t] = "idle" /\ copy[t] = Nil
    BY <1>1, PhaseFacts, CalledFacts DEF Assigning
  <2>2. phase = [t \in Threads |-> phase[t]] /\ copy = [t \in Threads |-> copy[t]]
    BY DEF phase, copy
  <2> QED
    BY <2>1, <2>2
<1> QED
  BY <1>3, <1>4 DEF Init, Abstract!Init, NoCall, NoRet, Abstract!NoCall, Abstract!NoRet

\* A copy that finds the capacity it read has room.
LEMMA CurrentFits ==
  ASSUME IInv(TRUE), CopiesCurrent
  PROVE  CopiesFit
<1>1. ASSUME NEW t \in Threads, pc[t] = "copy", m_mutex[call[t].other] = Nil
      PROVE  queue[call[t].other].m_size <= temporary[t].m_maximumSize
  <2>1. Fine(queue[call[t].other], TRUE)
    BY <1>1, OriginalLemma
  <2>2. queue[call[t].other].m_size <= queue[call[t].other].m_maximumSize
    BY <2>1 DEF Fine, WellFormed
  <2> QED
    BY <1>1, <2>2 DEF CopiesCurrent, Capacity
<1> QED
  BY <1>1 DEF CopiesFit

RefinementInv == IInv(TRUE) /\ Timed /\ MovedOut

LEMMA RefinementInit ==
  ASSUME Init
  PROVE  RefinementInv
BY InitIInv DEF RefinementInv, Init, Timed, MovedOut

LEMMA RefinementStep ==
  ASSUME RefinementInv, CopiesCurrent, [Next]_vars
  PROVE  RefinementInv' /\ [Abstract!Next]_(Abstract!vars)
<1>1. IInv(TRUE) /\ Timed /\ MovedOut /\ Control
  BY DEF RefinementInv, IInv
<1>2. IInv(TRUE)'
  BY <1>1, StepIInv, CurrentFits
<1>3. Timed' /\ MovedOut'
  BY <1>1, TimedStep, MovedOutStep
<1>4. [Abstract!Next]_(Abstract!vars)
  BY <1>1, <1>2, StepRefines
<1> QED
  BY <1>2, <1>3, <1>4 DEF RefinementInv

\* The queue objects implement queues that are copied and exchanged as a whole,
\* as long as each copy finds its original with the capacity it read without the
\* mutex.  std::lock with its back-offs, the exchange in two halves, the temporary
\* of the copy assignment and the waits and notifications are not seen from
\* outside: every call takes effect at one instant, a copy assignment at two.  A
\* push that throws leaves a counted element that was never made, as PutFails says,
\* a pop that throws loses its element or changes nothing, as TakeFails says, and a
\* copy that throws changes nothing.
THEOREM ImplementsSharedIfCopiesCurrent == Spec /\ []CopiesCurrent => ImplementsShared
<1>1. Init => RefinementInv /\ Abstract!Init
  BY RefinementInit, InitRefines
<1>2. RefinementInv /\ CopiesCurrent /\ [Next]_vars
        => RefinementInv' /\ [Abstract!Next]_(Abstract!vars)
  BY RefinementStep
<1> QED
  BY <1>1, <1>2, PTL DEF Spec, ImplementsShared, Abstract!Spec

-----------------------------------------------------------------------------
(* When copies find what they read. *)

\* Each copy's original always has the same capacity, or no other thread exchanges
\* it.
CopiesSteady(Kind) ==
  \A t \in Threads : \A c \in Menu[t] :
    c.op \in CopyOps => \/ OneCapacity(Kind[c.other]) /\ 0 \notin Kind[c.other]
                        \/ Undisturbed(t, c)

LEMMA SteadyLemma ==
  ASSUME IInv(TRUE), NEW Kind, Kinds(Kind), CopiesSteady(Kind)
  PROVE  CopiesCurrent
<1>1. Control
  BY DEF IInv
<1>2. ASSUME NEW t \in Threads, pc[t] = "copy", m_mutex[call[t].other] = Nil
      PROVE  Capacity(call[t].other) = temporary[t].m_maximumSize
  <2>1. call[t] \in CallRecord /\ call[t].op \in CopyOps /\ call[t].other \in alive
    BY <1>2, OriginalLemma
  <2>2. call[t] \in Menu[t]
    BY <2>1, CallsLemma DEF Kinds, ThreadKind
  <2>3. /\ temporary[t].m_maximumSize \in Kind[call[t].other]
        /\ Undisturbed(t, call[t]) => temporary[t].m_maximumSize = Capacity(call[t].other)
        /\ Capacity(call[t].other) \in Kind[call[t].other]
    BY <1>2, <2>1 DEF Kinds, ThreadKind
  <2> QED
    BY <2>1, <2>2, <2>3 DEF CopiesSteady, OneCapacity
<1>3. ASSUME NEW t \in Threads, pc[t] = "read", ~SelfAssignment(t), Capacity(call[t].other) = 0
      PROVE  value[call[t].other].capacity = 0
  <2> DEFINE p == call[t].other
  <2>1. call[t] \in CallRecord /\ call[t].op \in CopyOps
    BY <1>1, <1>3, AtCall DEF Control, AtPlace
  <2>2. call[t] \in Menu[t] /\ p \in alive
    BY <1>1, <2>1, CallsLemma DEF Kinds, ThreadKind, Control, Exist
  <2>3. 0 \in Kind[p]
    BY <1>3, <2>2 DEF Kinds
  <2>4. Undisturbed(t, call[t])
    BY <2>1, <2>2, <2>3 DEF CopiesSteady
  <2>5. ASSUME NEW u \in Threads, pc[u] = "half", p \in Shared(u)
        PROVE  FALSE
    <3>1. u # t
      BY <1>3, <2>5
    <3>2. call[u] \in CallRecord /\ call[u].op \in ExchangeOps /\ call[u].q # call[u].other
      BY <1>1, <2>5, OursLemma
    <3>3. call[u] \in Menu[u]
      BY <3>2, CallsLemma DEF Kinds, ThreadKind
    <3>4. p \notin ExchangedBy(call[u])
      BY <2>4, <3>1, <3>2, <3>3 DEF Undisturbed
    <3> QED
      BY <2>5, <3>2, <3>4 DEF Shared, ExchangedBy, ExchangeOps, SwapOps
  <2>6. value[p] = Value(queue[p])
    BY <1>1, <2>2, <2>5, ValueLemma DEF ValueFacts, Torn
  <2> QED
    BY <1>3, <2>6 DEF Value, Capacity
<1> QED
  BY <1>2, <1>3 DEF CopiesCurrent

\* If the original of each copy always has the same capacity, or is exchanged by no
\* other thread, the queue objects implement the abstract queues.
THEOREM SteadyImplementsShared ==
  ASSUME NEW Kind, Settled(Kind), CopiesSteady(Kind)
  PROVE  Spec => ImplementsShared
<1> DEFINE Inv == RefinementInv /\ Kinds(Kind)
<1>1. Init => Inv /\ Abstract!Init
  BY RefinementInit, InitRefines, KindsInit
<1>2. Inv /\ [Next]_vars => Inv' /\ [Abstract!Next]_(Abstract!vars)
  <2>1. ASSUME Inv, [Next]_vars
        PROVE  Inv' /\ [Abstract!Next]_(Abstract!vars)
    <3>1. IInv(TRUE) /\ CopiesCurrent
      BY <2>1, SteadyLemma DEF RefinementInv
    <3>2. Kinds(Kind)'
      BY <2>1, <3>1, KindsStep
    <3> QED
      BY <2>1, <3>1, <3>2, RefinementStep
  <2> QED
    BY <2>1
<1> HIDE DEF Inv
<1> QED
  BY <1>1, <1>2, PTL DEF Spec, ImplementsShared, Abstract!Spec

\* In particular if all queues that exist at first have one capacity and none is
\* moved from, whatever else the threads do.
COROLLARY EqualCapacitiesImplementShared ==
  ASSUME NEW n \in Nat \ {0}, \A q \in Queues : Start[q] \in {0, n},
         \A t \in Threads : \A c \in Menu[t] : c.op # "move_construct"
  PROVE  Spec => ImplementsShared
<1> DEFINE Kind == [q \in Queues |-> {n}]
<1>1. \A t \in Threads : \A c \in Menu[t] :
        c.op \in CopyOps \cup SwapOps => c.q \in Queues /\ c.other \in Queues
  BY MenuAssumption, CallsLemma
<1>2. Settled(Kind)
  BY <1>1 DEF Settled, SwapOps, CopyOps
<1>3. CopiesSteady(Kind)
  BY <1>1 DEF CopiesSteady, OneCapacity
<1> HIDE DEF Kind
<1> QED
  BY <1>2, <1>3, SteadyImplementsShared
=============================================================================
