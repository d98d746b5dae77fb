------------------------- MODULE QueueDoublesProofs -------------------------
(***************************************************************************)
(* Theorems about QueueDoubles, the queues of the lock suite used by one   *)
(* thread in any order of calls: any names, elements, capacities and       *)
(* mutexes, and either kind of std::lock.                                  *)
(***************************************************************************)
EXTENDS QueueDoubles, QueueRingProofs, FiniteSetTheorems

-----------------------------------------------------------------------------
(* Counting the elements in the slots. *)

\* The slots of o, which may be Nil, that hold an element.
SlotsOf(o) == IF o = Nil THEN {} ELSE {i \in DOMAIN o.m_data : o.m_data[i] # Nil}
SizeOf(o)  == IF o = Nil THEN 0 ELSE o.m_size

\* Those of all objects in f, with the names of the objects.
HeldSlots(f) == UNION {{q} \X SlotsOf(f[q]) : q \in Queues}

\* o is Nil or an object whose window is exactly what it holds.
Sound(o, E) == o = Nil \/ (Shape(o, E) /\ WellFormed(o))

\* A sound object holds as many elements as it counts: the window has m_size
\* slots, because m_size does not exceed the capacity.
LEMMA SizeLemma ==
  ASSUME NEW E, NEW o, Sound(o, E)
  PROVE  /\ IsFiniteSet(SlotsOf(o))
         /\ Cardinality(SlotsOf(o)) = SizeOf(o)
         /\ SizeOf(o) \in Nat
<1>1. CASE o = Nil
  BY <1>1, FS_EmptySet DEF SlotsOf, SizeOf
<1>2. CASE o # Nil
  <2> DEFINE n == o.m_maximumSize
             f == o.m_first
             s == o.m_size
  <2>1. /\ n \in Nat /\ s \in 0 .. n
        /\ DOMAIN o.m_data = 0 .. n - 1
        /\ n # 0 => f \in 0 .. n - 1
    BY <1>2 DEF Sound, Shape, WellFormed
  <2>2. \A i \in 0 .. n - 1 : o.m_data[i] # Nil <=> Offset(o, i) < s
    BY <1>2, SlotLemma DEF Sound
  <2>3. SlotsOf(o) = {i \in 0 .. n - 1 : Offset(o, i) < s}
    BY <1>2, <2>1, <2>2 DEF SlotsOf
  <2>4. \A i \in 0 .. n - 1 : Offset(o, i) = IF i >= f THEN i - f ELSE i - f + n
    BY DEF Offset
  <2> DEFINE Slot(k) == IF f + k < n THEN f + k ELSE f + k - n
             walk == [k \in 0 .. s - 1 |-> Slot(k)]
  <2> HIDE DEF n, f, s
  <2>5. ASSUME NEW k \in 0 .. s - 1
        PROVE  Slot(k) \in 0 .. n - 1 /\ Offset(o, Slot(k)) = k
    BY <2>1, <2>4
  <2>6. \A i \in SlotsOf(o) : Offset(o, i) \in 0 .. s - 1 /\ Slot(Offset(o, i)) = i
    BY <2>1, <2>3, <2>4
  <2>7. walk \in Bijection(0 .. s - 1, SlotsOf(o))
    <3>1. \A k \in 0 .. s - 1 : walk[k] \in SlotsOf(o)
      <4> TAKE k \in 0 .. s - 1
      <4>1. walk[k] = Slot(k) /\ k < s
        BY <2>1
      <4> QED
        BY <2>3, <2>5, <4>1
    <3>2. walk \in [0 .. s - 1 -> SlotsOf(o)]
      BY <3>1
    <3>3. \A k, m \in 0 .. s - 1 : walk[k] = walk[m] => k = m
      BY <2>5
    <3>4. \A i \in SlotsOf(o) : \E k \in 0 .. s - 1 : walk[k] = i
      BY <2>6
    <3> QED
      BY <3>2, <3>3, <3>4 DEF Bijection, Injection, IsInjective, Surjection
  <2>8. ExistsBijection(0 .. s - 1, SlotsOf(o))
    BY <2>7 DEF ExistsBijection
  <2>9. IsFiniteSet(0 .. s - 1) /\ Cardinality(0 .. s - 1) = s
    <3>1. 0 \in Int /\ s - 1 \in Int /\ s \in Nat
      BY <2>1
    <3>2. /\ IsFiniteSet(0 .. s - 1)
          /\ Cardinality(0 .. s - 1) = IF 0 > s - 1 THEN 0 ELSE s - 1 - 0 + 1
      BY <3>1, FS_Interval
    <3> QED
      BY <3>1, <3>2
  <2>10. IsFiniteSet(SlotsOf(o)) /\ Cardinality(SlotsOf(o)) = s
    BY <2>8, <2>9, FS_Bijection
  <2> QED
    BY <1>2, <2>1, <2>10 DEF SizeOf, s
<1> QED
  BY <1>1, <1>2

\* Where one object is replaced, the elements in the slots of all others stay.
LEMMA HeldLemma ==
  ASSUME NEW E, NEW f, NEW g, NEW q \in Queues,
         \A r \in Queues \ {q} : g[r] = f[r],
         Sound(f[q], E), Sound(g[q], E), IsFiniteSet(HeldSlots(f))
  PROVE  /\ IsFiniteSet(HeldSlots(g))
         /\ Cardinality(HeldSlots(g)) =
              Cardinality(HeldSlots(f)) - SizeOf(f[q]) + SizeOf(g[q])
<1> DEFINE others == UNION {{r} \X SlotsOf(f[r]) : r \in Queues \ {q}}
           Mine(h) == {q} \X SlotsOf(h[q])
<1>1. HeldSlots(f) = others \cup Mine(f)
  BY DEF HeldSlots
<1>2. HeldSlots(g) = others \cup Mine(g)
  <2>1. \A r \in Queues \ {q} : {r} \X SlotsOf(g[r]) = {r} \X SlotsOf(f[r])
    OBVIOUS
  <2>2. HeldSlots(g) = (UNION {{r} \X SlotsOf(g[r]) : r \in Queues \ {q}}) \cup Mine(g)
    BY DEF HeldSlots
  <2>3. UNION {{r} \X SlotsOf(g[r]) : r \in Queues \ {q}} = others
    BY <2>1
  <2> QED
    BY <2>2, <2>3
<1>3. \A x \in others : x \notin {q} \X SlotsOf(f[q]) /\ x \notin {q} \X SlotsOf(g[q])
  OBVIOUS
<1>4. /\ IsFiniteSet(Mine(f)) /\ Cardinality(Mine(f)) = SizeOf(f[q])
      /\ IsFiniteSet(Mine(g)) /\ Cardinality(Mine(g)) = SizeOf(g[q])
      /\ SizeOf(f[q]) \in Nat /\ SizeOf(g[q]) \in Nat
  <2>1. IsFiniteSet({q}) /\ Cardinality({q}) = 1
    BY FS_Singleton
  <2>2. /\ IsFiniteSet(SlotsOf(f[q])) /\ Cardinality(SlotsOf(f[q])) = SizeOf(f[q])
        /\ IsFiniteSet(SlotsOf(g[q])) /\ Cardinality(SlotsOf(g[q])) = SizeOf(g[q])
        /\ SizeOf(f[q]) \in Nat /\ SizeOf(g[q]) \in Nat
    BY SizeLemma
  <2>3. /\ IsFiniteSet(Mine(f)) /\ Cardinality(Mine(f)) = 1 * SizeOf(f[q])
        /\ IsFiniteSet(Mine(g)) /\ Cardinality(Mine(g)) = 1 * SizeOf(g[q])
    BY <2>1, <2>2, FS_Product
  <2> QED
    BY <2>2, <2>3
<1>5. others \cap Mine(f) = {} /\ others \cap Mine(g) = {}
  BY <1>3
<1> HIDE DEF others, Mine
<1>6. IsFiniteSet(others)
  BY <1>1, FS_Subset
<1>7. /\ Cardinality(others \cap Mine(f)) = 0
      /\ Cardinality(others \cap Mine(g)) = 0
      /\ Cardinality(others) \in Nat
  BY <1>5, <1>6, FS_EmptySet, FS_CardinalityType
<1>8. Cardinality(HeldSlots(f)) = Cardinality(others) + Cardinality(Mine(f)) - 0
  BY <1>1, <1>4, <1>6, <1>7, FS_Union
<1>9. Cardinality(HeldSlots(g)) = Cardinality(others) + Cardinality(Mine(g)) - 0
  <2>1. PICK m : m = Mine(g)
    OBVIOUS
  <2>2. Cardinality(others \cup m) =
          Cardinality(others) + Cardinality(m) - Cardinality(others \cap m)
    BY <1>4, <1>6, <2>1, FS_Union
  <2> QED
    BY <1>2, <1>7, <2>1, <2>2
<1>10. IsFiniteSet(HeldSlots(g))
  BY <1>2, <1>4, <1>6, FS_Union
<1> QED
  BY <1>4, <1>7, <1>8, <1>9, <1>10

\* Two objects are replaced by others that hold as many elements together.
LEMMA HeldTwoLemma ==
  ASSUME NEW E, NEW f, NEW g, NEW q \in Queues, NEW p \in Queues, q # p,
         \A r \in Queues \ {q, p} : g[r] = f[r],
         Sound(f[q], E), Sound(g[q], E), Sound(f[p], E), Sound(g[p], E),
         IsFiniteSet(HeldSlots(f)),
         SizeOf(g[q]) + SizeOf(g[p]) = SizeOf(f[q]) + SizeOf(f[p])
  PROVE  /\ IsFiniteSet(HeldSlots(g))
         /\ Cardinality(HeldSlots(g)) = Cardinality(HeldSlots(f))
<1>1. PICK h : h = [r \in Queues |-> IF r = q THEN g[q] ELSE f[r]]
  OBVIOUS
<1>2. /\ \A r \in Queues \ {q} : h[r] = f[r]
      /\ h[q] = g[q] /\ h[p] = f[p]
      /\ \A r \in Queues \ {p} : g[r] = h[r]
  BY <1>1
<1>3. /\ IsFiniteSet(HeldSlots(h))
      /\ Cardinality(HeldSlots(h)) = Cardinality(HeldSlots(f)) - SizeOf(f[q]) + SizeOf(g[q])
  BY <1>2, HeldLemma
<1>4. /\ IsFiniteSet(HeldSlots(g))
      /\ Cardinality(HeldSlots(g)) = Cardinality(HeldSlots(h)) - SizeOf(f[p]) + SizeOf(g[p])
  BY <1>2, <1>3, HeldLemma
<1>5. /\ SizeOf(f[q]) \in Nat /\ SizeOf(g[q]) \in Nat
      /\ SizeOf(f[p]) \in Nat /\ SizeOf(g[p]) \in Nat
      /\ Cardinality(HeldSlots(f)) \in Nat
  BY SizeLemma, FS_CardinalityType
<1> QED
  BY <1>3, <1>4, <1>5

-----------------------------------------------------------------------------
(* The counters. *)

Counters == {"lock", "unlock", "try_lock", "wait", "notify", "copied", "moved", "assigned",
             "destroyed", "returned", "allocatedArrays", "deallocatedArrays"}

\* A function on the counters, all of them whole numbers.
Counted(c) == c = [k \in Counters |-> c[k]] /\ \A k \in Counters : c[k] \in Int

\* What a record of costs says of a counter.
At(costs, k) == IF k \in DOMAIN costs THEN costs[k] ELSE 0

\* A record of costs.
Prices(costs) == /\ DOMAIN costs \subseteq Counters
                 /\ \A k \in DOMAIN costs : costs[k] \in Int

\* The elements that were constructed and neither destroyed nor handed out.
ElementsLeft(c) == c.copied + c.moved - c.destroyed - c.returned

LEMMA AddingLemma ==
  ASSUME Counted(tally), NEW costs, Prices(costs)
  PROVE  /\ Counted(Adding(costs))
         /\ ElementsLeft(Adding(costs)) = ElementsLeft(tally)
              + At(costs, "copied") + At(costs, "moved")
              - At(costs, "destroyed") - At(costs, "returned")
<1>1. DOMAIN tally = Counters /\ \A k \in Counters : tally[k] \in Int
  BY DEF Counted
<1>2. Adding(costs) = [k \in Counters |-> tally[k] + At(costs, k)]
  BY <1>1 DEF Adding, At
<1>3. \A k \in Counters : At(costs, k) \in Int
  BY DEF At, Prices
<1>4. PICK a : a = Adding(costs)
  OBVIOUS
<1>5. \A k \in Counters : a[k] = tally[k] + At(costs, k) /\ a[k] \in Int
  BY <1>1, <1>2, <1>3, <1>4
<1>6. a = [k \in Counters |-> a[k]]
  BY <1>2, <1>4, Zenon
<1>7. Counted(a)
  BY <1>5, <1>6 DEF Counted
<1>8. ElementsLeft(a) = ElementsLeft(tally)
              + At(costs, "copied") + At(costs, "moved")
              - At(costs, "destroyed") - At(costs, "returned")
  BY <1>1, <1>3, <1>5 DEF ElementsLeft, Counters
<1> QED
  BY <1>4, <1>7, <1>8

LEMMA ServeLemma ==
  ASSUME NEW op
  PROVE  LET c == Serve(op) IN
         /\ Prices(c)
         /\ At(c, "copied") = 0 /\ At(c, "moved") = 0 /\ At(c, "destroyed") = 0
         /\ At(c, "returned") = 0
<1> DEFINE c == Serve(op)
<1>1. /\ DOMAIN c = {"lock", "unlock", "notify", "wait"}
      /\ c.lock = 1 /\ c.unlock = 1 /\ c.notify = 1 /\ c.wait \in {0, 1}
  BY DEF Serve
<1> HIDE DEF c
<1>2. Prices(c)
  BY <1>1 DEF Prices, Counters
<1>3. /\ At(c, "copied") = 0 /\ At(c, "moved") = 0 /\ At(c, "destroyed") = 0
      /\ At(c, "returned") = 0
  BY <1>1 DEF At
<1> QED
  BY <1>2, <1>3 DEF c

\* The costs of locking and unlocking and of constructing and destroying k
\* elements, as a step of the queue combines them.
LEMMA ServedPush ==
  ASSUME Counted(tally), NEW op, NEW by \in {"copied", "moved"},
         tally' = [Adding(Serve(op)) EXCEPT ![by] = @ + 1]
  PROVE  /\ Counted(tally')
         /\ ElementsLeft(tally') = ElementsLeft(tally) + 1
<1>1. PICK a : a = Adding(Serve(op))
  OBVIOUS
<1>2. /\ Counted(a)
      /\ ElementsLeft(a) = ElementsLeft(tally) + 0 + 0 - 0 - 0
  BY <1>1, AddingLemma, ServeLemma
<1>3. tally' = [a EXCEPT ![by] = a[by] + 1]
  BY <1>1
<1>4. /\ tally' = [k \in Counters |-> tally'[k]]
      /\ \A k \in Counters : tally'[k] = IF k = by THEN a[k] + 1 ELSE a[k]
  BY <1>2, <1>3 DEF Counted, Counters
<1>5. Counted(tally')
  BY <1>2, <1>4 DEF Counted
<1>6. ElementsLeft(tally') = ElementsLeft(a) + 1
  BY <1>2, <1>4 DEF Counted, Counters, ElementsLeft
<1>7. ElementsLeft(tally) \in Int
  BY DEF Counted, Counters, ElementsLeft
<1> QED
  BY <1>2, <1>5, <1>6, <1>7

LEMMA ServedPop ==
  ASSUME Counted(tally), NEW op,
         \/ tally' = [Adding(Serve(op)) EXCEPT !.moved = @ + 1, !.destroyed = @ + 1,
                                               !.returned = @ + 1]
         \/ tally' = [Adding(Serve(op)) EXCEPT !.moved = @ + 1, !.assigned = @ + 1,
                                               !.destroyed = @ + 2]
  PROVE  /\ Counted(tally')
         /\ ElementsLeft(tally') = ElementsLeft(tally) - 1
<1>1. PICK a : a = Adding(Serve(op))
  OBVIOUS
<1>2. /\ Counted(a)
      /\ ElementsLeft(a) = ElementsLeft(tally) + 0 + 0 - 0 - 0
  BY <1>1, AddingLemma, ServeLemma
<1>3. ElementsLeft(tally) \in Int
  BY DEF Counted, Counters, ElementsLeft
<1>4. CASE tally' = [a EXCEPT !.moved = a.moved + 1, !.destroyed = a.destroyed + 1,
                              !.returned = a.returned + 1]
  <2>1. /\ tally' = [k \in Counters |-> tally'[k]]
        /\ \A k \in Counters : tally'[k] = IF k \in {"moved", "destroyed", "returned"}
                                             THEN a[k] + 1 ELSE a[k]
    BY <1>2, <1>4 DEF Counted, Counters
  <2>2. Counted(tally')
    BY <1>2, <2>1 DEF Counted
  <2>3. ElementsLeft(tally') = ElementsLeft(a) - 1
    BY <1>2, <2>1 DEF Counted, Counters, ElementsLeft
  <2> QED
    BY <1>2, <1>3, <2>2, <2>3
<1>5. CASE tally' = [a EXCEPT !.moved = a.moved + 1, !.assigned = a.assigned + 1,
                              !.destroyed = a.destroyed + 2]
  <2>1. /\ tally' = [k \in Counters |-> tally'[k]]
        /\ \A k \in Counters : tally'[k] =
             CASE k \in {"moved", "assigned"} -> a[k] + 1
               [] k = "destroyed" -> a[k] + 2
               [] OTHER -> a[k]
    BY <1>2, <1>5 DEF Counted, Counters
  <2>2. Counted(tally')
    BY <1>2, <2>1 DEF Counted
  <2>3. ElementsLeft(tally') = ElementsLeft(a) - 1
    BY <1>2, <2>1 DEF Counted, Counters, ElementsLeft
  <2> QED
    BY <1>2, <1>3, <2>2, <2>3
<1> QED
  BY <1>1, <1>4, <1>5

\* The other steps only add costs.
LEMMA Added ==
  ASSUME Counted(tally), NEW costs, Prices(costs), Costs(costs)
  PROVE  /\ Counted(tally')
         /\ ElementsLeft(tally') = ElementsLeft(tally)
              + At(costs, "copied") + At(costs, "moved")
              - At(costs, "destroyed") - At(costs, "returned")
BY AddingLemma DEF Costs

\* Costs without elements, and elements copied and destroyed.
LEMMA AddedLocked ==
  ASSUME Counted(tally), NEW costs, Costs(costs),
         \/ costs = Locked
         \/ costs = [lock |-> 2, unlock |-> 2, wait |-> 1]
  PROVE  /\ Counted(tally')
         /\ ElementsLeft(tally') = ElementsLeft(tally)
<1>1. /\ At(costs, "copied") = 0 /\ At(costs, "moved") = 0
      /\ At(costs, "destroyed") = 0 /\ At(costs, "returned") = 0
  BY DEF At, Locked
<1>2. Prices(costs)
  BY DEF Prices, Counters, Locked
<1>3. /\ Counted(tally')
      /\ ElementsLeft(tally') = ElementsLeft(tally) + 0 + 0 - 0 - 0
  BY <1>1, <1>2, Added
<1> QED
  BY <1>3 DEF Counted, Counters, ElementsLeft

LEMMA AddedDestroyed ==
  ASSUME Counted(tally), NEW n \in Nat, Costs([destroyed |-> n])
  PROVE  /\ Counted(tally')
         /\ ElementsLeft(tally') = ElementsLeft(tally) - n
<1>1. PICK costs : costs = [destroyed |-> n]
  OBVIOUS
<1>2. /\ At(costs, "copied") = 0 /\ At(costs, "moved") = 0
      /\ At(costs, "destroyed") = n /\ At(costs, "returned") = 0
  BY <1>1 DEF At
<1>3. Prices(costs)
  BY <1>1 DEF Prices, Counters
<1>4. /\ Counted(tally')
      /\ ElementsLeft(tally') = ElementsLeft(tally) + 0 + 0 - n - 0
  BY <1>1, <1>2, <1>3, Added
<1> QED
  BY <1>4 DEF Counted, Counters, ElementsLeft

\* However often std::lock begins again.
LEMMA AddedSwap ==
  ASSUME Counted(tally), NEW ours \in Nat, NEW theirs \in Nat, Costs(CostsOfSwap(ours, theirs))
  PROVE  /\ Counted(tally')
         /\ ElementsLeft(tally') = ElementsLeft(tally)
<1>1. PICK k : k = Failures(ours, theirs)
  OBVIOUS
<1>2. k \in Nat
  BY <1>1 DEF Failures
<1>3. PICK costs : costs = SwapCosts(k)
  OBVIOUS
<1>4. /\ At(costs, "copied") = 0 /\ At(costs, "moved") = 0
      /\ At(costs, "destroyed") = 0 /\ At(costs, "returned") = 0
  BY <1>3 DEF At, SwapCosts
<1>5. Prices(costs)
  BY <1>2, <1>3 DEF Prices, Counters, SwapCosts, FailedRound, LastRound, Guards
<1>6. Costs(costs)
  BY <1>1, <1>3 DEF CostsOfSwap
<1>7. /\ Counted(tally')
      /\ ElementsLeft(tally') = ElementsLeft(tally) + 0 + 0 - 0 - 0
  BY <1>4, <1>5, <1>6, Added
<1> QED
  BY <1>7 DEF Counted, Counters, ElementsLeft

LEMMA AddedCopy ==
  ASSUME Counted(tally), NEW n \in Nat,
         Costs([lock |-> 1, unlock |-> 1, copied |-> n])
  PROVE  /\ Counted(tally')
         /\ ElementsLeft(tally') = ElementsLeft(tally) + n
<1>1. PICK costs : costs = [lock |-> 1, unlock |-> 1, copied |-> n]
  OBVIOUS
<1>2. /\ At(costs, "copied") = n /\ At(costs, "moved") = 0
      /\ At(costs, "destroyed") = 0 /\ At(costs, "returned") = 0
  BY <1>1 DEF At
<1>3. Prices(costs)
  BY <1>1 DEF Prices, Counters
<1>4. /\ Counted(tally')
      /\ ElementsLeft(tally') = ElementsLeft(tally) + n + 0 - 0 - 0
  BY <1>1, <1>2, <1>3, Added
<1> QED
  BY <1>4 DEF Counted, Counters, ElementsLeft

LEMMA AddedCopyAssign ==
  ASSUME Counted(tally), NEW ours \in Nat, NEW theirs \in Nat, NEW n \in Nat, NEW m \in Nat,
         LET swap == CostsOfSwap(ours, theirs) IN
           Costs([lock |-> swap.lock + 1, try_lock |-> swap.try_lock,
                  unlock |-> swap.unlock + 1, copied |-> n, destroyed |-> m])
  PROVE  /\ Counted(tally')
         /\ ElementsLeft(tally') = ElementsLeft(tally) + n - m
<1>1. PICK k : k = Failures(ours, theirs)
  OBVIOUS
<1>2. k \in Nat
  BY <1>1 DEF Failures
<1>3. PICK costs : costs = [lock |-> SwapCosts(k).lock + 1, try_lock |-> SwapCosts(k).try_lock,
                            unlock |-> SwapCosts(k).unlock + 1, copied |-> n, destroyed |-> m]
  OBVIOUS
<1>4. /\ At(costs, "copied") = n /\ At(costs, "moved") = 0
      /\ At(costs, "destroyed") = m /\ At(costs, "returned") = 0
  BY <1>3 DEF At
<1>5. Prices(costs)
  BY <1>2, <1>3 DEF Prices, Counters, SwapCosts, FailedRound, LastRound, Guards
<1>6. Costs(costs)
  BY <1>1, <1>3 DEF CostsOfSwap
<1>7. /\ Counted(tally')
      /\ ElementsLeft(tally') = ElementsLeft(tally) + n + 0 - m - 0
  BY <1>4, <1>5, <1>6, Added
<1> QED
  BY <1>7 DEF Counted, Counters, ElementsLeft

-----------------------------------------------------------------------------
(* The invariant. *)

\* Nil is not a record of members.
NilIsNoQueue(E) == ~Shape(Nil, E)

\* E holds the values, and what the copy constructor makes of its elements.
ElementsOf(E) == /\ Values \subseteq E /\ Nil \notin E
                 /\ \A e \in E : CopyOf(e) \in E

\* The arguments of constructors and templates are no negative numbers.
NaturalArguments == Capacities \subseteq Nat /\ FalseTries \subseteq Nat

\* The doubles of a queue that exists.
Doubled(d) == d \in [nOfFalseTries : Nat, DO_CHECK : BOOLEAN, remaining_tries : Nat]

ObjectsInv(E) ==
  /\ object = [q \in Queues |-> object[q]]
  /\ doubles = [q \in Queues |-> doubles[q]]
  /\ \A q \in Queues : Sound(object[q], E) /\ (object[q] # Nil => Doubled(doubles[q]))

DoublesInv(E) ==
  /\ ObjectsInv(E)
  /\ Counted(tally)
  /\ IsFiniteSet(HeldSlots(object))
  /\ ElementsLeft(tally) = Cardinality(HeldSlots(object))

\* How a step changes the invariant's parts, when it replaces one object.
LEMMA BecomeLemma ==
  ASSUME NEW E, DoublesInv(E), NEW q \in Queues, NEW o, Sound(o, E), Become(q, o),
         Counted(tally'),
         ElementsLeft(tally') = ElementsLeft(tally) - SizeOf(object[q]) + SizeOf(o),
         doubles' = [p \in Queues |-> doubles'[p]],
         \A p \in Queues \ {q} : doubles'[p] = doubles[p],
         o # Nil => Doubled(doubles'[q])
  PROVE  DoublesInv(E)'
<1>1. /\ object' = [p \in Queues |-> object'[p]]
      /\ object'[q] = o
      /\ \A p \in Queues \ {q} : object'[p] = object[p]
  BY DEF DoublesInv, ObjectsInv, Become
<1>2. ObjectsInv(E)'
  BY <1>1 DEF DoublesInv, ObjectsInv, Doubled
<1>3. Sound(object[q], E) /\ Sound(object'[q], E) /\ IsFiniteSet(HeldSlots(object))
  BY <1>1 DEF DoublesInv, ObjectsInv
<1>4. PICK f, g : f = object /\ g = object'
  OBVIOUS
<1>5. /\ IsFiniteSet(HeldSlots(g))
      /\ Cardinality(HeldSlots(g)) = Cardinality(HeldSlots(f)) - SizeOf(f[q]) + SizeOf(g[q])
  BY <1>1, <1>3, <1>4, HeldLemma
<1>6. /\ ElementsLeft(tally') = Cardinality(HeldSlots(object'))
      /\ IsFiniteSet(HeldSlots(object'))
  BY <1>1, <1>4, <1>5 DEF DoublesInv
<1> QED
  BY <1>2, <1>6 DEF DoublesInv

\* A step that leaves the objects alone, and elements neither more nor fewer.
LEMMA SameLemma ==
  ASSUME NEW E, DoublesInv(E), UNCHANGED <<object, doubles>>,
         Counted(tally'),
         ElementsLeft(tally') = ElementsLeft(tally)
  PROVE  DoublesInv(E)'
<1>1. ObjectsInv(E)'
  BY DEF DoublesInv, ObjectsInv, Doubled
<1> QED
  BY <1>1 DEF DoublesInv, HeldSlots

\* A step that leaves the counters alone as well.
LEMMA IdleLemma ==
  ASSUME NEW E, DoublesInv(E), UNCHANGED <<object, doubles, tally>>
  PROVE  DoublesInv(E)'
BY SameLemma DEF DoublesInv

\* What is living is what the slots hold.
LEMMA LivingLemma ==
  ASSUME NEW E, DoublesInv(E)
  PROVE  Living = Cardinality(HeldSlots(object))
<1>1. \A q \in alive : SlotsOf(object[q]) = Constructed(q)
  BY DEF alive, SlotsOf, Constructed
<1>2. \A q \in Queues \ alive : {q} \X SlotsOf(object[q]) = {}
  BY DEF alive, SlotsOf
<1>3. HeldSlots(object) = UNION {{q} \X SlotsOf(object[q]) : q \in alive}
  BY <1>2 DEF HeldSlots, alive
<1>4. {{q} \X SlotsOf(object[q]) : q \in alive} = {{q} \X Constructed(q) : q \in alive}
  BY <1>1
<1> QED
  BY <1>3, <1>4 DEF Living

-----------------------------------------------------------------------------
(* The functions of one queue. *)

LEMMA SoundQueue ==
  ASSUME NEW E, NilIsNoQueue(E), DoublesInv(E), NEW q \in alive
  PROVE  /\ q \in Queues /\ object[q] # Nil
         /\ Shape(object[q], E) /\ WellFormed(object[q])
         /\ SizeOf(object[q]) = object[q].m_size
         /\ object[q].m_size \in Nat /\ object[q].m_maximumSize \in Nat
         /\ Doubled(doubles[q])
BY DEF alive, DoublesInv, ObjectsInv, Sound, SizeOf, Shape

LEMMA ConstructLemma ==
  ASSUME NEW E, NaturalArguments, NilIsNoQueue(E), DoublesInv(E), NEW q \in Queues,
         NEW n \in Capacities, NEW tries \in FalseTries, NEW check \in BOOLEAN,
         Construct(q, n, tries, check)
  PROVE  DoublesInv(E)'
<1>1. CASE n = 0
  BY <1>1, IdleLemma DEF Construct
<1>2. CASE n # 0
  <2>1. PICK o : o = Allocated(n)
    OBVIOUS
  <2>2. /\ Become(q, o) /\ doubles' = [doubles EXCEPT ![q] = New(tries, check)]
        /\ tally' = tally /\ object[q] = Nil
    BY <1>2, <2>1 DEF Construct, alive
  <2>3. n \in Nat /\ tries \in Nat
    BY DEF NaturalArguments
  <2>4. Shape(o, E) /\ WellFormed(o)
    BY <2>1, <2>3, AllocatedLemma
  <2>5. o.m_size = 0
    BY <2>1 DEF Allocated
  <2>6. SizeOf(o) = 0 /\ SizeOf(object[q]) = 0
    BY <2>2, <2>5 DEF SizeOf
  <2>7. ElementsLeft(tally) \in Int
    BY DEF DoublesInv, Counted, Counters, ElementsLeft
  <2>8. Counted(tally)
    BY DEF DoublesInv
  <2>9. /\ doubles' = [p \in Queues |-> doubles'[p]]
        /\ \A p \in Queues \ {q} : doubles'[p] = doubles[p]
        /\ doubles'[q] = New(tries, check)
    BY <2>2 DEF DoublesInv, ObjectsInv
  <2>10. Doubled(New(tries, check))
    BY <2>3 DEF Doubled, New
  <2>11. Sound(o, E)
    BY <2>4 DEF Sound
  <2>12. Counted(tally')
    BY <2>2, <2>8
  <2>13. ElementsLeft(tally') = ElementsLeft(tally) - SizeOf(object[q]) + SizeOf(o)
    BY <2>2, <2>6, <2>7
  <2> QED
    BY <2>2, <2>9, <2>10, <2>11, <2>12, <2>13, BecomeLemma
<1> QED
  BY <1>1, <1>2

LEMMA DestroyLemma ==
  ASSUME NEW E, NilIsNoQueue(E), DoublesInv(E), NEW q \in Queues, Destroy(q)
  PROVE  DoublesInv(E)'
<1>1. /\ q \in alive /\ Become(q, Nil) /\ doubles' = [doubles EXCEPT ![q] = Nil]
      /\ Costs([destroyed |-> object[q].m_size])
  BY DEF Destroy
<1>2. SizeOf(object[q]) = object[q].m_size /\ object[q].m_size \in Nat
  BY <1>1, SoundQueue
<1>3. /\ Counted(tally')
      /\ ElementsLeft(tally') = ElementsLeft(tally) - object[q].m_size
  BY <1>1, <1>2, AddedDestroyed DEF DoublesInv
<1>4. ElementsLeft(tally) \in Int
  BY DEF DoublesInv, Counted, Counters, ElementsLeft
<1>5. SizeOf(Nil) = 0 /\ Sound(Nil, E)
  BY DEF SizeOf, Sound
<1>6. ElementsLeft(tally') = ElementsLeft(tally) - SizeOf(object[q]) + SizeOf(Nil)
  BY <1>2, <1>3, <1>4, <1>5
<1>7. /\ doubles' = [p \in Queues |-> doubles'[p]]
      /\ \A p \in Queues \ {q} : doubles'[p] = doubles[p]
  BY <1>1 DEF DoublesInv, ObjectsInv
<1> QED
  BY <1>1, <1>3, <1>5, <1>6, <1>7, BecomeLemma

LEMMA MeasureLemma ==
  ASSUME NEW E, DoublesInv(E), NEW q \in Queues, Measure(q)
  PROVE  DoublesInv(E)'
<1>1. Costs(Locked) /\ UNCHANGED <<object, doubles>>
  BY DEF Measure
<1>2. /\ Counted(tally')
      /\ ElementsLeft(tally') = ElementsLeft(tally)
  BY <1>1, AddedLocked DEF DoublesInv
<1> QED
  BY <1>1, <1>2, SameLemma

LEMMA RefuseLemma ==
  ASSUME NEW E, DoublesInv(E), NEW q, NEW op, Refuse(q, op)
  PROVE  DoublesInv(E)'
<1>1. PICK costs : /\ costs = Locked \/ costs = [lock |-> 2, unlock |-> 2, wait |-> 1]
                   /\ Costs(costs)
  BY DEF Refuse
<1>2. UNCHANGED <<object, doubles>>
  BY DEF Refuse
<1>3. /\ Counted(tally')
      /\ ElementsLeft(tally') = ElementsLeft(tally)
  BY <1>1, AddedLocked DEF DoublesInv
<1> QED
  BY <1>2, <1>3, SameLemma

\* push and pop replace one object by a sound one with an element more or less.
LEMMA ResizeLemma ==
  ASSUME NEW E, NilIsNoQueue(E), DoublesInv(E), NEW q \in alive, NEW o, NEW by \in {1, -1},
         Shape(o, E), WellFormed(o), o.m_size = object[q].m_size + by,
         Become(q, o), UNCHANGED doubles,
         Counted(tally'),
         ElementsLeft(tally') = ElementsLeft(tally) + by
  PROVE  DoublesInv(E)'
<1>1. /\ q \in Queues /\ SizeOf(object[q]) = object[q].m_size
      /\ object[q].m_size \in Nat /\ Doubled(doubles[q])
  BY SoundQueue
<1>2. o # Nil
  BY DEF NilIsNoQueue
<1>3. SizeOf(o) = object[q].m_size + by /\ Sound(o, E)
  BY <1>2 DEF SizeOf, Sound
<1>4. ElementsLeft(tally) \in Int
  BY DEF DoublesInv, Counted, Counters, ElementsLeft
<1>5. ElementsLeft(tally') = ElementsLeft(tally) - SizeOf(object[q]) + SizeOf(o)
  BY <1>1, <1>3, <1>4
<1>6. /\ doubles' = [p \in Queues |-> doubles'[p]]
      /\ \A p \in Queues \ {q} : doubles'[p] = doubles[p]
      /\ Doubled(doubles'[q])
  BY <1>1 DEF DoublesInv, ObjectsInv
<1> QED
  BY <1>1, <1>3, <1>5, <1>6, BecomeLemma

LEMMA PushLemma ==
  ASSUME NEW E, ElementsOf(E), NilIsNoQueue(E), DoublesInv(E), NEW q \in Queues,
         NEW v \in Values, NEW op, NEW by \in {"copied", "moved"}, Push(q, v, op, by)
  PROVE  DoublesInv(E)'
<1>1. CASE do_full(object[q])
  BY <1>1, RefuseLemma DEF Push
<1>2. CASE ~do_full(object[q])
  <2>1. /\ q \in alive /\ Become(q, do_push(object[q], v)) /\ UNCHANGED doubles
        /\ tally' = [Adding(Serve(op)) EXCEPT ![by] = @ + 1]
    BY <1>2 DEF Push
  <2>2. /\ Shape(object[q], E) /\ WellFormed(object[q])
        /\ object[q].m_size \in Nat /\ object[q].m_maximumSize \in Nat
    BY <2>1, SoundQueue
  <2>3. object[q].m_maximumSize # 0
    BY <1>2, <2>2 DEF do_full, WellFormed
  <2>4. Nil \notin E /\ v \in E \cup {Nil} /\ v # Nil
    BY DEF ElementsOf
  <2>5. PICK o : o = do_push(object[q], v)
    OBVIOUS
  <2>6. Shape(o, E) /\ WellFormed(o) /\ o.m_size = object[q].m_size + 1
    <3>1. PICK b : b = object[q]
      OBVIOUS
    <3>2. /\ Shape(b, E) /\ WellFormed(b) /\ ~do_full(b) /\ b.m_maximumSize # 0
          /\ o = do_push(b, v)
      BY <1>2, <2>2, <2>3, <2>5, <3>1
    <3>3. Shape(do_push(b, v), E)
      BY <2>4, <3>2, do_pushLemma
    <3>4. do_push(b, v).m_size = b.m_size + 1
      BY <3>2 DEF do_push, Shape, Record
    <3>5. WellFormed(b) /\ ~do_full(b) /\ v # Nil => WellFormed(do_push(b, v))
      BY <2>4, <3>2, do_pushLemma
    <3> QED
      BY <2>4, <3>1, <3>2, <3>3, <3>4, <3>5
  <2>7. /\ Counted(tally')
        /\ ElementsLeft(tally') = ElementsLeft(tally) + 1
    BY <2>1, ServedPush DEF DoublesInv
  <2> QED
    BY <2>1, <2>5, <2>6, <2>7, ResizeLemma
<1> QED
  BY <1>1, <1>2

\* The effect of do_pop() on what both pops share.
LEMMA TakeLemma ==
  ASSUME NEW E, ElementsOf(E), NilIsNoQueue(E), DoublesInv(E), NEW q \in alive, NEW op,
         ~do_empty(object[q]), Become(q, do_pop(object[q])), UNCHANGED doubles,
         \/ tally' = [Adding(Serve(op)) EXCEPT !.moved = @ + 1, !.destroyed = @ + 1,
                                               !.returned = @ + 1]
         \/ tally' = [Adding(Serve(op)) EXCEPT !.moved = @ + 1, !.assigned = @ + 1,
                                               !.destroyed = @ + 2]
  PROVE  DoublesInv(E)'
<1>1. /\ Shape(object[q], E) /\ WellFormed(object[q]) /\ object[q].m_size \in Nat
  BY SoundQueue
<1>2. Nil \notin E
  BY DEF ElementsOf
<1>3. PICK o : o = do_pop(object[q])
  OBVIOUS
<1>4. Shape(o, E) /\ WellFormed(o) /\ o.m_size = object[q].m_size - 1
  BY <1>1, <1>2, <1>3, do_popLemma
<1>5. /\ Counted(tally')
      /\ ElementsLeft(tally') = ElementsLeft(tally) - 1
  BY ServedPop DEF DoublesInv
<1>6. ElementsLeft(tally) \in Int
  BY DEF DoublesInv, Counted, Counters, ElementsLeft
<1>7. PICK by : by = -1
  OBVIOUS
<1>8. /\ by \in {1, -1} /\ o.m_size = object[q].m_size + by
      /\ ElementsLeft(tally') = ElementsLeft(tally) + by
  BY <1>1, <1>4, <1>5, <1>6, <1>7
<1> QED
  BY <1>3, <1>4, <1>5, <1>8, ResizeLemma

LEMMA PopLemma ==
  ASSUME NEW E, ElementsOf(E), NilIsNoQueue(E), DoublesInv(E), NEW q \in Queues, Pop(q)
  PROVE  DoublesInv(E)'
BY TakeLemma DEF Pop

LEMMA PopToLemma ==
  ASSUME NEW E, ElementsOf(E), NilIsNoQueue(E), DoublesInv(E), NEW q \in Queues, NEW op,
         PopTo(q, op)
  PROVE  DoublesInv(E)'
<1>1. CASE do_empty(object[q])
  BY <1>1, RefuseLemma DEF PopTo
<1>2. CASE ~do_empty(object[q])
  BY <1>2, TakeLemma DEF PopTo
<1> QED
  BY <1>1, <1>2

-----------------------------------------------------------------------------
(* The functions of two queues. *)

\* No mutex refuses more tries than it has left.
LEMMA RefusedLemma ==
  ASSUME NEW ours \in Nat, NEW theirs \in Nat
  PROVE  /\ ours - RefusedBy(ours, theirs)[1] \in Nat
         /\ theirs - RefusedBy(ours, theirs)[2] \in Nat
<1>1. CASE ~Rotates
  BY <1>1 DEF RefusedBy, Failures
<1>2. CASE Rotates /\ theirs <= ours
  <2>1. (2 * theirs) \div 2 = theirs /\ (2 * theirs + 1) \div 2 = theirs
    OBVIOUS
  <2> QED
    BY <1>2, <2>1 DEF RefusedBy, Failures
<1>3. CASE Rotates /\ ~(theirs <= ours)
  <2>1. (2 * ours + 1) \div 2 = ours /\ (2 * ours + 1 + 1) \div 2 = ours + 1
    OBVIOUS
  <2> QED
    BY <1>3, <2>1 DEF RefusedBy, Failures
<1> QED
  BY <1>1, <1>2, <1>3

LEMMA AfterLemma ==
  ASSUME NEW d, Doubled(d), NEW k, d.remaining_tries - k \in Nat
  PROVE  Doubled(After(d, k))
BY DEF Doubled, After

LEMMA AlikeLemma ==
  ASSUME NEW q, Doubled(doubles[q])
  PROVE  Doubled(Alike(q)) /\ Alike(q).remaining_tries \in Nat
BY DEF Doubled, Alike, New

\* Two objects replaced by sound ones, which hold as many elements together.
LEMMA ExchangeLemma ==
  ASSUME NEW E, DoublesInv(E), NEW q \in Queues, NEW p \in Queues, q # p,
         NEW a, NEW b, Sound(a, E), Sound(b, E),
         object' = [object EXCEPT ![q] = a, ![p] = b],
         SizeOf(a) + SizeOf(b) = SizeOf(object[q]) + SizeOf(object[p]),
         Counted(tally'),
         ElementsLeft(tally') = ElementsLeft(tally),
         NEW c, NEW d, doubles' = [doubles EXCEPT ![q] = c, ![p] = d], Doubled(c), Doubled(d)
  PROVE  DoublesInv(E)'
<1>1. /\ object' = [r \in Queues |-> object'[r]]
      /\ object'[q] = a /\ object'[p] = b
      /\ \A r \in Queues \ {q, p} : object'[r] = object[r]
  BY DEF DoublesInv, ObjectsInv
<1>2. /\ doubles' = [r \in Queues |-> doubles'[r]]
      /\ doubles'[q] = c /\ doubles'[p] = d
      /\ \A r \in Queues \ {q, p} : doubles'[r] = doubles[r]
  BY DEF DoublesInv, ObjectsInv
<1>3. ObjectsInv(E)'
  BY <1>1, <1>2 DEF DoublesInv, ObjectsInv, Doubled
<1>4. PICK f, g : f = object /\ g = object'
  OBVIOUS
<1>5. /\ \A r \in Queues \ {q, p} : g[r] = f[r]
      /\ Sound(f[q], E) /\ Sound(g[q], E) /\ Sound(f[p], E) /\ Sound(g[p], E)
      /\ IsFiniteSet(HeldSlots(f))
  BY <1>1, <1>4 DEF DoublesInv, ObjectsInv
<1>6. SizeOf(g[q]) + SizeOf(g[p]) = SizeOf(f[q]) + SizeOf(f[p])
  BY <1>1, <1>4
<1>7. IsFiniteSet(HeldSlots(g))
  BY <1>5, <1>6, HeldTwoLemma
<1>8. Cardinality(HeldSlots(g)) = Cardinality(HeldSlots(f))
  BY <1>5, <1>6, HeldTwoLemma
<1> QED
  BY <1>3, <1>4, <1>7, <1>8 DEF DoublesInv

LEMMA SwapLemma ==
  ASSUME NEW E, NilIsNoQueue(E), DoublesInv(E), NEW q \in Queues, NEW p \in Queues, Swap(q, p)
  PROVE  DoublesInv(E)'
<1> DEFINE refused == RefusedBy(Remaining(q), Remaining(p))
<1>1. /\ q \in alive /\ p \in alive /\ q # p
      /\ object' = [object EXCEPT ![q] = object[p], ![p] = object[q]]
      /\ doubles' = [doubles EXCEPT ![q] = After(@, refused[1]), ![p] = After(@, refused[2])]
      /\ Costs(CostsOfSwap(Remaining(q), Remaining(p)))
  BY DEF Swap, SameType
<1>2. /\ Sound(object[q], E) /\ Sound(object[p], E)
      /\ Doubled(doubles[q]) /\ Doubled(doubles[p])
  BY <1>1, SoundQueue DEF Sound
<1>3. Remaining(q) \in Nat /\ Remaining(p) \in Nat
  BY <1>2 DEF Doubled, Remaining
<1>4. Remaining(q) - refused[1] \in Nat /\ Remaining(p) - refused[2] \in Nat
  BY <1>3, RefusedLemma
<1> HIDE DEF refused
<1>5. PICK c, d : c = After(doubles[q], refused[1]) /\ d = After(doubles[p], refused[2])
  OBVIOUS
<1>6. Doubled(c) /\ Doubled(d)
  BY <1>2, <1>4, <1>5, AfterLemma DEF Remaining
<1>7. doubles' = [doubles EXCEPT ![q] = c, ![p] = d]
  BY <1>1, <1>5 DEF DoublesInv, ObjectsInv
<1>8. /\ Counted(tally')
      /\ ElementsLeft(tally') = ElementsLeft(tally)
  BY <1>1, <1>3, AddedSwap DEF DoublesInv
<1>9. PICK a, b : a = object[p] /\ b = object[q]
  OBVIOUS
<1>10. SizeOf(a) + SizeOf(b) = SizeOf(object[q]) + SizeOf(object[p])
  BY <1>2, <1>9, SizeLemma
<1>11. Sound(a, E) /\ Sound(b, E) /\ object' = [object EXCEPT ![q] = a, ![p] = b]
  BY <1>1, <1>2, <1>9
<1>12. q # p
  BY <1>1
<1> QED
  BY <1>12, <1>6, <1>7, <1>8, <1>10, <1>11, ExchangeLemma

LEMMA MoveConstructLemma ==
  ASSUME NEW E, NilIsNoQueue(E), DoublesInv(E), NEW q \in Queues, NEW p \in Queues,
         MoveConstruct(q, p)
  PROVE  DoublesInv(E)'
<1> DEFINE own == Alike(p)
           refused == RefusedBy(own.remaining_tries, Remaining(p))
<1>1. /\ q \notin alive /\ p \in alive
      /\ object' = [object EXCEPT ![q] = object[p], ![p] = Allocated(0)]
      /\ doubles' = [doubles EXCEPT ![q] = After(own, refused[1]), ![p] = After(@, refused[2])]
      /\ Costs(CostsOfSwap(own.remaining_tries, Remaining(p)))
  BY DEF MoveConstruct
<1>2. Sound(object[p], E) /\ Doubled(doubles[p]) /\ object[q] = Nil /\ q # p
  BY <1>1, SoundQueue DEF Sound, alive
<1>3. own.remaining_tries \in Nat /\ Remaining(p) \in Nat /\ Doubled(own)
  BY <1>2, AlikeLemma DEF Doubled, Remaining
<1>4. own.remaining_tries - refused[1] \in Nat /\ Remaining(p) - refused[2] \in Nat
  BY <1>3, RefusedLemma
<1> HIDE DEF refused, own
<1>5. PICK c, d : c = After(own, refused[1]) /\ d = After(doubles[p], refused[2])
  OBVIOUS
<1>6. Doubled(c) /\ Doubled(d)
  BY <1>2, <1>3, <1>4, <1>5, AfterLemma DEF Remaining
<1>7. doubles' = [doubles EXCEPT ![q] = c, ![p] = d]
  BY <1>1, <1>2, <1>5 DEF DoublesInv, ObjectsInv
<1>8. /\ Counted(tally')
      /\ ElementsLeft(tally') = ElementsLeft(tally)
  BY <1>1, <1>3, AddedSwap DEF DoublesInv
<1>9. PICK a, b : a = object[p] /\ b = Allocated(0)
  OBVIOUS
<1>10. Shape(b, E) /\ WellFormed(b)
  BY <1>9, AllocatedLemma
<1>11. b.m_size = 0
  BY <1>9 DEF Allocated
<1>12. SizeOf(b) = 0 /\ SizeOf(object[q]) = 0
  BY <1>2, <1>11 DEF SizeOf
<1>13. SizeOf(a) + SizeOf(b) = SizeOf(object[q]) + SizeOf(object[p])
  <2>1. SizeOf(object[p]) \in Nat
    BY <1>2, SizeLemma
  <2> QED
    BY <1>9, <1>12, <2>1
<1>14. /\ Sound(a, E) /\ Sound(b, E)
       /\ object' = [object EXCEPT ![q] = a, ![p] = b]
  BY <1>1, <1>2, <1>9, <1>10 DEF Sound
<1> QED
  BY <1>2, <1>6, <1>7, <1>8, <1>13, <1>14, ExchangeLemma

\* The copy holds as many elements as the original.
LEMMA CopyFromLemma ==
  ASSUME NEW E, ElementsOf(E), NEW p,
         Shape(object[p], E), WellFormed(object[p])
  PROVE  /\ Shape(CopyFrom(p), E)
         /\ WellFormed(CopyFrom(p))
         /\ CopyFrom(p).m_size = object[p].m_size
<1>1. PICK o : o = object[p]
  OBVIOUS
<1>2. PICK c : c = CopyFrom(p)
  OBVIOUS
<1>3. PICK n, s : n = o.m_maximumSize /\ s = o.m_size
  OBVIOUS
<1>4. Shape(o, E) /\ WellFormed(o) /\ Nil \notin E /\ \A e \in E : CopyOf(e) \in E
  BY <1>1 DEF ElementsOf
<1>5. n \in Nat /\ s \in 0 .. n
  BY <1>3, <1>4 DEF Shape, WellFormed
<1>6. c = [m_maximumSize |-> n, m_first |-> 0, m_size |-> s,
           m_data |-> [i \in 0 .. n - 1 |-> IF i < s THEN CopyOf(element(o, i)) ELSE Nil]]
  BY <1>1, <1>2, <1>3 DEF CopyFrom, Allocated
<1>7. \A i \in 0 .. s - 1 : element(o, i) \in E
  BY <1>3, <1>4, ElementLemma
<1>8. \A i \in 0 .. n - 1 : c.m_data[i] = IF i < s THEN CopyOf(element(o, i)) ELSE Nil
  BY <1>6
<1>9. \A i \in 0 .. n - 1 : /\ i < s => c.m_data[i] \in E
                            /\ ~(i < s) => c.m_data[i] = Nil
  BY <1>4, <1>5, <1>7, <1>8
<1>10. /\ c.m_maximumSize = n /\ c.m_first = 0 /\ c.m_size = s
       /\ DOMAIN c.m_data = 0 .. n - 1 /\ c.m_data = [i \in 0 .. n - 1 |-> c.m_data[i]]
  BY <1>6
<1>11. c.m_data \in [0 .. n - 1 -> E \cup {Nil}]
  BY <1>9, <1>10
<1>12. Record(c)
  BY <1>6 DEF Record
<1>13. Shape(c, E)
  BY <1>5, <1>10, <1>11, <1>12 DEF Shape
<1>14. \A i \in 0 .. n - 1 : Offset(c, i) = i
  BY <1>10 DEF Offset
<1>15. \A i \in 0 .. n - 1 : c.m_data[i] # Nil <=> i < s
  BY <1>4, <1>9
<1>16. WellFormed(c)
  BY <1>5, <1>10, <1>13, <1>14, <1>15, SlotLemma
<1> QED
  BY <1>1, <1>2, <1>3, <1>10, <1>13, <1>16

LEMMA CopyConstructLemma ==
  ASSUME NEW E, ElementsOf(E), NilIsNoQueue(E), DoublesInv(E),
         NEW q \in Queues, NEW p \in Queues, CopyConstruct(q, p)
  PROVE  DoublesInv(E)'
<1>1. CASE CopyRefused(p)
  BY <1>1, IdleLemma DEF CopyRefused
<1>2. CASE ~CopyRefused(p)
  <2>1. /\ object[q] = Nil /\ p \in alive
        /\ Become(q, CopyFrom(p))
        /\ doubles' = [doubles EXCEPT ![q] = Alike(p)]
        /\ Costs([lock |-> 1, unlock |-> 1, copied |-> object[p].m_size])
    BY <1>2 DEF CopyConstruct, alive
  <2>2. /\ Shape(object[p], E) /\ WellFormed(object[p]) /\ object[p].m_size \in Nat
        /\ Doubled(doubles[p])
    BY <2>1, SoundQueue
  <2>3. PICK o : o = CopyFrom(p)
    OBVIOUS
  <2>4. Shape(o, E) /\ WellFormed(o) /\ o.m_size = object[p].m_size
    BY <2>2, <2>3, CopyFromLemma
  <2>5. Sound(o, E) /\ SizeOf(o) = object[p].m_size /\ SizeOf(object[q]) = 0
    BY <2>1, <2>4 DEF Sound, SizeOf, NilIsNoQueue
  <2>6. /\ Counted(tally')
        /\ ElementsLeft(tally') = ElementsLeft(tally) + object[p].m_size
    BY <2>1, <2>2, AddedCopy DEF DoublesInv
  <2>7. ElementsLeft(tally) \in Int
    BY DEF DoublesInv, Counted, Counters, ElementsLeft
  <2>8. ElementsLeft(tally') = ElementsLeft(tally) - SizeOf(object[q]) + SizeOf(o)
    BY <2>2, <2>5, <2>6, <2>7
  <2>9. /\ doubles' = [r \in Queues |-> doubles'[r]]
        /\ \A r \in Queues \ {q} : doubles'[r] = doubles[r]
        /\ doubles'[q] = Alike(p)
    BY <2>1 DEF DoublesInv, ObjectsInv
  <2>10. Doubled(Alike(p))
    BY <2>2, AlikeLemma
  <2> QED
    BY <2>1, <2>3, <2>5, <2>6, <2>8, <2>9, <2>10, BecomeLemma
<1> QED
  BY <1>1, <1>2

LEMMA CopyAssignLemma ==
  ASSUME NEW E, ElementsOf(E), NilIsNoQueue(E), DoublesInv(E),
         NEW q \in Queues, NEW p \in Queues, CopyAssign(q, p)
  PROVE  DoublesInv(E)'
<1> DEFINE temporary == Alike(q)
           refused == RefusedBy(Remaining(q), temporary.remaining_tries)
           swap == CostsOfSwap(Remaining(q), temporary.remaining_tries)
<1>1. CASE Keep(q) \/ CopyRefused(p)
  BY <1>1, IdleLemma DEF Keep, CopyRefused
<1>2. CASE ~(Keep(q) \/ CopyRefused(p))
  <2>1. /\ q \in alive /\ p \in alive
        /\ Become(q, CopyFrom(p))
        /\ doubles' = [doubles EXCEPT ![q] = After(@, refused[1])]
        /\ Costs([lock |-> swap.lock + 1, try_lock |-> swap.try_lock,
                  unlock |-> swap.unlock + 1,
                  copied |-> object[p].m_size, destroyed |-> object[q].m_size])
    BY <1>2 DEF CopyAssign, SameType
  <2>2. /\ Shape(object[p], E) /\ WellFormed(object[p]) /\ object[p].m_size \in Nat
    BY <2>1, SoundQueue
  <2>3. /\ Doubled(doubles[q]) /\ SizeOf(object[q]) = object[q].m_size
        /\ object[q].m_size \in Nat
    BY <2>1, SoundQueue
  <2>4. PICK o : o = CopyFrom(p)
    OBVIOUS
  <2>5. Shape(o, E) /\ WellFormed(o) /\ o.m_size = object[p].m_size
    BY <2>2, <2>4, CopyFromLemma
  <2>6. Sound(o, E) /\ SizeOf(o) = object[p].m_size
    BY <2>5 DEF Sound, SizeOf, NilIsNoQueue
  <2>7. Remaining(q) \in Nat /\ temporary.remaining_tries \in Nat
    BY <2>3, AlikeLemma DEF Remaining, Doubled
  <2>8. PICK ours, theirs : ours = Remaining(q) /\ theirs = temporary.remaining_tries
    OBVIOUS
  <2>9. /\ Counted(tally')
        /\ ElementsLeft(tally') = ElementsLeft(tally) + object[p].m_size - object[q].m_size
    <3>1. PICK n, m : n = object[p].m_size /\ m = object[q].m_size
      OBVIOUS
    <3>2. PICK sw : sw = CostsOfSwap(ours, theirs)
      OBVIOUS
    <3>3. Costs([lock |-> sw.lock + 1, try_lock |-> sw.try_lock,
                 unlock |-> sw.unlock + 1, copied |-> n, destroyed |-> m])
      BY <2>1, <2>8, <3>1, <3>2
    <3>4. n \in Nat /\ m \in Nat /\ ours \in Nat /\ theirs \in Nat /\ Counted(tally)
      BY <2>2, <2>3, <2>7, <2>8, <3>1 DEF DoublesInv
    <3>5. /\ Counted(tally')
          /\ ElementsLeft(tally') = ElementsLeft(tally) + n - m
      BY <3>2, <3>3, <3>4, AddedCopyAssign
    <3> QED
      BY <3>1, <3>5
  <2>10. ElementsLeft(tally) \in Int
    BY DEF DoublesInv, Counted, Counters, ElementsLeft
  <2>11. ElementsLeft(tally') = ElementsLeft(tally) - SizeOf(object[q]) + SizeOf(o)
    BY <2>2, <2>3, <2>6, <2>9, <2>10
  <2>12. Remaining(q) - refused[1] \in Nat
    BY <2>7, RefusedLemma
  <2> HIDE DEF refused, temporary, swap
  <2>13. /\ doubles' = [r \in Queues |-> doubles'[r]]
         /\ \A r \in Queues \ {q} : doubles'[r] = doubles[r]
         /\ doubles'[q] = After(doubles[q], refused[1])
    BY <2>1 DEF DoublesInv, ObjectsInv
  <2>14. Doubled(After(doubles[q], refused[1]))
    BY <2>3, <2>12, AfterLemma DEF Remaining
  <2> QED
    BY <2>1, <2>4, <2>6, <2>9, <2>11, <2>13, <2>14, BecomeLemma
<1> QED
  BY <1>1, <1>2

-----------------------------------------------------------------------------
(* The theorems. *)

LEMMA InitLemma ==
  ASSUME NEW E, Init
  PROVE  DoublesInv(E)
<1>1. /\ object = [q \in Queues |-> Nil] /\ doubles = [q \in Queues |-> Nil]
      /\ tally = Zero
  BY DEF Init
<1>2. HeldSlots(object) = {}
  BY <1>1 DEF HeldSlots, SlotsOf
<1>3. IsFiniteSet(HeldSlots(object)) /\ Cardinality(HeldSlots(object)) = 0
  BY <1>2, FS_EmptySet
<1>4. ObjectsInv(E)
  BY <1>1 DEF ObjectsInv, Sound
<1>5. tally = [k \in Counters |-> 0]
  BY <1>1 DEF Zero, Counters
<1>6. Counted(tally) /\ ElementsLeft(tally) = 0
  BY <1>5 DEF Counted, Counters, ElementsLeft
<1> QED
  BY <1>3, <1>4, <1>6 DEF DoublesInv

LEMMA StepLemma ==
  ASSUME NEW E, NaturalArguments, ElementsOf(E), NilIsNoQueue(E), DoublesInv(E), [Next]_vars
  PROVE  DoublesInv(E)'
<1>1. CASE UNCHANGED vars
  BY <1>1, IdleLemma DEF vars
<1>2. ASSUME NEW q \in Queues, NEW n \in Capacities, NEW k \in FalseTries,
             NEW check \in BOOLEAN, Construct(q, n, k, check)
      PROVE  DoublesInv(E)'
  BY <1>2, ConstructLemma
<1>3. ASSUME NEW q \in Queues, NEW v \in Values, NEW op, NEW by \in {"copied", "moved"},
             Push(q, v, op, by)
      PROVE  DoublesInv(E)'
  BY <1>3, PushLemma
<1>4. ASSUME NEW q \in Queues,
             Pop(q) \/ PopTo(q, "try_pop") \/ PopTo(q, "try_pop_for")
      PROVE  DoublesInv(E)'
  BY <1>4, PopLemma, PopToLemma
<1>5. ASSUME NEW q \in Queues, Measure(q) \/ Destroy(q)
      PROVE  DoublesInv(E)'
  BY <1>5, MeasureLemma, DestroyLemma
<1>6. ASSUME NEW q \in Queues, Keep(q)
      PROVE  DoublesInv(E)'
  BY <1>6, IdleLemma DEF Keep
<1>7. ASSUME NEW q \in Queues, NEW p \in Queues, Swap(q, p) \/ MoveAssign(q, p)
      PROVE  DoublesInv(E)'
  BY <1>6, <1>7, SwapLemma DEF MoveAssign
<1>8. ASSUME NEW q \in Queues, NEW p \in Queues,
             CopyAssign(q, p) \/ CopyConstruct(q, p) \/ MoveConstruct(q, p)
      PROVE  DoublesInv(E)'
  BY <1>8, CopyAssignLemma, CopyConstructLemma, MoveConstructLemma
<1> QED
  BY <1>1, <1>2, <1>3, <1>4, <1>5, <1>7, <1>8 DEF Next

\* Whatever one thread does with its queues, and whichever mutexes refuse how many
\* tries, every element that was ever constructed was destroyed once, was handed out,
\* or lives in a slot of one of the queues.
THEOREM LifetimesAccounted ==
  ASSUME NEW E, NaturalArguments, ElementsOf(E), NilIsNoQueue(E)
  PROVE  Spec => []ElementsAccounted
<1>1. Init => DoublesInv(E)
  BY InitLemma
<1>2. DoublesInv(E) /\ [Next]_vars => DoublesInv(E)'
  BY StepLemma
<1>3. DoublesInv(E) => ElementsAccounted
  <2> SUFFICES ASSUME DoublesInv(E) PROVE ElementsAccounted
    OBVIOUS
  <2>1. Living = ElementsLeft(tally) /\ Counted(tally)
    BY LivingLemma DEF DoublesInv
  <2> QED
    BY <2>1 DEF Counted, Counters, ElementsLeft, ElementsAccounted
<1> QED
  BY <1>1, <1>2, <1>3, PTL DEF Spec
=============================================================================
