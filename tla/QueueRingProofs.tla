--------------------------- MODULE QueueRingProofs ---------------------------
(***************************************************************************)
(* Lemmas about the operators of QueueRing, for any set of elements: what  *)
(* they do to the shape of an object's members, to the slots that hold an  *)
(* element and to the contents.                                            *)
(***************************************************************************)
EXTENDS QueueRing, Integers, SequenceTheorems, WellFoundedInduction, TLAPS

\* o has the members of an object and no others.
Record(o) == o \in [m_maximumSize : {o.m_maximumSize}, m_first : {o.m_first},
                    m_size : {o.m_size}, m_data : {o.m_data}]

\* Capacity, first index and storage of o belong together, and each slot holds
\* one of the elements or is raw.  The size may be too large: push_index() and
\* do_push() do not test it.
Shape(o, Elements) ==
  /\ Record(o)
  /\ o.m_maximumSize \in Nat
  /\ o.m_size \in Nat
  /\ o.m_data \in [0 .. o.m_maximumSize - 1 -> Elements \cup {Nil}]
  /\ IF o.m_maximumSize = 0 THEN o.m_first = 0 /\ o.m_size = 0
                            ELSE o.m_first \in 0 .. o.m_maximumSize - 1

\* How far behind m_first the slot i is, in ring order.
Offset(o, i) == IF i >= o.m_first THEN i - o.m_first ELSE i - o.m_first + o.m_maximumSize

-----------------------------------------------------------------------------
(* Natural numbers. *)

\* Induction, in the form that names a set and not a predicate.
LEMMA LeastElement ==
  ASSUME NEW S \in SUBSET Nat, S # {}
  PROVE  \E n \in S : \A m \in S : n <= m
<1>1. PICK n \in S : \A m \in S : ~(<<m, n>> \in OpToRel(<, Nat))
  BY NatLessThanWellFounded, WFMin
<1>2. \A m \in S : ~(m < n)
  BY <1>1 DEF OpToRel
<1> QED
  BY <1>2

\* An index wraps around at most once.
LEMMA WrapLemma ==
  ASSUME NEW n \in Nat \ {0}, NEW a \in 0 .. n - 1, NEW b \in 0 .. n
  PROVE  /\ (a + b) % n = IF a + b < n THEN a + b ELSE a + b - n
         /\ (a + b) % n \in 0 .. n - 1
BY SMT

LEMMA RemainderLemma ==
  ASSUME NEW n \in Nat \ {0}, NEW a \in Nat
  PROVE  a % n \in 0 .. n - 1
BY SMT

-----------------------------------------------------------------------------
(* The slots of the elements. *)

LEMMA ShapeNumbers ==
  ASSUME NEW E, NEW o, Shape(o, E)
  PROVE  /\ o.m_maximumSize \in Nat
         /\ o.m_size \in Nat
         /\ o.m_size \in 0 .. o.m_size
<1>1. o.m_maximumSize \in Nat /\ o.m_size \in Nat
  BY DEF Shape
<1> QED
  BY <1>1

\* The window of an object that is not overfull consists of the slots less than
\* m_size behind m_first.
LEMMA WindowLemma ==
  ASSUME NEW E, NEW o, Shape(o, E), o.m_size <= o.m_maximumSize
  PROVE  /\ Window(o) \subseteq 0 .. o.m_maximumSize - 1
         /\ \A i \in 0 .. o.m_maximumSize - 1 : i \in Window(o) <=> Offset(o, i) < o.m_size
<1>1. CASE o.m_maximumSize = 0
  <2>1. o.m_size = 0
    BY <1>1 DEF Shape
  <2> QED
    BY <1>1, <2>1 DEF Window
<1>2. CASE o.m_maximumSize # 0
  <2> DEFINE n == o.m_maximumSize
             f == o.m_first
             s == o.m_size
  <2>1. n \in Nat \ {0} /\ f \in 0 .. n - 1 /\ s \in 0 .. n
    BY <1>2 DEF Shape
  <2>2. ASSUME NEW k \in 0 .. n
        PROVE  /\ to_buffer_index(o, k) = IF f + k < n THEN f + k ELSE f + k - n
               /\ to_buffer_index(o, k) \in 0 .. n - 1
    BY <2>1, WrapLemma DEF to_buffer_index
  <2>3. \A k \in 0 .. s - 1 : k \in 0 .. n
    BY <2>1
  <2>4. ASSUME NEW i \in 0 .. n - 1, i \in Window(o)
        PROVE  Offset(o, i) < s
    <3>1. PICK k \in 0 .. s - 1 : i = to_buffer_index(o, k)
      BY <2>4 DEF Window
    <3> QED
      BY <2>1, <2>2, <2>3, <3>1 DEF Offset
  <2>5. ASSUME NEW i \in 0 .. n - 1, Offset(o, i) < s
        PROVE  i \in Window(o)
    <3>1. Offset(o, i) \in 0 .. s - 1
      BY <2>1, <2>5 DEF Offset
    <3>2. to_buffer_index(o, Offset(o, i)) = i
      BY <2>1, <2>2, <2>3, <3>1 DEF Offset
    <3> QED
      BY <3>1, <3>2 DEF Window
  <2> QED
    BY <2>2, <2>3, <2>4, <2>5 DEF Window
<1> QED
  BY <1>1, <1>2

\* What WellFormed says of each slot.
LEMMA SlotLemma ==
  ASSUME NEW E, NEW o, Shape(o, E)
  PROVE  WellFormed(o) <=>
           /\ o.m_size <= o.m_maximumSize
           /\ \A i \in 0 .. o.m_maximumSize - 1 : o.m_data[i] # Nil <=> Offset(o, i) < o.m_size
<1>1. DOMAIN o.m_data = 0 .. o.m_maximumSize - 1
  BY DEF Shape
<1> QED
  BY <1>1, WindowLemma DEF WellFormed

\* The destructor of a well-formed object meets elements only.
LEMMA DestructorLemma ==
  ASSUME NEW E, NEW o, Shape(o, E), WellFormed(o)
  PROVE  ~MeetsRawStorage(o)
<1>1. o.m_size <= o.m_maximumSize /\ DOMAIN o.m_data = 0 .. o.m_maximumSize - 1
  BY DEF Shape, WellFormed
<1> QED
  BY <1>1, WindowLemma DEF WellFormed, MeetsRawStorage

\* Every index of a well-formed object leads to an element.
LEMMA ElementLemma ==
  ASSUME NEW E, Nil \notin E, NEW o, Shape(o, E), NEW k \in 0 .. o.m_size - 1
  PROVE  /\ element(o, k) \in E \cup {Nil}
         /\ WellFormed(o) => element(o, k) \in E
<1>1. o.m_size # 0 /\ o.m_maximumSize \in Nat \ {0} /\ o.m_first \in Nat /\ k \in Nat
  BY DEF Shape
<1>2. to_buffer_index(o, k) \in 0 .. o.m_maximumSize - 1
  BY <1>1, RemainderLemma, o.m_first + k \in Nat DEF to_buffer_index
<1>3. element(o, k) \in E \cup {Nil}
  BY <1>2 DEF element, Shape
<1>4. ASSUME WellFormed(o)
      PROVE  element(o, k) # Nil
  BY <1>2, <1>4 DEF WellFormed, Window, element, Shape
<1> QED
  BY <1>3, <1>4

-----------------------------------------------------------------------------
(* What the operations on the members preserve. *)

LEMMA AllocatedLemma ==
  ASSUME NEW E, NEW n \in Nat
  PROVE  /\ Shape(Allocated(n), E)
         /\ WellFormed(Allocated(n))
         /\ Contents(Allocated(n)) = <<>>
<1>1. Shape(Allocated(n), E)
  BY DEF Shape, Allocated, Record
<1>2. WellFormed(Allocated(n))
  BY <1>1, SlotLemma DEF Allocated, Offset
<1>3. Contents(Allocated(n)) = <<>>
  BY DEF Contents, Allocated
<1> QED
  BY <1>1, <1>2, <1>3

LEMMA do_pushLemma ==
  ASSUME NEW E, Nil \notin E, NEW o, Shape(o, E), o.m_maximumSize # 0, NEW v \in E \cup {Nil}
  PROVE  LET p == do_push(o, v) IN
         /\ Shape(p, E)
         /\ p.m_maximumSize = o.m_maximumSize
         /\ p.m_first = o.m_first
         /\ p.m_size = o.m_size + 1
         /\ p.m_data = [o.m_data EXCEPT ![to_buffer_index(o, o.m_size)] = v]
         /\ WellFormed(o) /\ ~do_full(o) /\ v # Nil => WellFormed(p)
<1> DEFINE p == do_push(o, v)
           n == o.m_maximumSize
           j == to_buffer_index(o, o.m_size)
<1>1. n \in Nat \ {0} /\ o.m_first \in 0 .. n - 1 /\ o.m_size \in Nat
  BY DEF Shape
<1>2. j \in 0 .. n - 1
  BY <1>1, RemainderLemma, o.m_first + o.m_size \in Nat DEF to_buffer_index
<1>3. /\ p.m_maximumSize = n /\ p.m_first = o.m_first
      /\ p.m_size = o.m_size + 1 /\ p.m_data = [o.m_data EXCEPT ![j] = v]
      /\ Record(p)
  BY DEF Shape, Record, do_push
<1>4. o.m_data \in [0 .. n - 1 -> E \cup {Nil}]
  BY DEF Shape
<1> HIDE DEF j
<1>5. p.m_data \in [0 .. n - 1 -> E \cup {Nil}]
  BY <1>2, <1>3, <1>4
<1>6. Shape(p, E)
  BY <1>1, <1>3, <1>5 DEF Shape
<1>7. \A i \in 0 .. n - 1 : p.m_data[i] = IF i = j THEN v ELSE o.m_data[i]
  BY <1>3, <1>4
<1>8. \A i \in 0 .. n - 1 : Offset(p, i) = Offset(o, i)
  BY <1>3 DEF Offset
<1> HIDE DEF p
<1>9. ASSUME WellFormed(o), ~do_full(o), v # Nil
      PROVE  WellFormed(p)
  <2>1. o.m_size \in 0 .. n - 1
    BY <1>1, <1>9 DEF WellFormed, do_full
  <2>2. j = IF o.m_first + o.m_size < n THEN o.m_first + o.m_size ELSE o.m_first + o.m_size - n
    BY <1>1, <2>1, WrapLemma, o.m_size \in 0 .. n DEF to_buffer_index, j
  <2>3. \A i \in 0 .. n - 1 : /\ Offset(o, i) = o.m_size <=> i = j
                              /\ Offset(o, i) \in Int
    BY <1>1, <2>1, <2>2 DEF Offset
  <2>4. \A i \in 0 .. n - 1 : o.m_data[i] # Nil <=> Offset(o, i) < o.m_size
    BY <1>9, SlotLemma
  <2>5. \A i \in 0 .. n - 1 : p.m_data[i] # Nil <=> Offset(p, i) < p.m_size
    BY <1>1, <1>3, <1>7, <1>8, <1>9, <2>1, <2>3, <2>4
  <2>6. p.m_size <= p.m_maximumSize
    BY <1>1, <1>3, <2>1
  <2> QED
    BY <1>3, <1>6, <2>5, <2>6, SlotLemma
<1> QED
  BY <1>3, <1>6, <1>9 DEF p, j

LEMMA do_popLemma ==
  ASSUME NEW E, Nil \notin E, NEW o, Shape(o, E), ~do_empty(o)
  PROVE  LET p == do_pop(o) IN
         /\ Shape(p, E)
         /\ p.m_maximumSize = o.m_maximumSize
         /\ p.m_first = (o.m_first + 1) % o.m_maximumSize
         /\ p.m_size = o.m_size - 1
         /\ p.m_data = [o.m_data EXCEPT ![o.m_first] = Nil]
         /\ WellFormed(o) => WellFormed(p)
<1> DEFINE p == do_pop(o)
           n == o.m_maximumSize
<1>1. n \in Nat \ {0} /\ o.m_first \in 0 .. n - 1 /\ o.m_size \in Nat \ {0}
  BY DEF Shape, do_empty
<1>2. /\ (o.m_first + 1) % n = IF o.m_first + 1 < n THEN o.m_first + 1 ELSE o.m_first + 1 - n
      /\ (o.m_first + 1) % n \in 0 .. n - 1
  BY <1>1, WrapLemma, 1 \in 0 .. n
<1>3. /\ p.m_maximumSize = n /\ p.m_first = (o.m_first + 1) % n
      /\ p.m_size = o.m_size - 1 /\ p.m_data = [o.m_data EXCEPT ![o.m_first] = Nil]
      /\ Record(p)
  BY DEF Shape, Record, do_pop
<1>4. o.m_data \in [0 .. n - 1 -> E \cup {Nil}]
  BY DEF Shape
<1>5. p.m_data \in [0 .. n - 1 -> E \cup {Nil}]
  BY <1>1, <1>3, <1>4
<1>6. Shape(p, E)
  BY <1>1, <1>2, <1>3, <1>5 DEF Shape
<1>7. \A i \in 0 .. n - 1 : p.m_data[i] = IF i = o.m_first THEN Nil ELSE o.m_data[i]
  BY <1>3, <1>4
<1> HIDE DEF p
<1>8. ASSUME WellFormed(o)
      PROVE  WellFormed(p)
  <2>1. o.m_size \in 1 .. n
    BY <1>1, <1>8 DEF WellFormed
  <2>2. \A i \in 0 .. n - 1 :
          /\ Offset(p, i) = IF i = o.m_first THEN n - 1 ELSE Offset(o, i) - 1
          /\ Offset(o, i) \in Int
    BY <1>1, <1>2, <1>3 DEF Offset
  <2>3. \A i \in 0 .. n - 1 : o.m_data[i] # Nil <=> Offset(o, i) < o.m_size
    BY <1>8, SlotLemma
  <2>4. \A i \in 0 .. n - 1 : p.m_data[i] # Nil <=> Offset(p, i) < p.m_size
    BY <1>1, <1>3, <1>7, <2>1, <2>2, <2>3
  <2>5. p.m_size <= p.m_maximumSize
    BY <1>1, <1>3, <2>1
  <2> QED
    BY <1>3, <1>6, <2>4, <2>5, SlotLemma
<1> QED
  BY <1>3, <1>6, <1>8 DEF p

-----------------------------------------------------------------------------
(* The contents. *)

LEMMA ContentsLemma ==
  ASSUME NEW E, Nil \notin E, NEW o, Shape(o, E)
  PROVE  /\ Contents(o) \in Seq(E \cup {Nil})
         /\ Len(Contents(o)) = o.m_size
         /\ \A i \in 1 .. o.m_size : Contents(o)[i] = element(o, i - 1)
<1>1. o.m_size \in Nat
  BY DEF Shape
<1>2. ASSUME NEW i \in 1 .. o.m_size
      PROVE  element(o, i - 1) \in E \cup {Nil}
  BY <1>1, ElementLemma, i - 1 \in 0 .. o.m_size - 1
<1>3. Contents(o) \in [1 .. o.m_size -> E \cup {Nil}]
  BY <1>2 DEF Contents
<1>4. \A i \in 1 .. o.m_size : Contents(o)[i] = element(o, i - 1)
  BY DEF Contents
<1> HIDE DEF Contents
<1>5. Contents(o) \in Seq(E \cup {Nil}) /\ Len(Contents(o)) = o.m_size
  BY <1>1, <1>3
<1> QED
  BY <1>4, <1>5

LEMMA EmptyLemma ==
  ASSUME NEW E, Nil \notin E, NEW o, Shape(o, E)
  PROVE  Contents(o) = <<>> <=> o.m_size = 0
BY ContentsLemma, EmptySeq

\* The first element is the oldest one.
LEMMA HeadLemma ==
  ASSUME NEW E, Nil \notin E, NEW o, Shape(o, E), ~do_empty(o)
  PROVE  Contents(o) # <<>> /\ Head(Contents(o)) = element(o, 0)
<1>1. o.m_size \in Nat \ {0}
  BY DEF Shape, do_empty
<1>2. Contents(o)[1] = element(o, 0)
  <2>1. 1 \in 1 .. o.m_size /\ 1 - 1 = 0
    BY <1>1
  <2> QED
    BY <2>1, ContentsLemma
<1>3. Contents(o) # <<>>
  BY <1>1, EmptyLemma
<1>4. Head(Contents(o)) = Contents(o)[1]
  <2>1. Contents(o) \in Seq(E \cup {Nil})
    BY ContentsLemma
  <2> QED
    BY <1>3, <2>1, HeadTailProperties
<1> QED
  BY <1>2, <1>3, <1>4

\* do_push appends to the contents and do_pop removes their head.
LEMMA AppendLemma ==
  ASSUME NEW E, Nil \notin E, NEW o, Shape(o, E), o.m_size < o.m_maximumSize,
         NEW v \in E \cup {Nil}
  PROVE  Contents(do_push(o, v)) = Append(Contents(o), v)
<1> DEFINE p == do_push(o, v)
           n == o.m_maximumSize
           f == o.m_first
           j == to_buffer_index(o, o.m_size)
<1>1. n \in Nat \ {0} /\ f \in 0 .. n - 1 /\ o.m_size \in 0 .. n - 1
  BY DEF Shape
<1>2. /\ Shape(p, E) /\ p.m_maximumSize = n /\ p.m_first = f /\ p.m_size = o.m_size + 1
      /\ p.m_data = [o.m_data EXCEPT ![j] = v]
  BY <1>1, do_pushLemma
<1>3. o.m_data \in [0 .. n - 1 -> E \cup {Nil}]
  BY DEF Shape
<1>4. \A i \in 0 .. n - 1 : p.m_data[i] = IF i = j THEN v ELSE o.m_data[i]
  BY <1>2, <1>3
<1> HIDE DEF p
<1>5. /\ Contents(p) \in Seq(E \cup {Nil}) /\ Len(Contents(p)) = o.m_size + 1
      /\ \A i \in 1 .. o.m_size + 1 : Contents(p)[i] = element(p, i - 1)
  BY <1>2, ContentsLemma
<1>6. /\ Contents(o) \in Seq(E \cup {Nil}) /\ Len(Contents(o)) = o.m_size
      /\ \A i \in 1 .. o.m_size : Contents(o)[i] = element(o, i - 1)
  BY ContentsLemma
<1>7. ASSUME NEW k \in 0 .. o.m_size
      PROVE  /\ to_buffer_index(o, k) = IF f + k < n THEN f + k ELSE f + k - n
             /\ to_buffer_index(o, k) \in 0 .. n - 1
             /\ to_buffer_index(p, k) = to_buffer_index(o, k)
  <2>1. k \in 0 .. n
    BY <1>1
  <2>2. /\ to_buffer_index(o, k) = IF f + k < n THEN f + k ELSE f + k - n
        /\ to_buffer_index(o, k) \in 0 .. n - 1
    BY <1>1, <2>1, WrapLemma DEF to_buffer_index
  <2>3. to_buffer_index(p, k) = to_buffer_index(o, k)
    BY <1>2 DEF to_buffer_index
  <2> QED
    BY <2>2, <2>3
<1>8. ASSUME NEW i \in 1 .. o.m_size + 1
      PROVE  Contents(p)[i] = Append(Contents(o), v)[i]
  <2>1. i - 1 \in 0 .. o.m_size
    BY <1>1
  <2>2. Contents(p)[i] = IF to_buffer_index(o, i - 1) = j
                           THEN v ELSE o.m_data[to_buffer_index(o, i - 1)]
    BY <1>4, <1>5, <1>7, <2>1 DEF element
  <2>3. CASE i = o.m_size + 1
    BY <1>1, <1>6, <2>2, <2>3, AppendProperties
  <2>4. CASE i # o.m_size + 1
    <3>1. i \in 1 .. o.m_size
      BY <1>1, <2>4
    <3>2. to_buffer_index(o, i - 1) # j
      BY <1>1, <1>7, <2>1, <3>1
    <3>3. Append(Contents(o), v)[i] = Contents(o)[i]
      BY <1>6, <3>1, AppendProperties
    <3> QED
      BY <1>6, <2>2, <3>1, <3>2, <3>3 DEF element
  <2> QED
    BY <2>3, <2>4
<1>9. Append(Contents(o), v) \in Seq(E \cup {Nil}) /\ Len(Append(Contents(o), v)) = o.m_size + 1
  BY <1>6
<1> QED
  BY <1>5, <1>8, <1>9, SeqEqual DEF p

LEMMA TailLemma ==
  ASSUME NEW E, Nil \notin E, NEW o, Shape(o, E), WellFormed(o), ~do_empty(o)
  PROVE  Contents(do_pop(o)) = Tail(Contents(o))
<1> DEFINE p == do_pop(o)
           n == o.m_maximumSize
           f == o.m_first
<1>1. n \in Nat \ {0} /\ f \in 0 .. n - 1 /\ o.m_size \in 1 .. n
  BY DEF Shape, do_empty, WellFormed
<1>2. /\ Shape(p, E) /\ p.m_maximumSize = n /\ p.m_first = (f + 1) % n
      /\ p.m_size = o.m_size - 1 /\ p.m_data = [o.m_data EXCEPT ![f] = Nil]
  BY do_popLemma
<1>3. o.m_data \in [0 .. n - 1 -> E \cup {Nil}]
  BY DEF Shape
<1>4. \A i \in 0 .. n - 1 : p.m_data[i] = IF i = f THEN Nil ELSE o.m_data[i]
  BY <1>2, <1>3
<1> HIDE DEF p
<1>5. /\ Contents(p) \in Seq(E \cup {Nil}) /\ Len(Contents(p)) = o.m_size - 1
      /\ \A i \in 1 .. o.m_size - 1 : Contents(p)[i] = element(p, i - 1)
  BY <1>2, ContentsLemma
<1>a. Contents(o) # <<>>
  BY HeadLemma
<1>6. /\ Contents(o) \in Seq(E \cup {Nil}) /\ Len(Contents(o)) = o.m_size
      /\ Contents(o) # <<>>
      /\ \A i \in 1 .. o.m_size : Contents(o)[i] = element(o, i - 1)
  BY <1>a, ContentsLemma
<1>7. /\ Tail(Contents(o)) \in Seq(E \cup {Nil}) /\ Len(Tail(Contents(o))) = o.m_size - 1
      /\ \A i \in 1 .. o.m_size - 1 : Tail(Contents(o))[i] = Contents(o)[i + 1]
  BY <1>6, HeadTailProperties
<1>b. 1 \in 0 .. n
  BY <1>1
<1>c. /\ (f + 1) % n = IF f + 1 < n THEN f + 1 ELSE f + 1 - n
      /\ (f + 1) % n \in 0 .. n - 1
  BY <1>1, <1>b, WrapLemma
<1>8. /\ p.m_first = IF f + 1 < n THEN f + 1 ELSE f + 1 - n
      /\ p.m_first \in 0 .. n - 1
  BY <1>2, <1>c
<1>9. ASSUME NEW i \in 1 .. o.m_size - 1
      PROVE  Contents(p)[i] = Tail(Contents(o))[i]
  <2>1. i \in 0 .. n /\ i - 1 \in 0 .. n /\ i + 1 \in 1 .. o.m_size /\ (i + 1) - 1 = i
    BY <1>1
  <2>2. /\ to_buffer_index(o, i) = IF f + i < n THEN f + i ELSE f + i - n
        /\ to_buffer_index(o, i) \in 0 .. n - 1
    BY <1>1, <2>1, WrapLemma DEF to_buffer_index
  <2> DEFINE g == p.m_first
  <2>a. g \in 0 .. n - 1 /\ n \in Nat \ {0} /\ i - 1 \in 0 .. n
    BY <1>1, <1>8, <2>1
  <2>b. (g + (i - 1)) % n = IF g + (i - 1) < n THEN g + (i - 1) ELSE g + (i - 1) - n
    BY <2>a, WrapLemma
  <2>3. to_buffer_index(p, i - 1) = IF g + (i - 1) < n THEN g + (i - 1) ELSE g + (i - 1) - n
    BY <1>2, <2>b DEF to_buffer_index
  <2>c. g = IF f + 1 < n THEN f + 1 ELSE f + 1 - n
    BY <1>8
  <2>d. i \in Int /\ 1 <= i /\ i < n
    BY <1>1
  <2>4. to_buffer_index(p, i - 1) = to_buffer_index(o, i) /\ to_buffer_index(o, i) # f
    <3> HIDE DEF g
    <3>1. CASE f + 1 < n
      BY <1>1, <2>2, <2>3, <2>c, <2>d, <3>1
    <3>2. CASE ~(f + 1 < n)
      BY <1>1, <2>2, <2>3, <2>c, <2>d, <3>2
    <3> QED
      BY <3>1, <3>2
  <2>5. element(p, i - 1) = element(o, i)
    BY <1>4, <2>2, <2>4 DEF element
  <2>6. Contents(o)[i + 1] = element(o, i)
    BY <1>6, <2>1
  <2> QED
    BY <1>5, <1>7, <2>5, <2>6
<1> QED
  BY <1>5, <1>7, <1>9, SeqEqual DEF p

-----------------------------------------------------------------------------
(* The loop of the copy constructor: made[k] is the object o after the first *)
(* k elements of the original were pushed.                                   *)

Filling(original, o, n, made) ==
  made = [k \in 0 .. n |-> IF k = 0 THEN o
                           ELSE do_push(made[k - 1], element(original, k - 1))]

\* There is such a function for each number of elements.
LEMMA FillingExists ==
  ASSUME NEW original, NEW o
  PROVE  \A n \in Nat : \E made : Filling(original, o, n, made)
<1> DEFINE Missing == {n \in Nat : ~\E made : Filling(original, o, n, made)}
<1> SUFFICES ASSUME Missing # {}
             PROVE  FALSE
  OBVIOUS
<1>1. PICK n \in Missing : \A m \in Missing : n <= m
  BY LeastElement
<1>2. n # 0
  <2>1. Filling(original, o, 0, [k \in 0 .. 0 |-> o])
    BY DEF Filling
  <2> QED
    BY <1>1, <2>1
<1>3. n - 1 \in Nat /\ n - 1 \notin Missing
  BY <1>1, <1>2
<1>4. PICK made : Filling(original, o, n - 1, made)
  BY <1>3
<1> DEFINE more == [k \in 0 .. n |-> IF k = n THEN do_push(made[n - 1], element(original, n - 1))
                                              ELSE made[k]]
<1>5. \A k \in 0 .. n : more[k] = IF k = 0 THEN o
                                  ELSE do_push(more[k - 1], element(original, k - 1))
  BY <1>1, <1>2, <1>3, <1>4 DEF Filling
<1>6. Filling(original, o, n, more)
  BY <1>5 DEF Filling
<1> QED
  BY <1>1, <1>6

\* The loop that fills an empty object takes the size to what it copies, whatever
\* the capacity; if there is room, the object is well-formed and its contents are
\* those of the original.
LEMMA FillingLemma ==
  ASSUME NEW E, Nil \notin E, NEW original, Shape(original, E),
         NEW N \in Nat \ {0}, NEW n \in 0 .. original.m_size,
         NEW made, Filling(original, Allocated(N), n, made)
  PROVE  /\ Shape(made[n], E)
         /\ made[n].m_maximumSize = N
         /\ made[n].m_size = n
         /\ WellFormed(original) /\ n <= N =>
              /\ WellFormed(made[n])
              /\ Contents(made[n]) = [i \in 1 .. n |-> Contents(original)[i]]
<1> DEFINE Fine(k) ==
      /\ Shape(made[k], E)
      /\ made[k].m_maximumSize = N
      /\ made[k].m_size = k
      /\ WellFormed(original) /\ n <= N =>
           /\ WellFormed(made[k])
           /\ Contents(made[k]) = [i \in 1 .. k |-> Contents(original)[i]]
<1>0. original.m_size \in Nat /\ n \in Nat
  BY DEF Shape
<1>1. Fine(0)
  <2>1. made[0] = Allocated(N)
    BY <1>0 DEF Filling
  <2>2. Allocated(N).m_maximumSize = N /\ Allocated(N).m_size = 0
    BY DEF Allocated
  <2>3. [i \in 1 .. 0 |-> Contents(original)[i]] = <<>>
    OBVIOUS
  <2> QED
    BY <2>1, <2>2, <2>3, AllocatedLemma
<1>2. ASSUME NEW k \in 0 .. n - 1, Fine(k)
      PROVE  Fine(k + 1)
  <2>1. k + 1 \in 1 .. n /\ (k + 1) - 1 = k /\ k \in 0 .. original.m_size - 1
    BY <1>0
  <2>2. made[k + 1] = do_push(made[k], element(original, k))
    BY <1>0, <2>1 DEF Filling
  <2>3. /\ element(original, k) \in E \cup {Nil}
        /\ WellFormed(original) => element(original, k) # Nil
    BY <2>1, ElementLemma
  <2>4. /\ Shape(made[k], E) /\ made[k].m_maximumSize = N /\ made[k].m_size = k
    BY <1>2
  <2> DEFINE o == made[k]
             v == element(original, k)
  <2>a. Shape(o, E) /\ o.m_maximumSize # 0 /\ v \in E \cup {Nil}
    BY <2>3, <2>4
  <2> HIDE DEF o, v
  <2>b. /\ Shape(do_push(o, v), E)
        /\ do_push(o, v).m_maximumSize = o.m_maximumSize
        /\ do_push(o, v).m_size = o.m_size + 1
        /\ WellFormed(o) /\ ~do_full(o) /\ v # Nil => WellFormed(do_push(o, v))
    BY <2>a, do_pushLemma
  <2>5. /\ Shape(made[k + 1], E)
        /\ made[k + 1].m_maximumSize = N
        /\ made[k + 1].m_size = k + 1
        /\ WellFormed(made[k]) /\ ~do_full(made[k]) /\ element(original, k) # Nil
             => WellFormed(made[k + 1])
    BY <2>2, <2>4, <2>b DEF o, v
  <2>6. ASSUME WellFormed(original), n <= N
        PROVE  /\ WellFormed(made[k + 1])
               /\ Contents(made[k + 1]) = [i \in 1 .. k + 1 |-> Contents(original)[i]]
    <3>1. k < N /\ ~do_full(made[k])
      BY <1>0, <2>4, <2>6 DEF do_full
    <3>2. WellFormed(made[k + 1])
      BY <1>2, <2>3, <2>5, <2>6, <3>1
    <3>3. Contents(made[k + 1]) = Append(Contents(made[k]), element(original, k))
      BY <2>2, <2>3, <2>4, <3>1, AppendLemma
    <3>4. Contents(made[k]) = [i \in 1 .. k |-> Contents(original)[i]]
      BY <1>2, <2>6
    <3>5. Contents(original)[k + 1] = element(original, k)
      <4>1. k + 1 \in 1 .. original.m_size
        BY <1>0, <2>1
      <4> QED
        BY <2>1, <4>1, ContentsLemma
    <3>6. Contents(original) \in Seq(E \cup {Nil}) /\ Len(Contents(original)) = original.m_size
      BY ContentsLemma
    <3>7. /\ Contents(made[k]) \in Seq(E \cup {Nil}) /\ Len(Contents(made[k])) = k
      BY <2>4, ContentsLemma
    <3>8. \A i \in 1 .. k : Contents(made[k])[i] = Contents(original)[i]
      BY <3>4
    <3> HIDE DEF Fine
    <3>9. Append(Contents(made[k]), element(original, k)) =
            [i \in 1 .. k + 1 |-> Contents(original)[i]]
      <4>1. k \in Nat
        BY <1>0
      <4> QED
        BY <2>3, <3>5, <3>7, <3>8, <4>1
    <3> QED
      BY <3>2, <3>3, <3>9
  <2> QED
    BY <2>5, <2>6
<1> HIDE DEF Fine
<1>3. \A k \in 0 .. n : Fine(k)
  <2> DEFINE Wrong == {k \in 0 .. n : ~Fine(k)}
  <2> SUFFICES ASSUME Wrong # {}
               PROVE  FALSE
    OBVIOUS
  <2>1. PICK k \in Wrong : \A m \in Wrong : k <= m
    BY LeastElement, Wrong \subseteq Nat
  <2>2. k # 0
    BY <1>1, <2>1
  <2>3. k - 1 \in 0 .. n - 1 /\ k - 1 \notin Wrong /\ (k - 1) + 1 = k
    BY <1>0, <2>1, <2>2
  <2>4. Fine(k - 1)
    BY <1>0, <2>3
  <2> QED
    BY <1>2, <2>1, <2>3, <2>4
<1> QED
  BY <1>0, <1>3, n \in 0 .. n DEF Fine
=============================================================================
