------------------------- MODULE BoundedBufferProofs -------------------------
(***************************************************************************)
(* Theorems about BoundedBuffer and its iterators, for any objects,        *)
(* elements, capacities, iterators and offsets.                            *)
(***************************************************************************)
EXTENDS BufferIterator, Integers, Sequences, SequenceTheorems, TLAPS

\* What the theorems assume of the element's copy constructor: it makes elements
\* of elements.  If constructors throw, it may meet a slot that is counted but
\* raw, and makes of it an element or nothing.
CopiesAreElements == /\ \A v \in Values : CopyOf(v) \in Values
                     /\ CopyOf(Nil) \in Values \cup {Nil}

-----------------------------------------------------------------------------
(* The inductive invariant. *)

\* o has the members of an object and no others.
Record(o) == o \in [m_maximumSize : {o.m_maximumSize}, m_first : {o.m_first},
                    m_size : {o.m_size}, m_data : {o.m_data}]

\* The members of one object are well-formed.
Shape(o) ==
  /\ Record(o)
  /\ o.m_maximumSize \in Sizes
  /\ o.m_size \in 0 .. o.m_maximumSize
  /\ o.m_data \in [0 .. o.m_maximumSize - 1 -> Values \cup {Nil}]
  /\ o.m_first \in 0 .. o.m_maximumSize - 1 \/ o = Allocated(0)

\* How far behind m_first the slot i is, in ring order.
Offset(o, i) == IF i >= o.m_first THEN i - o.m_first ELSE i - o.m_first + o.m_maximumSize

\* No element lies outside the window; no slot of the window is raw.
Tidy(o)   == \A i \in 0 .. o.m_maximumSize - 1 : o.m_data[i] # Nil => Offset(o, i) < o.m_size
Filled(o) == \A i \in 0 .. o.m_maximumSize - 1 : Offset(o, i) < o.m_size => o.m_data[i] # Nil

\* Every object is well-formed and tidy, whichever constructors throw; if none
\* does, every window is filled, which keeps destructors away from raw storage.
IInv == /\ object \in [Buffers -> Members \cup {Nil}]
        /\ leaked \in BOOLEAN /\ misused \in BOOLEAN
        /\ \A b \in alive : Shape(object[b]) /\ Tidy(object[b])
        /\ ~MayThrow => ~misused /\ \A b \in alive : Filled(object[b])

-----------------------------------------------------------------------------
(* Arithmetic of the ring. *)

\* An index wraps around at most once.
LEMMA WrapLemma ==
  ASSUME NEW n \in Nat \ {0}, NEW a \in 0 .. n - 1, NEW b \in 0 .. n
  PROVE  /\ (a + b) % n = IF a + b < n THEN a + b ELSE a + b - n
         /\ (a + b) % n \in 0 .. n - 1
BY SMT

LEMMA SizesLemma == Sizes \subseteq Nat
BY CapacitiesAssumption DEF Sizes

\* A well-formed object with a counted element, or with space, has storage.
LEMMA StorageLemma ==
  ASSUME NEW o, Shape(o), o.m_maximumSize # 0
  PROVE  /\ o.m_maximumSize \in Nat \ {0}
         /\ o.m_first \in 0 .. o.m_maximumSize - 1
         /\ o.m_size \in 0 .. o.m_maximumSize
<1>1. o # Allocated(0)
  BY DEF Allocated
<1> QED
  BY <1>1, SizesLemma DEF Shape

\* The window consists of the slots less than m_size behind m_first.
LEMMA WindowLemma ==
  ASSUME NEW o, Shape(o)
  PROVE  /\ Window(o) \subseteq 0 .. o.m_maximumSize - 1
         /\ \A i \in 0 .. o.m_maximumSize - 1 : i \in Window(o) <=> Offset(o, i) < o.m_size
<1>1. CASE o.m_maximumSize = 0
  <2>1. o.m_size = 0
    BY <1>1 DEF Shape
  <2> QED
    BY <1>1, <2>1 DEF Window
<1>2. CASE o.m_maximumSize # 0
  <2> DEFINE n == o.m_maximumSize
             f == o.m_first
             s == o.m_size
  <2>1. n \in Nat \ {0} /\ f \in 0 .. n - 1 /\ s \in 0 .. n
    BY <1>2, StorageLemma
  <2>2. ASSUME NEW k \in 0 .. n
        PROVE  /\ to_buffer_index(o, k) = IF f + k < n THEN f + k ELSE f + k - n
               /\ to_buffer_index(o, k) \in 0 .. n - 1
    BY <2>1, WrapLemma DEF to_buffer_index
  <2>3. \A k \in 0 .. s - 1 : k \in 0 .. n
    BY <2>1
  <2>4. ASSUME NEW i \in 0 .. n - 1, i \in Window(o)
        PROVE  Offset(o, i) < s
    <3>1. PICK k \in 0 .. s - 1 : i = to_buffer_index(o, k)
      BY <2>4 DEF Window
    <3> QED
      BY <2>1, <2>2, <2>3, <3>1 DEF Offset
  <2>5. ASSUME NEW i \in 0 .. n - 1, Offset(o, i) < s
        PROVE  i \in Window(o)
    <3>1. Offset(o, i) \in 0 .. s - 1
      BY <2>1, <2>5 DEF Offset
    <3>2. to_buffer_index(o, Offset(o, i)) = i
      BY <2>1, <2>2, <2>3, <3>1 DEF Offset
    <3> QED
      BY <3>1, <3>2 DEF Window
  <2> QED
    BY <2>2, <2>3, <2>4, <2>5 DEF Window
<1> QED
  BY <1>1, <1>2

-----------------------------------------------------------------------------
(* What the operations on the members of one object preserve. *)

LEMMA AllocatedLemma ==
  ASSUME NEW n \in Sizes
  PROVE  Shape(Allocated(n)) /\ Tidy(Allocated(n)) /\ Filled(Allocated(n))
<1>1. n \in Nat
  BY SizesLemma
<1>2. Shape(Allocated(n))
  BY <1>1 DEF Shape, Allocated, Record
<1>3. Tidy(Allocated(n)) /\ Filled(Allocated(n))
  BY <1>1 DEF Tidy, Filled, Allocated, Offset
<1> QED
  BY <1>2, <1>3

\* push_index() alone.
LEMMA CountLemma ==
  ASSUME NEW o, Shape(o), Tidy(o), ~full(o)
  PROVE  LET p == [o EXCEPT !.m_size = @ + 1] IN Shape(p) /\ Tidy(p)
<1> DEFINE p == [o EXCEPT !.m_size = @ + 1]
<1>1. o.m_maximumSize # 0
  BY DEF full, Shape
<1>2. /\ o.m_maximumSize \in Nat \ {0} /\ o.m_first \in 0 .. o.m_maximumSize - 1
      /\ o.m_size \in 0 .. o.m_maximumSize - 1
  BY <1>1, StorageLemma DEF full
<1>3. /\ p.m_maximumSize = o.m_maximumSize /\ p.m_first = o.m_first
      /\ p.m_size = o.m_size + 1 /\ p.m_data = o.m_data
      /\ Record(p)
  BY DEF Shape, Record
<1>4. Shape(p)
  BY <1>2, <1>3 DEF Shape
<1>5. Tidy(p)
  BY <1>2, <1>3 DEF Tidy, Offset
<1> QED
  BY <1>4, <1>5

LEMMA do_pushLemma ==
  ASSUME NEW o, Shape(o), Tidy(o), ~full(o), NEW v \in Values
  PROVE  /\ Shape(do_push(o, v)) /\ Tidy(do_push(o, v))
         /\ Filled(o) => Filled(do_push(o, v))
<1> DEFINE p == do_push(o, v)
           n == o.m_maximumSize
           j == to_buffer_index(o, o.m_size)
<1>1. n # 0
  BY DEF full, Shape
<1>2. n \in Nat \ {0} /\ o.m_first \in 0 .. n - 1 /\ o.m_size \in 0 .. n - 1
  BY <1>1, StorageLemma DEF full
<1>3. /\ j = IF o.m_first + o.m_size < n THEN o.m_first + o.m_size ELSE o.m_first + o.m_size - n
      /\ j \in 0 .. n - 1
  BY <1>2, WrapLemma, o.m_size \in 0 .. n DEF to_buffer_index
<1>4. /\ p.m_maximumSize = n /\ p.m_first = o.m_first
      /\ p.m_size = o.m_size + 1 /\ p.m_data = [o.m_data EXCEPT ![j] = v]
  BY DEF Shape, Record, do_push
<1>a. Record(p)
  BY DEF Shape, Record, do_push
<1>d. o.m_data \in [0 .. n - 1 -> Values \cup {Nil}]
  BY DEF Shape
<1>5. p.m_data \in [0 .. n - 1 -> Values \cup {Nil}]
  BY <1>3, <1>4 DEF Shape
<1>6. Shape(p)
  BY <1>2, <1>4, <1>5, <1>a DEF Shape
<1>b. \A i \in 0 .. n - 1 : p.m_data[i] = IF i = j THEN v ELSE o.m_data[i]
  BY <1>4, <1>d
<1>c. \A i \in 0 .. n - 1 : Offset(p, i) = Offset(o, i)
  BY <1>4 DEF Offset
<1> HIDE DEF p, j
<1>7. \A i \in 0 .. n - 1 : /\ Offset(o, i) = o.m_size <=> i = j
                            /\ Offset(o, i) \in Int
  BY <1>2, <1>3 DEF Offset
<1>8. Tidy(p)
  BY <1>2, <1>4, <1>7, <1>b, <1>c DEF Tidy
<1>9. Filled(o) => Filled(p)
  BY <1>2, <1>4, <1>7, <1>b, <1>c, NilAssumption DEF Filled
<1> QED
  BY <1>6, <1>8, <1>9 DEF p

LEMMA do_popLemma ==
  ASSUME NEW o, Shape(o), Tidy(o), ~empty(o)
  PROVE  /\ Shape(do_pop(o)) /\ Tidy(do_pop(o))
         /\ Filled(o) => Filled(do_pop(o)) /\ element(o, 0) # Nil
<1> DEFINE p == do_pop(o)
           n == o.m_maximumSize
<1>1. n # 0
  BY DEF empty, Shape
<1>2. n \in Nat \ {0} /\ o.m_first \in 0 .. n - 1 /\ o.m_size \in 1 .. n
  BY <1>1, StorageLemma DEF empty
<1>3. /\ (o.m_first + 1) % n = IF o.m_first + 1 < n THEN o.m_first + 1 ELSE o.m_first + 1 - n
      /\ (o.m_first + 1) % n \in 0 .. n - 1
  BY <1>2, WrapLemma, 1 \in 0 .. n
<1>4. /\ p.m_maximumSize = n /\ p.m_first = (o.m_first + 1) % n
      /\ p.m_size = o.m_size - 1 /\ p.m_data = [o.m_data EXCEPT ![o.m_first] = Nil]
  BY DEF Shape, Record, do_pop
<1>a. Record(p)
  BY DEF Shape, Record, do_pop
<1>d. o.m_data \in [0 .. n - 1 -> Values \cup {Nil}]
  BY DEF Shape
<1>5. p.m_data \in [0 .. n - 1 -> Values \cup {Nil}]
  BY <1>2, <1>4 DEF Shape
<1>6. Shape(p)
  BY <1>2, <1>3, <1>4, <1>5, <1>a DEF Shape
<1>b. \A i \in 0 .. n - 1 : p.m_data[i] = IF i = o.m_first THEN Nil ELSE o.m_data[i]
  BY <1>4, <1>d
<1> HIDE DEF p
<1>7. \A i \in 0 .. n - 1 :
        /\ Offset(p, i) = IF i = o.m_first THEN n - 1 ELSE Offset(o, i) - 1
        /\ Offset(o, i) \in Int
        /\ Offset(o, i) = 0 <=> i = o.m_first
  BY <1>2, <1>3, <1>4 DEF Offset
<1>8. Tidy(p)
  BY <1>2, <1>4, <1>7, <1>b DEF Tidy
<1>9. Filled(o) => Filled(p)
  BY <1>2, <1>4, <1>7, <1>b DEF Filled
<1>10. Filled(o) => element(o, 0) # Nil
  <2>1. to_buffer_index(o, 0) = o.m_first
    <3>1. o.m_first % n = o.m_first /\ o.m_first + 0 = o.m_first
      BY <1>2, SMT
    <3> QED
      BY <3>1 DEF to_buffer_index
  <2> QED
    BY <1>2, <2>1 DEF Filled, element, Offset
<1> QED
  BY <1>6, <1>8, <1>9, <1>10 DEF p

LEMMA copyLemma ==
  ASSUME CopiesAreElements, NEW o, Shape(o), o.m_maximumSize # 0
  PROVE  /\ Shape(copy(o)) /\ Tidy(copy(o))
         /\ Filled(o) => Filled(copy(o))
<1> DEFINE p == copy(o)
           n == o.m_maximumSize
           s == o.m_size
<1>1. n \in Nat \ {0} /\ o.m_first \in 0 .. n - 1 /\ s \in 0 .. n /\ n \in Sizes
  BY StorageLemma DEF Shape
<1>2. /\ p.m_maximumSize = n /\ p.m_first = 0 /\ p.m_size = s
      /\ p.m_data = [i \in 0 .. n - 1 |-> IF i < s THEN CopyOf(element(o, i)) ELSE Nil]
  BY DEF copy, Allocated
<1>a. Record(p)
  BY DEF copy, Allocated, Record
<1>3. ASSUME NEW i \in 0 .. n - 1
      PROVE  to_buffer_index(o, i) \in 0 .. n - 1
  BY <1>1, WrapLemma, i \in 0 .. n DEF to_buffer_index
<1>4. ASSUME NEW i \in 0 .. n - 1
      PROVE  CopyOf(element(o, i)) \in Values \cup {Nil}
  <2>1. element(o, i) \in Values \cup {Nil}
    BY <1>3 DEF element, Shape
  <2> QED
    BY <2>1 DEF CopiesAreElements
<1>5. p.m_data \in [0 .. n - 1 -> Values \cup {Nil}]
  BY <1>2, <1>4
<1>6. Shape(p)
  BY <1>1, <1>2, <1>5, <1>a DEF Shape
<1>7. \A i \in 0 .. n - 1 : Offset(p, i) = i
  BY <1>1, <1>2 DEF Offset
<1>8. Tidy(p)
  BY <1>1, <1>2, <1>7 DEF Tidy
<1>9. ASSUME Filled(o), NEW i \in 0 .. n - 1, i < s
      PROVE  p.m_data[i] # Nil
  <2>1. to_buffer_index(o, i) \in Window(o)
    BY <1>1, <1>9 DEF Window
  <2>2. element(o, i) # Nil
    BY <1>3, <1>9, <2>1, WindowLemma DEF Filled, element
  <2>3. element(o, i) \in Values
    BY <1>3, <2>2 DEF element, Shape
  <2>4. CopyOf(element(o, i)) \in Values
    BY <2>3 DEF CopiesAreElements
  <2> QED
    BY <1>2, <1>9, <2>4, NilAssumption
<1> QED
  BY <1>2, <1>6, <1>7, <1>8, <1>9 DEF Filled

\* The loop of clear runs at most m_size times.
LEMMA PassesLemma ==
  ASSUME NEW s \in Nat
  PROVE  Passes(s) \in 0 .. s
<1> DEFINE Ends(n) == /\ ~(n < s - n)
                      /\ \A m \in 0 .. n - 1 : m < s - m
<1>1. PICK h \in Nat : 2 * h = s \/ 2 * h = s + 1
  <2>1. s = 2 * (s \div 2) \/ s + 1 = 2 * (s \div 2 + 1)
    BY SMT
  <2>2. s \div 2 \in Nat
    BY SMT
  <2> DEFINE h == s \div 2 + 1
  <2>3. h \in Nat /\ (2 * h = s + 1 \/ 2 * (s \div 2) = s)
    BY <2>1, <2>2
  <2> HIDE DEF h
  <2> QED
    BY <2>2, <2>3
<1>2. h \in 0 .. s /\ Ends(h)
  BY <1>1
<1>3. (CHOOSE n \in 0 .. s : Ends(n)) \in 0 .. s
  BY <1>2
<1> QED
  BY <1>3 DEF Passes

\* The destructor of an object whose window is filled meets no raw storage.
LEMMA ClearedLemma ==
  ASSUME NEW o, Shape(o), Filled(o)
  PROVE  \A i \in Cleared(o) : o.m_data[i] # Nil
<1>1. o.m_size \in Nat
  BY SizesLemma DEF Shape
<1>2. Passes(o.m_size) \in 0 .. o.m_size
  BY <1>1, PassesLemma
<1>3. Cleared(o) \subseteq Window(o)
  BY <1>1, <1>2 DEF Cleared, Window
<1> QED
  BY <1>3, WindowLemma DEF Filled

-----------------------------------------------------------------------------
(* The steps. *)

LEMMA ShapeInMembers ==
  ASSUME NEW o, Shape(o)
  PROVE  o \in Members
<1>1. o.m_first \in 0 .. o.m_maximumSize
  <2>1. o.m_maximumSize \in Nat
    BY SizesLemma DEF Shape
  <2>2. CASE o.m_first \in 0 .. o.m_maximumSize - 1
    BY <2>1, <2>2
  <2>3. CASE o = Allocated(0)
    BY <2>1, <2>3 DEF Allocated
  <2> QED
    BY <2>2, <2>3 DEF Shape
<1>2. o \in [m_maximumSize : {o.m_maximumSize}, m_first : 0 .. o.m_maximumSize,
             m_size : 0 .. o.m_maximumSize,
             m_data : [0 .. o.m_maximumSize - 1 -> Values \cup {Nil}]]
  BY <1>1 DEF Shape, Record
<1> QED
  BY <1>2 DEF Members, Shape

LEMMA InitIInv == Init => IInv
BY DEF Init, IInv, alive

\* What is known of an object that exists, and of one that is made for b.
Sound(o) == Shape(o) /\ Tidy(o) /\ (~MayThrow => Filled(o))

LEMMA SoundStep ==
  ASSUME IInv, NEW b \in Buffers, NEW o, Sound(o), object' = [object EXCEPT ![b] = o]
  PROVE  /\ object' \in [Buffers -> Members \cup {Nil}]
         /\ \A c \in alive' : Sound(object'[c])
<1>1. \A c \in alive : Sound(object[c])
  BY DEF IInv, Sound
<1>2. \A c \in Buffers : object'[c] = IF c = b THEN o ELSE object[c]
  BY DEF IInv
<1>3. o \in Members
  BY ShapeInMembers DEF Sound
<1> QED
  BY <1>1, <1>2, <1>3 DEF IInv, alive

LEMMA SoundPair ==
  ASSUME IInv, NEW b \in Buffers, NEW c \in Buffers, NEW o, NEW p, Sound(o), Sound(p),
         object' = [object EXCEPT ![b] = o, ![c] = p]
  PROVE  /\ object' \in [Buffers -> Members \cup {Nil}]
         /\ \A d \in alive' : Sound(object'[d])
<1>1. \A d \in alive : Sound(object[d])
  BY DEF IInv, Sound
<1>2. \A d \in Buffers : object'[d] = IF d = c THEN p ELSE IF d = b THEN o ELSE object[d]
  BY DEF IInv
<1>3. o \in Members /\ p \in Members
  BY ShapeInMembers DEF Sound
<1> QED
  BY <1>1, <1>2, <1>3 DEF IInv, alive

\* The destructor of a sound object sets no flag that it must not set.
LEMMA ReleaseLemma ==
  ASSUME NEW o, ~MayThrow => Shape(o) /\ Filled(o), Release(o),
         leaked \in BOOLEAN, misused \in BOOLEAN, ~MayThrow => ~misused
  PROVE  /\ leaked' \in BOOLEAN /\ misused' \in BOOLEAN
         /\ ~MayThrow => ~misused'
<1>1. ~MayThrow => ~(\E i \in Cleared(o) : o.m_data[i] = Nil)
  BY ClearedLemma
<1> QED
  BY <1>1 DEF Release

LEMMA StepIInv == CopiesAreElements /\ IInv /\ [Next]_vars => IInv'
<1> SUFFICES ASSUME CopiesAreElements, IInv, [Next]_vars
             PROVE  IInv'
  OBVIOUS
<1>0. /\ object \in [Buffers -> Members \cup {Nil}]
      /\ leaked \in BOOLEAN /\ misused \in BOOLEAN
      /\ ~MayThrow => ~misused
      /\ \A b \in alive : Sound(object[b])
      /\ alive \subseteq Buffers
  BY DEF IInv, Sound, alive
<1> DEFINE Objects == /\ object' \in [Buffers -> Members \cup {Nil}]
                      /\ \A b \in alive' : Sound(object'[b])
           Lifetimes == /\ leaked' \in BOOLEAN /\ misused' \in BOOLEAN
                        /\ ~MayThrow => ~misused'
<1>a. ASSUME UNCHANGED object
      PROVE  Objects
  BY <1>0, <1>a DEF alive
<1>b. ASSUME UNCHANGED lifetimes
      PROVE  Lifetimes
  BY <1>0, <1>b DEF lifetimes
<1>c. ASSUME NEW b \in Buffers, NEW o, Sound(o), Become(b, o)
      PROVE  Objects
  BY <1>c, SoundStep DEF Become
<1>d. ASSUME NEW b \in alive, Release(object[b])
      PROVE  Lifetimes
  BY <1>0, <1>d, ReleaseLemma DEF Sound
<1>e. ASSUME NEW n \in Sizes
      PROVE  Sound(Allocated(n))
  BY AllocatedLemma DEF Sound
<1>f. ASSUME NEW b \in alive, object[b].m_maximumSize # 0
      PROVE  Sound(copy(object[b]))
  BY <1>0, <1>f, copyLemma DEF Sound
<1>g. ASSUME NEW r, Leave(r)
      PROVE  Objects /\ Lifetimes
  BY <1>g, <1>a, <1>b DEF Leave
<1> SUFFICES Objects /\ Lifetimes
  BY DEF IInv, Sound
<1> HIDE DEF Objects, Lifetimes
<1>1. CASE UNCHANGED vars
  BY <1>1, <1>a, <1>b DEF vars, lifetimes
<1>2. CASE Next
  <2> SUFFICES ASSUME NEW b \in Buffers,
                      \/ \E n \in Capacities : Construct(b, n)
                      \/ \E v \in Values : Push(b, v)
                      \/ PushThrows(b)
                      \/ Pop(b) \/ Front(b) \/ Back(b) \/ Measure(b) \/ Destroy(b)
                      \/ \E c \in Buffers :
                           \/ CopyConstruct(b, c) \/ CopyAssign(b, c)
                           \/ MoveConstruct(b, c) \/ Swap(b, c)
                           \/ c \in alive /\ \E k \in 1 .. object[c].m_size : CopyThrows(b, c, k)
               PROVE  Objects /\ Lifetimes
    BY <1>2 DEF Next
  <2>1. ASSUME NEW n \in Capacities, Construct(b, n)
        PROVE  Objects /\ Lifetimes
    <3>1. Sound(Allocated(n))
      BY <1>e DEF Sizes
    <3> QED
      BY <2>1, <3>1, <1>b, <1>c, <1>g DEF Construct
  <2>2. ASSUME NEW v \in Values, Push(b, v)
        PROVE  Objects /\ Lifetimes
    <3>1. CASE full(object[b])
      BY <2>2, <3>1, <1>g DEF Push
    <3>2. CASE ~full(object[b])
      <4>1. Sound(do_push(object[b], v))
        BY <1>0, <2>2, <3>2, do_pushLemma DEF Push, Sound
      <4> QED
        BY <2>2, <3>2, <4>1, <1>b, <1>c DEF Push
    <3> QED
      BY <3>1, <3>2
  <2>3. ASSUME PushThrows(b)
        PROVE  Objects /\ Lifetimes
    <3>1. MayThrow /\ b \in alive /\ ~full(object[b])
      BY <2>3 DEF PushThrows
    <3>2. Sound([object[b] EXCEPT !.m_size = @ + 1])
      BY <1>0, <3>1, CountLemma DEF Sound
    <3> QED
      BY <2>3, <3>2, <1>b, <1>c DEF PushThrows
  <2>4. ASSUME Pop(b)
        PROVE  Objects /\ Lifetimes
    <3>1. CASE empty(object[b])
      BY <2>4, <3>1, <1>g DEF Pop
    <3>2. CASE ~empty(object[b])
      <4>1. Sound(do_pop(object[b])) /\ (~MayThrow => element(object[b], 0) # Nil)
        BY <1>0, <2>4, <3>2, do_popLemma DEF Pop, Sound
      <4>2. Lifetimes
        BY <1>0, <2>4, <3>2, <4>1 DEF Pop, Lifetimes
      <4> QED
        BY <2>4, <3>2, <4>1, <4>2, <1>c DEF Pop
    <3> QED
      BY <3>1, <3>2
  <2>5. ASSUME Front(b) \/ Back(b) \/ Measure(b)
        PROVE  Objects /\ Lifetimes
    BY <2>5, <1>g DEF Front, Back, Measure
  <2>6. ASSUME Destroy(b)
        PROVE  Objects /\ Lifetimes
    <3>1. Objects
      BY <1>0, <2>6 DEF Destroy, Become, Objects, alive
    <3> QED
      BY <2>6, <3>1, <1>d DEF Destroy
  <2>7. ASSUME NEW c \in Buffers, CopyConstruct(b, c)
        PROVE  Objects /\ Lifetimes
    <3>1. CASE object[c].m_maximumSize = 0
      BY <2>7, <3>1, <1>g DEF CopyConstruct
    <3>2. CASE object[c].m_maximumSize # 0
      BY <2>7, <3>2, <1>b, <1>c, <1>f DEF CopyConstruct
    <3> QED
      BY <3>1, <3>2
  <2>8. ASSUME NEW c \in Buffers, CopyAssign(b, c)
        PROVE  Objects /\ Lifetimes
    <3>1. CASE b = c \/ object[c].m_maximumSize = 0
      BY <2>8, <3>1, <1>g DEF CopyAssign
    <3>2. CASE b # c /\ object[c].m_maximumSize # 0
      BY <2>8, <3>2, <1>c, <1>d, <1>f DEF CopyAssign
    <3> QED
      BY <3>1, <3>2
  <2>9. ASSUME NEW c \in Buffers, MoveConstruct(b, c) \/ Swap(b, c)
        PROVE  Objects /\ Lifetimes
    <3>1. c \in alive /\ Sound(object[c]) /\ Sound(Allocated(0))
      BY <1>0, <1>e, <2>9 DEF MoveConstruct, Swap, Sizes
    <3>2. CASE MoveConstruct(b, c)
      BY <3>1, <3>2, <1>b, SoundPair DEF MoveConstruct, Objects
    <3>3. CASE Swap(b, c)
      <4>1. Sound(object[b])
        BY <1>0, <3>3 DEF Swap
      <4> QED
        BY <3>1, <3>3, <4>1, <1>b, SoundPair DEF Swap, Objects
    <3> QED
      BY <2>9, <3>2, <3>3
  <2>10. ASSUME NEW c \in alive, NEW k \in 1 .. object[c].m_size, CopyThrows(b, c, k)
         PROVE  Objects /\ Lifetimes
    <3>1. MayThrow /\ UNCHANGED object /\ Release(copyUntil(object[c], k))
      BY <2>10 DEF CopyThrows
    <3>2. Lifetimes
      BY <1>0, <3>1, ReleaseLemma DEF Lifetimes
    <3> QED
      BY <3>1, <3>2, <1>a
  <2> QED
    BY <2>1, <2>2, <2>3, <2>4, <2>5, <2>6, <2>7, <2>8, <2>9, <2>10
<1> QED
  BY <1>1, <1>2

OutcomeOK == outcome[1] \in Kinds

LEMMA OutcomeLemma == OutcomeOK /\ [Next]_vars => OutcomeOK'
<1> SUFFICES ASSUME OutcomeOK, [Next]_vars
             PROVE  outcome'[1] \in Kinds
  BY DEF OutcomeOK
<1> DEFINE Okay == outcome'[1] \in Kinds
<1>1. /\ outcome' = Done => Okay
      /\ outcome' = LogicError => Okay
      /\ outcome' = InvalidArgument => Okay
      /\ outcome' = ElementThrew => Okay
  BY DEF Done, LogicError, InvalidArgument, ElementThrew, Kinds
<1>2. ASSUME NEW op \in {"copied", "moved", "swapped"}, NEW b, NEW c, outcome' = Did(op, b, c)
      PROVE  Okay
  BY <1>2 DEF Did, Kinds
<1>3. ASSUME NEW v, outcome' = Result(v)
      PROVE  Okay
  BY <1>3 DEF Result, Kinds
<1>4. ASSUME NEW x, outcome' = <<"state", x>>
      PROVE  Okay
  BY <1>4 DEF Kinds
<1>5. ASSUME NEW b \in Buffers, Front(b) \/ Back(b) \/ Measure(b)
      PROVE  Okay
  <2>1. CASE Front(b)
    BY <2>1, <1>1, <1>3 DEF Front, Leave
  <2>2. CASE Back(b)
    BY <2>2, <1>1, <1>3 DEF Back, Leave
  <2>3. CASE Measure(b)
    BY <2>3, <1>4 DEF Measure, Leave
  <2> QED
    BY <1>5, <2>1, <2>2, <2>3
<1>6. ASSUME NEW b \in Buffers,
             \/ \E n \in Capacities : Construct(b, n)
             \/ \E v \in Values : Push(b, v)
             \/ PushThrows(b) \/ Pop(b) \/ Destroy(b)
      PROVE  Okay
  <2> HIDE DEF Okay
  <2> QED
    BY <1>1, <1>6 DEF Construct, Push, PushThrows, Pop, Destroy, Leave
<1>7. ASSUME NEW b \in Buffers, NEW c \in Buffers,
             \/ CopyConstruct(b, c) \/ CopyAssign(b, c)
             \/ MoveConstruct(b, c) \/ Swap(b, c)
             \/ \E k \in 1 .. object[c].m_size : CopyThrows(b, c, k)
      PROVE  Okay
  <2> HIDE DEF Okay
  <2> QED
    BY <1>1, <1>2, <1>7 DEF CopyConstruct, CopyAssign, MoveConstruct, Swap, CopyThrows, Leave
<1>8. CASE UNCHANGED vars
  BY <1>8 DEF vars, OutcomeOK
<1> QED
  BY <1>5, <1>6, <1>7, <1>8 DEF Next

-----------------------------------------------------------------------------
(* The theorems. *)

LEMMA Invariance ==
  ASSUME CopiesAreElements
  PROVE  Spec => []IInv
<1>1. IInv /\ [Next]_vars => IInv'
  BY StepIInv
<1> QED
  BY <1>1, InitIInv, PTL DEF Spec

LEMMA InitOutcome == Init => OutcomeOK
BY DEF Init, Done, OutcomeOK, Kinds

LEMMA TypesLemma ==
  ASSUME IInv, OutcomeOK
  PROVE  TypeOK
<1>1. ASSUME NEW b \in alive
      PROVE  object[b].m_first < object[b].m_maximumSize \/ object[b] = Allocated(0)
  <2>1. Shape(object[b]) /\ object[b].m_maximumSize \in Nat
    BY SizesLemma DEF IInv, Shape
  <2> QED
    BY <2>1 DEF Shape
<1> QED
  BY <1>1 DEF IInv, TypeOK, OutcomeOK

\* Tidy windows have no element outside.
LEMMA TidyLemma == IInv => NoStrayElement
BY WindowLemma DEF IInv, Shape, Tidy, NoStrayElement

\* Filled and tidy windows are exact.
LEMMA ExactLemma == ~MayThrow /\ IInv => ConstructedExactly
BY WindowLemma DEF IInv, Shape, Tidy, Filled, ConstructedExactly

\* Whichever elements and capacities, and whichever constructors throw, m_first
\* stays a slot and m_size within the capacity.
THEOREM TypeCorrect ==
  ASSUME CopiesAreElements
  PROVE  Spec => []TypeOK
<1>1. Init => OutcomeOK
  BY InitOutcome
<1>2. IInv /\ OutcomeOK => TypeOK
  BY TypesLemma
<1> QED
  BY <1>1, <1>2, Invariance, OutcomeLemma, PTL DEF Spec

\* Even if constructors throw in push and in copies, no element is constructed
\* outside the window [m_first, m_first + m_size) in which clear looks for it.
THEOREM NoElementStrays ==
  ASSUME CopiesAreElements
  PROVE  Spec => []NoStrayElement
<1>1. IInv => NoStrayElement
  BY TidyLemma
<1> QED
  BY <1>1, Invariance, PTL

\* If no constructor throws, the window is what has been constructed: push,
\* pop, the copies, the moves and swap all keep m_size and m_first true.
THEOREM WindowsAreExact ==
  ASSUME CopiesAreElements, ~MayThrow
  PROVE  Spec => []ConstructedExactly
<1>1. IInv => ConstructedExactly
  BY ExactLemma
<1> QED
  BY <1>1, Invariance, PTL

\* If no constructor throws, neither pop nor the loop of clear, which counts
\* against the m_size that it lowers, runs a destructor on raw storage.
THEOREM DestroysElementsOnly ==
  ASSUME CopiesAreElements, ~MayThrow
  PROVE  Spec => []NoRawDestroyed
<1>1. IInv => NoRawDestroyed
  BY DEF IInv, NoRawDestroyed
<1> QED
  BY <1>1, Invariance, PTL
-----------------------------------------------------------------------------
(***************************************************************************)
(* BufferIterator: iterators that point at an object which exists, and the *)
(* refinement of ContainerPositions - the rings are bounded sequences, and *)
(* the iterators positions in them.                                        *)
(***************************************************************************)

\* What stands for no object is not one.
NilIsNoObject == ~Shape(Nil)

\* it has the members of an iterator and no others.
IteratorRecord(it) == it \in [m_buffer : {it.m_buffer}, m_index : {it.m_index}]

\* An iterator refers to an object, with an index that was once in its range.
Sane(it) == /\ IteratorRecord(it)
            /\ it.m_buffer \in alive
            /\ \E n \in Sizes : it.m_index \in 0 .. n

\* The inductive invariant.
IteratorInv == /\ IInv
               /\ iterator = [i \in Iterators |-> iterator[i]]
               /\ \A i \in used : Sane(iterator[i])

-----------------------------------------------------------------------------
(* One object. *)

\* An element is replaced by another one.
LEMMA OverwriteLemma ==
  ASSUME NEW o, Sound(o), NEW k \in Nat, k < o.m_size, NEW v \in Values
  PROVE  Sound([o EXCEPT !.m_data[to_buffer_index(o, k)] = v])
<1> DEFINE j == to_buffer_index(o, k)
           n == o.m_maximumSize
           p == [o EXCEPT !.m_data[j] = v]
<1>1. Shape(o) /\ Tidy(o) /\ (~MayThrow => Filled(o))
  BY DEF Sound
<1>2. n # 0
  BY <1>1 DEF Shape
<1>3. n \in Nat \ {0} /\ o.m_first \in 0 .. n - 1 /\ o.m_size \in 0 .. n
  BY <1>1, <1>2, StorageLemma
<1>4. j \in 0 .. n - 1
  BY <1>3, WrapLemma, k \in 0 .. n DEF to_buffer_index
<1>5. j \in Window(o)
  BY <1>3, k \in 0 .. o.m_size - 1 DEF Window
<1>6. Offset(o, j) < o.m_size
  BY <1>1, <1>4, <1>5, WindowLemma
<1>7. /\ p.m_maximumSize = n /\ p.m_first = o.m_first /\ p.m_size = o.m_size
      /\ p.m_data = [o.m_data EXCEPT ![j] = v]
  BY <1>1 DEF Shape, Record
<1>8. Record(p)
  BY <1>1 DEF Shape, Record
<1>9. o.m_data \in [0 .. n - 1 -> Values \cup {Nil}]
  BY <1>1 DEF Shape
<1> HIDE DEF p, j
<1>10. /\ p.m_data \in [0 .. n - 1 -> Values \cup {Nil}]
       /\ \A i \in 0 .. n - 1 : p.m_data[i] = IF i = j THEN v ELSE o.m_data[i]
  BY <1>4, <1>7, <1>9
<1>11. Shape(p)
  BY <1>1, <1>3, <1>7, <1>8, <1>10 DEF Shape
<1>12. \A i : Offset(p, i) = Offset(o, i)
  BY <1>7 DEF Offset
<1>13. Tidy(p)
  BY <1>1, <1>6, <1>7, <1>10, <1>12 DEF Tidy
<1>14. Filled(o) => Filled(p)
  BY <1>7, <1>10, <1>12, NilAssumption DEF Filled
<1> QED
  BY <1>1, <1>11, <1>13, <1>14 DEF Sound, p, j

\* An index less than m_size leads to a slot of the window.
LEMMA ElementLemma ==
  ASSUME NEW o, Shape(o), NEW k \in Nat, k < o.m_size
  PROVE  /\ to_buffer_index(o, k) \in 0 .. o.m_maximumSize - 1
         /\ Filled(o) => element(o, k) # Nil
<1>1. o.m_maximumSize # 0
  BY DEF Shape
<1>2. /\ o.m_maximumSize \in Nat \ {0} /\ o.m_first \in 0 .. o.m_maximumSize - 1
      /\ o.m_size \in 0 .. o.m_maximumSize
  BY <1>1, StorageLemma
<1>3. to_buffer_index(o, k) \in 0 .. o.m_maximumSize - 1
  BY <1>2, WrapLemma, k \in 0 .. o.m_maximumSize DEF to_buffer_index
<1>4. to_buffer_index(o, k) \in Window(o)
  BY <1>2, k \in 0 .. o.m_size - 1 DEF Window
<1> QED
  BY <1>3, <1>4, WindowLemma DEF Filled, element

-----------------------------------------------------------------------------
(* The steps. *)

LEMMA InitIteratorInv == IteratorInit => IteratorInv
BY InitIInv DEF IteratorInit, IteratorInv, used

LEMMA StepIteratorInv ==
  ASSUME CopiesAreElements, NilIsNoObject, IteratorInv, [IteratorNext]_ivars
  PROVE  IteratorInv'
<1>0. /\ IInv
      /\ iterator = [i \in Iterators |-> iterator[i]]
      /\ \A i \in used : i \in Iterators /\ Sane(iterator[i])
      /\ \A b \in alive : b \in Buffers /\ Sound(object[b])
  BY DEF IteratorInv, used, IInv, Sound, alive
<1>a. ASSUME UNCHANGED <<object, lifetimes>>
      PROVE  IInv' /\ alive' = alive
  <2>1. alive' = alive
    BY <1>a DEF alive
  <2> QED
    BY <1>0, <1>a, <2>1 DEF IInv, lifetimes
<1>b. ASSUME UNCHANGED iterator, IInv', alive \subseteq alive'
      PROVE  IteratorInv'
  <2>1. used' = used
    BY <1>b DEF used
  <2> QED
    BY <1>0, <1>b, <2>1 DEF IteratorInv, Sane
<1>c. ASSUME NEW i \in Iterators, NEW b \in alive, NEW k,
             \E n \in Sizes : k \in 0 .. n, Position(i, b, k)
      PROVE  IteratorInv'
  <2>1. IInv' /\ alive' = alive
    BY <1>a, <1>c DEF Position
  <2>2. \A j \in Iterators : iterator'[j] = IF j = i THEN [m_buffer |-> b, m_index |-> k] ELSE iterator[j]
    BY <1>0, <1>c DEF Position
  <2>3. iterator' = [j \in Iterators |-> iterator'[j]]
    BY <1>0, <1>c DEF Position
  <2>4. Sane([m_buffer |-> b, m_index |-> k])
    BY <1>c DEF Sane, IteratorRecord
  <2>5. \A it : Sane(it) => Sane(it)'
    BY <2>1 DEF Sane
  <2> QED
    BY <1>0, <2>1, <2>2, <2>3, <2>4, <2>5 DEF IteratorInv, used, Sane
<1>d. ASSUME NEW r, Leave(r) /\ UNCHANGED iterator
      PROVE  IteratorInv'
  BY <1>a, <1>b, <1>d DEF Leave
<1>1. CASE UNCHANGED ivars
  BY <1>1, <1>a, <1>b DEF ivars, vars, lifetimes
<1>2. CASE BufferStep
  <2>1. IInv'
    BY <1>0, <1>2, StepIInv DEF BufferStep
  <2>2. iterator' = [i \in Iterators |->
          IF iterator[i] # Nil /\ object'[iterator[i].m_buffer] = Nil THEN Nil ELSE iterator[i]]
    BY <1>2 DEF BufferStep
  <2>3. ASSUME NEW i \in used'
        PROVE  Sane(iterator[i])'
    <3>1. i \in Iterators /\ iterator'[i] # Nil
      BY DEF used
    <3>2. iterator'[i] = iterator[i] /\ i \in used /\ object'[iterator[i].m_buffer] # Nil
      BY <2>2, <3>1 DEF used
    <3>3. iterator[i].m_buffer \in alive'
      BY <1>0, <3>2 DEF Sane, alive
    <3> QED
      BY <1>0, <3>2, <3>3 DEF Sane
  <2> QED
    BY <2>1, <2>2, <2>3 DEF IteratorInv, Sane
<1>3. ASSUME NEW i \in Iterators, NEW b \in Buffers, Begin(i, b) \/ End(i, b)
      PROVE  IteratorInv'
  <2>1. b \in alive /\ Shape(object[b])
    BY <1>0, <1>3 DEF Begin, End, Sound
  <2>2. object[b].m_maximumSize \in Sizes /\ object[b].m_maximumSize \in Nat
        /\ object[b].m_size \in 0 .. object[b].m_maximumSize
    BY <2>1, SizesLemma DEF Shape
  <2>3. 0 \in 0 .. object[b].m_maximumSize
    BY <2>2
  <2> QED
    BY <1>3, <1>c, <2>1, <2>2, <2>3 DEF Begin, End
<1>4. ASSUME NEW i \in Iterators, NEW j \in Iterators, NEW d, Advance(i, j, d)
      PROVE  IteratorInv'
  <2>1. j \in used
    BY <1>4 DEF Advance, used
  <2>2. CASE InRange(iterator[j], d)
    <3>1. Position(i, iterator[j].m_buffer, iterator[j].m_index + d)
      BY <1>4, <2>2 DEF Advance
    <3>2. iterator[j].m_buffer \in alive
      BY <1>0, <2>1 DEF Sane
    <3>3. Shape(object[iterator[j].m_buffer])
      BY <1>0, <3>2 DEF Sound
    <3>4. \E n \in Sizes : iterator[j].m_index + d \in 0 .. n
      <4>1. object[iterator[j].m_buffer].m_size \in Sizes \/
            object[iterator[j].m_buffer].m_size \in 0 .. object[iterator[j].m_buffer].m_maximumSize
        BY <3>3 DEF Shape
      <4>2. /\ object[iterator[j].m_buffer].m_maximumSize \in Sizes
            /\ object[iterator[j].m_buffer].m_maximumSize \in Nat
            /\ object[iterator[j].m_buffer].m_size \in 0 .. object[iterator[j].m_buffer].m_maximumSize
        BY <3>3, SizesLemma DEF Shape
      <4>3. iterator[j].m_index + d \in 0 .. object[iterator[j].m_buffer].m_maximumSize
        BY <2>2, <4>2 DEF InRange
      <4> QED
        BY <4>2, <4>3
    <3> QED
      BY <1>c, <3>1, <3>2, <3>4
  <2>3. CASE ~InRange(iterator[j], d)
    BY <1>4, <1>d, <2>3 DEF Advance, Fails
  <2> QED
    BY <2>2, <2>3
<1>5. ASSUME NEW i \in Iterators, NEW v \in Values, Overwrite(i, v)
      PROVE  IteratorInv'
  <2> DEFINE it == iterator[i]
             o  == object[it.m_buffer]
             p  == [o EXCEPT !.m_data[to_buffer_index(o, it.m_index)] = v]
  <2>1. i \in used /\ Sane(it)
    BY <1>0, <1>5 DEF Overwrite, used
  <2>2. CASE ~ValidPosition(it)
    BY <1>5, <1>d, <2>2 DEF Overwrite, Fails
  <2>3. CASE ValidPosition(it)
    <3>1. it.m_buffer \in alive /\ it.m_buffer \in Buffers /\ Sound(o)
      BY <1>0, <2>1 DEF Sane
    <3>2. it.m_index \in Nat
      BY <2>1, SizesLemma DEF Sane
    <3>3. Sound(p)
      BY <2>3, <3>1, <3>2, OverwriteLemma DEF ValidPosition
    <3>4. Become(it.m_buffer, p) /\ UNCHANGED <<lifetimes, iterator>>
      BY <1>5, <2>3 DEF Overwrite
    <3> HIDE DEF p
    <3>5. p # Nil
      BY <3>3 DEF Sound, NilIsNoObject
    <3>6. /\ object' \in [Buffers -> Members \cup {Nil}]
          /\ \A c \in alive' : Sound(object'[c])
      BY <1>0, <3>1, <3>3, <3>4, SoundStep DEF Become
    <3>7. IInv'
      BY <1>0, <3>4, <3>6 DEF IInv, lifetimes, Sound
    <3>8. alive \subseteq alive'
      BY <1>0, <3>1, <3>4, <3>5 DEF Become, alive, IInv
    <3> QED
      BY <1>b, <3>4, <3>7, <3>8
  <2> QED
    BY <2>2, <2>3
<1>6. ASSUME NEW i \in Iterators, Dereference(i)
      PROVE  IteratorInv'
  BY <1>6, <1>d DEF Dereference, Fails, Yields
<1>7. ASSUME NEW i \in Iterators, NEW j \in Iterators,
             Equal(i, j) \/ Less(i, j) \/ Difference(i, j)
      PROVE  IteratorInv'
  <2>1. \E r : Leave(r) /\ UNCHANGED iterator
    BY <1>7 DEF Equal, Less, Difference, Fails, Yields
  <2> QED
    BY <1>d, <2>1
<1> QED
  BY <1>1, <1>2, <1>3, <1>4, <1>5, <1>6, <1>7 DEF IteratorNext, Increment, Decrement

-----------------------------------------------------------------------------
(* The theorems. *)

LEMMA IteratorInvariance ==
  ASSUME CopiesAreElements, NilIsNoObject
  PROVE  IteratorSpec => []IteratorInv
<1>1. IteratorInv /\ [IteratorNext]_ivars => IteratorInv'
  BY StepIteratorInv
<1> QED
  BY <1>1, InitIteratorInv, PTL DEF IteratorSpec

LEMMA IteratorOutcomeLemma == OutcomeOK /\ [IteratorNext]_ivars => OutcomeOK'
<1> SUFFICES ASSUME OutcomeOK, [IteratorNext]_ivars
             PROVE  OutcomeOK'
  OBVIOUS
<1>1. CASE UNCHANGED ivars \/ BufferStep
  <2>1. [Next]_vars
    BY <1>1 DEF ivars, BufferStep
  <2> QED
    BY <2>1, OutcomeLemma
<1>2. /\ outcome' = Done => OutcomeOK'
      /\ outcome' = LogicError => OutcomeOK'
      /\ outcome' = OutOfRange => OutcomeOK'
  BY DEF Done, LogicError, OutOfRange, OutcomeOK, Kinds
<1>3. /\ \A v : outcome' = Result(v) => OutcomeOK'
      /\ \A v : outcome' = <<"bool", v>> => OutcomeOK'
      /\ \A v : outcome' = <<"difference", v>> => OutcomeOK'
  BY DEF Result, OutcomeOK, Kinds
<1>4. ASSUME NEW i \in Iterators, NEW b \in Buffers, Begin(i, b) \/ End(i, b)
      PROVE  OutcomeOK'
  BY <1>2, <1>4 DEF Begin, End, Position
<1>5. ASSUME NEW i \in Iterators, NEW j \in Iterators, NEW d, Advance(i, j, d)
      PROVE  OutcomeOK'
  BY <1>2, <1>5 DEF Advance, Position, Fails, Leave
<1>6. ASSUME NEW i \in Iterators, Dereference(i) \/ \E v \in Values : Overwrite(i, v)
      PROVE  OutcomeOK'
  BY <1>2, <1>3, <1>6 DEF Dereference, Overwrite, Fails, Yields, Leave
<1>7. ASSUME NEW i \in Iterators, NEW j \in Iterators,
             Equal(i, j) \/ Less(i, j) \/ Difference(i, j)
      PROVE  OutcomeOK'
  BY <1>2, <1>3, <1>7 DEF Equal, Less, Difference, Fails, Yields, Leave
<1> QED
  BY <1>1, <1>4, <1>5, <1>6, <1>7 DEF IteratorNext, Increment, Decrement

\* What TypeCorrect and NoElementStrays say of the buffers holds as well while
\* iterators are used, one that writes through a slot which was counted and never
\* constructed included.
THEOREM IteratorsDisturbNothing ==
  ASSUME CopiesAreElements, NilIsNoObject
  PROVE  IteratorSpec => [](TypeOK /\ NoStrayElement)
<1>1. IteratorInit => OutcomeOK
  BY InitOutcome DEF IteratorInit
<1>2. IteratorInv /\ OutcomeOK => TypeOK /\ NoStrayElement
  BY TypesLemma, TidyLemma DEF IteratorInv
<1>3. IteratorInit /\ [][IteratorNext]_ivars => []OutcomeOK
  BY <1>1, IteratorOutcomeLemma, PTL
<1> QED
  BY <1>2, <1>3, IteratorInvariance, PTL DEF IteratorSpec

\* If no constructor throws, the windows stay exact while elements are assigned
\* through iterators, and so no destructor runs on raw storage.
THEOREM IteratorsKeepWindows ==
  ASSUME CopiesAreElements, NilIsNoObject, ~MayThrow
  PROVE  IteratorSpec => [](ConstructedExactly /\ NoRawDestroyed)
<1>1. IteratorInv => ConstructedExactly /\ NoRawDestroyed
  BY ExactLemma DEF IteratorInv, IInv, NoRawDestroyed
<1> QED
  BY <1>1, IteratorInvariance, PTL

\* Whatever happens to its buffer, an iterator refers to an object, and its index
\* never passes the largest capacity, nor falls below 0.
THEOREM IteratorTypeCorrect ==
  ASSUME CopiesAreElements, NilIsNoObject
  PROVE  IteratorSpec => []IteratorTypeOK
<1>1. IteratorInv => IteratorTypeOK
  BY DEF IteratorInv, IteratorTypeOK, Sane
<1> QED
  BY <1>1, IteratorInvariance, PTL

\* If no constructor throws, the check of the index against m_size is enough: an
\* iterator that passes it designates an element, and not raw storage, even if
\* its buffer was popped, assigned to, swapped or moved from meanwhile.
THEOREM DesignatesElements ==
  ASSUME CopiesAreElements, NilIsNoObject, ~MayThrow
  PROVE  IteratorSpec => []NoRawDesignated
<1>1. IteratorInv => NoRawDesignated
  <2> SUFFICES ASSUME IteratorInv, NEW i \in used, ValidPosition(iterator[i])
               PROVE  Designated(iterator[i]) # Nil
    BY DEF NoRawDesignated
  <2> DEFINE it == iterator[i]
  <2>1. Sane(it)
    BY DEF IteratorInv
  <2>2. it.m_buffer \in alive /\ it.m_index \in Nat
    BY <2>1, SizesLemma DEF Sane
  <2>3. Shape(object[it.m_buffer]) /\ Filled(object[it.m_buffer])
    BY <2>2 DEF IteratorInv, IInv
  <2> QED
    BY <2>2, <2>3, ElementLemma DEF ValidPosition, Designated
<1> QED
  BY <1>1, IteratorInvariance, PTL

\* A push constructs behind the window and leaves what is in it.
LEMMA PushedLemma ==
  ASSUME NEW o, Shape(o), ~full(o), NEW v
  PROVE  /\ do_push(o, v).m_size = o.m_size + 1
         /\ \A k \in 0 .. o.m_size - 1 : element(do_push(o, v), k) = element(o, k)
         /\ element(do_push(o, v), o.m_size) = v
<1> DEFINE p == do_push(o, v)
           n == o.m_maximumSize
           j == to_buffer_index(o, o.m_size)
<1>1. n # 0
  BY DEF full, Shape
<1>2. n \in Nat \ {0} /\ o.m_first \in 0 .. n - 1 /\ o.m_size \in 0 .. n - 1
  BY <1>1, StorageLemma DEF full
<1>3. /\ p.m_maximumSize = n /\ p.m_first = o.m_first
      /\ p.m_size = o.m_size + 1 /\ p.m_data = [o.m_data EXCEPT ![j] = v]
  BY DEF Shape, Record, do_push
<1>4. ASSUME NEW k \in 0 .. o.m_size
      PROVE  /\ to_buffer_index(o, k) = IF o.m_first + k < n THEN o.m_first + k ELSE o.m_first + k - n
             /\ to_buffer_index(o, k) \in DOMAIN o.m_data
             /\ to_buffer_index(p, k) = to_buffer_index(o, k)
  <2>1. k \in 0 .. n
    BY <1>2
  <2>2. DOMAIN o.m_data = 0 .. n - 1
    BY DEF Shape
  <2> QED
    BY <1>2, <1>3, <2>1, <2>2, WrapLemma DEF to_buffer_index
<1> HIDE DEF p
<1>5. ASSUME NEW k \in 0 .. o.m_size - 1
      PROVE  element(p, k) = element(o, k)
  <2>1. k \in 0 .. o.m_size /\ o.m_size \in 0 .. o.m_size
    BY <1>2
  <2>2. to_buffer_index(o, k) # j
    BY <1>2, <1>4, <2>1
  <2> QED
    BY <1>3, <1>4, <2>1, <2>2 DEF element
<1>6. element(p, o.m_size) = v
  BY <1>2, <1>3, <1>4, o.m_size \in 0 .. o.m_size DEF element
<1> QED
  BY <1>3, <1>5, <1>6 DEF p

\* No step of an iterator looks like a push.
LEMMA PushKeepsIterators ==
  ASSUME CopiesAreElements, NilIsNoObject, IteratorInv, [IteratorNext]_ivars,
         NEW b \in Buffers, NEW v \in Values, Push(b, v), NEW i \in used
  PROVE  iterator'[i] = iterator[i]
<1>1. b \in alive /\ Sound(object[b]) /\ i \in Iterators /\ Sane(iterator[i])
  BY DEF Push, IteratorInv, IInv, Sound, used
<1>2. \/ outcome' = LogicError /\ UNCHANGED object
      \/ ~full(object[b]) /\ object' = [object EXCEPT ![b] = do_push(object[b], v)]
  BY DEF Push, Leave, Become
<1>3. object \in [Buffers -> Members \cup {Nil}] /\ iterator[i].m_buffer \in alive
  BY <1>1 DEF IteratorInv, IInv, Sane
<1>4. ~full(object[b]) => do_push(object[b], v) # Nil
  BY <1>1, do_pushLemma DEF Sound, NilIsNoObject
<1>5. ~(outcome' = Done /\ UNCHANGED object)
  <2>1. Done # LogicError
    BY DEF Done, LogicError
  <2>2. ~full(object[b]) => do_push(object[b], v) # object[b]
    <3>1. ~full(object[b]) => do_push(object[b], v).m_size = object[b].m_size + 1
      BY <1>1, PushedLemma DEF Sound
    <3>2. object[b].m_size \in Nat
      BY <1>1, SizesLemma DEF Sound, Shape
    <3> QED
      BY <3>1, <3>2
  <2> QED
    BY <1>2, <1>3, <2>1, <2>2
<1>6. ASSUME NEW j \in Iterators, NEW c, NEW k
      PROVE  ~Position(j, c, k)
  BY <1>5 DEF Position
<1>7. CASE UNCHANGED iterator
  BY <1>7
<1>8. CASE BufferStep
  <2>1. object'[iterator[i].m_buffer] # Nil
    BY <1>2, <1>3, <1>4 DEF alive
  <2> QED
    BY <1>1, <1>8, <2>1 DEF BufferStep
<1>9. ASSUME NEW j \in Iterators, NEW d, NEW k \in Iterators, Advance(j, k, d)
      PROVE  UNCHANGED iterator
  BY <1>6, <1>9 DEF Advance, Fails
<1>10. ASSUME NEW j \in Iterators, NEW w \in Values, Overwrite(j, w)
       PROVE  UNCHANGED iterator
  BY <1>10 DEF Overwrite, Fails
<1>11. ASSUME NEW j \in Iterators, NEW k \in Iterators,
              Dereference(j) \/ Equal(j, k) \/ Less(j, k) \/ Difference(j, k)
       PROVE  UNCHANGED iterator
  BY <1>11 DEF Dereference, Equal, Less, Difference, Fails, Yields
<1>12. ASSUME NEW j \in Iterators, NEW c \in Buffers
       PROVE  ~Begin(j, c) /\ ~End(j, c)
  BY <1>6 DEF Begin, End
<1> QED
  BY <1>7, <1>8, <1>9, <1>10, <1>11, <1>12
     DEF IteratorNext, ivars, Increment, Decrement

\* While only pushes happen, an iterator keeps its element: the slot behind the
\* window is never the one it designates, wherever the ring wraps around.
THEOREM PushKeepsElement ==
  ASSUME CopiesAreElements, NilIsNoObject
  PROVE  IteratorSpec => PushKeepsDesignated
<1>1. ASSUME IteratorInv, [IteratorNext]_ivars,
             NEW b \in Buffers, NEW v \in Values, Push(b, v),
             NEW i \in used, ValidPosition(iterator[i])
      PROVE  Designated(iterator[i])' = Designated(iterator[i])
  <2> DEFINE c == iterator[i].m_buffer
             k == iterator[i].m_index
  <2>1. iterator'[i] = iterator[i]
    BY <1>1, PushKeepsIterators
  <2>2. c \in alive /\ k \in Nat /\ Shape(object[c]) /\ k < object[c].m_size
    BY <1>1, SizesLemma DEF IteratorInv, Sane, IInv, ValidPosition
  <2>3. Designated(iterator[i]) = element(object[c], k)
    BY <1>1 DEF Designated
  <2>4. k < object'[c].m_size /\ element(object'[c], k) = element(object[c], k)
    <3>1. CASE UNCHANGED object
      BY <2>2, <3>1
    <3>2. CASE ~full(object[b]) /\ object' = [object EXCEPT ![b] = do_push(object[b], v)]
      <4>1. object'[c] = IF c = b THEN do_push(object[b], v) ELSE object[c]
        BY <1>1, <2>2, <3>2 DEF IteratorInv, IInv, alive
      <4>2. object[c].m_size \in Nat /\ k \in 0 .. object[c].m_size - 1
        <5>1. object[c].m_size \in Nat
          BY <2>2, SizesLemma DEF Shape
        <5> QED
          BY <2>2, <5>1
      <4>3. CASE c = b
        BY <2>2, <3>2, <4>1, <4>2, <4>3, PushedLemma
      <4>4. CASE c # b
        BY <2>2, <4>1, <4>4
      <4> QED
        BY <4>3, <4>4
    <3> QED
      BY <1>1, <3>1, <3>2 DEF Push, Leave, Become
  <2> QED
    BY <2>1, <2>3, <2>4 DEF Designated, ValidPosition, element, to_buffer_index
<1>2. IteratorInv /\ [IteratorNext]_ivars =>
        [(\E b \in Buffers, v \in Values : Push(b, v)) =>
           \A i \in used : ValidPosition(iterator[i])
                           => Designated(iterator[i])' = Designated(iterator[i])]_ivars
  BY <1>1
<1> QED
  BY <1>2, IteratorInvariance, PTL DEF IteratorSpec, PushKeepsDesignated
-----------------------------------------------------------------------------
(***************************************************************************)
(* BufferIterator implements ContainerPositions: the rings are bounded     *)
(* sequences, and the iterators positions in them.                         *)
(***************************************************************************)

\* The elements of one object in ring order.
Ring(o) == [i \in 1 .. o.m_size |-> element(o, i - 1)]

\* The elements are a sequence of these.
Contained(o) == {Ring(o)[i] : i \in 1 .. o.m_size}

\* What stands for no iterator is not one, nor a position.
NilIsNoPosition == \A b, k : /\ [m_buffer |-> b, m_index |-> k] # Nil
                             /\ [of |-> b, offset |-> k] # Nil

-----------------------------------------------------------------------------
(* The ring as a sequence. *)

LEMMA RingLemma ==
  ASSUME NEW o, Shape(o)
  PROVE  /\ Ring(o) \in Seq(Contained(o))
         /\ Len(Ring(o)) = o.m_size
         /\ o.m_size \in 0 .. o.m_maximumSize /\ o.m_maximumSize \in Nat
         /\ Ring(o) = <<>> <=> o.m_size = 0
         /\ \A i \in 1 .. o.m_size : Ring(o)[i] = element(o, i - 1)
<1>1. o.m_size \in 0 .. o.m_maximumSize /\ o.m_maximumSize \in Nat
  BY SizesLemma DEF Shape
<1>2. \A i \in 1 .. o.m_size : Ring(o)[i] = element(o, i - 1)
  BY DEF Ring
<1>3. Ring(o) \in [1 .. o.m_size -> Contained(o)]
  BY DEF Ring, Contained
<1>4. Ring(o) \in Seq(Contained(o)) /\ Len(Ring(o)) = o.m_size
  BY <1>1, <1>3
<1>5. Ring(o) = <<>> <=> o.m_size = 0
  BY <1>4, EmptySeq
<1> QED
  BY <1>1, <1>2, <1>4, <1>5

\* do_push appends.
LEMMA AppendLemma ==
  ASSUME NEW o, Shape(o), NEW p, Shape(p), NEW v,
         p.m_size = o.m_size + 1,
         \A k \in 0 .. o.m_size - 1 : element(p, k) = element(o, k),
         element(p, o.m_size) = v
  PROVE  Ring(p) = Append(Ring(o), v)
<1> DEFINE S == Contained(o) \cup Contained(p) \cup {v}
<1>1. /\ Ring(p) \in Seq(S) /\ Len(Ring(p)) = o.m_size + 1
      /\ \A i \in 1 .. o.m_size + 1 : Ring(p)[i] = element(p, i - 1)
  BY RingLemma
<1>2. /\ Ring(o) \in Seq(S) /\ Len(Ring(o)) = o.m_size /\ o.m_size \in Nat
      /\ \A i \in 1 .. o.m_size : Ring(o)[i] = element(o, i - 1)
  BY RingLemma
<1>3. /\ Append(Ring(o), v) \in Seq(S) /\ Len(Append(Ring(o), v)) = o.m_size + 1
      /\ \A i \in 1 .. o.m_size : Append(Ring(o), v)[i] = Ring(o)[i]
      /\ Append(Ring(o), v)[o.m_size + 1] = v
  BY <1>2, AppendProperties, v \in S
<1>4. ASSUME NEW i \in 1 .. o.m_size + 1
      PROVE  Ring(p)[i] = Append(Ring(o), v)[i]
  <2>1. CASE i = o.m_size + 1
    BY <1>1, <1>2, <1>3, <2>1
  <2>2. CASE i \in 1 .. o.m_size
    <3>1. i - 1 \in 0 .. o.m_size - 1
      BY <1>2, <2>2
    <3> QED
      BY <1>1, <1>2, <1>3, <2>2, <3>1
  <2> QED
    BY <1>2, <2>1, <2>2
<1> HIDE DEF S
<1> QED
  BY <1>1, <1>3, <1>4, SeqEqual

\* An index that is not negative and at most the capacity.
LEMMA IndexLemma ==
  ASSUME NEW o, NEW n \in Nat \ {0}, o.m_maximumSize = n, o.m_first \in 0 .. n - 1, NEW k \in 0 .. n
  PROVE  /\ to_buffer_index(o, k) = IF o.m_first + k < n THEN o.m_first + k ELSE o.m_first + k - n
         /\ to_buffer_index(o, k) \in 0 .. n - 1
BY WrapLemma DEF to_buffer_index

\* A slot that is counted without being constructed adds nothing to the rest.
LEMMA UnmadeLemma ==
  ASSUME NEW o, Shape(o), Tidy(o), ~full(o), NEW p, p = [o EXCEPT !.m_size = @ + 1]
  PROVE  /\ p.m_size = o.m_size + 1 /\ p.m_maximumSize = o.m_maximumSize
         /\ \A k \in 0 .. o.m_size - 1 : element(p, k) = element(o, k)
         /\ element(p, o.m_size) = Nil
<1> DEFINE n == o.m_maximumSize
           j == to_buffer_index(o, o.m_size)
<1>1. n # 0
  BY DEF full, Shape
<1>2. n \in Nat \ {0} /\ o.m_first \in 0 .. n - 1 /\ o.m_size \in 0 .. n - 1
  BY <1>1, StorageLemma DEF full
<1>3. /\ p.m_maximumSize = n /\ p.m_first = o.m_first
      /\ p.m_size = o.m_size + 1 /\ p.m_data = o.m_data
  BY DEF Shape, Record
<1>4. \A k : element(p, k) = element(o, k)
  BY <1>3 DEF element, to_buffer_index
<1>5. /\ j = IF o.m_first + o.m_size < n THEN o.m_first + o.m_size ELSE o.m_first + o.m_size - n
      /\ j \in 0 .. n - 1
  BY <1>2, WrapLemma, o.m_size \in 0 .. n DEF to_buffer_index
<1>6. Offset(o, j) = o.m_size
  BY <1>2, <1>5 DEF Offset
<1>7. o.m_data[j] = Nil
  BY <1>2, <1>5, <1>6 DEF Tidy
<1> QED
  BY <1>3, <1>4, <1>7 DEF element

\* do_pop removes the head.
LEMMA TailLemma ==
  ASSUME NEW o, Shape(o), Tidy(o), ~empty(o)
  PROVE  Ring(do_pop(o)) = Tail(Ring(o))
<1> DEFINE p == do_pop(o)
           S == Contained(o) \cup Contained(p)
           n == o.m_maximumSize
           f == o.m_first
<1>1. Shape(p)
  BY do_popLemma
<1>2. n # 0
  BY DEF empty, Shape
<1>3. n \in Nat \ {0} /\ f \in 0 .. n - 1 /\ o.m_size \in 1 .. n
  BY <1>2, StorageLemma DEF empty
<1>4. /\ p.m_maximumSize = n /\ p.m_first = (f + 1) % n
      /\ p.m_size = o.m_size - 1 /\ p.m_data = [o.m_data EXCEPT ![f] = Nil]
  BY DEF Shape, Record, do_pop
<1> HIDE DEF p
<1>5. /\ Ring(p) \in Seq(S) /\ Len(Ring(p)) = o.m_size - 1
      /\ \A i \in 1 .. o.m_size - 1 : Ring(p)[i] = element(p, i - 1)
  BY <1>1, <1>4, RingLemma
<1>6. /\ Ring(o) \in Seq(S) /\ Len(Ring(o)) = o.m_size /\ Ring(o) # <<>>
      /\ \A i \in 1 .. o.m_size : Ring(o)[i] = element(o, i - 1)
  BY <1>3, RingLemma
<1>7. /\ Tail(Ring(o)) \in Seq(S) /\ Len(Tail(Ring(o))) = o.m_size - 1
      /\ \A i \in 1 .. o.m_size - 1 : Tail(Ring(o))[i] = Ring(o)[i + 1]
  BY <1>6, HeadTailProperties
<1>8. ASSUME NEW i \in 1 .. o.m_size - 1
      PROVE  Ring(p)[i] = Tail(Ring(o))[i]
  <2>1. i - 1 \in 0 .. n /\ i \in 0 .. n /\ 1 \in 0 .. n
    BY <1>3
  <2>2. /\ p.m_first = IF f + 1 < n THEN f + 1 ELSE f + 1 - n
        /\ to_buffer_index(o, i) = IF f + i < n THEN f + i ELSE f + i - n
        /\ p.m_first \in 0 .. n - 1
    <3>1. (f + 1) % n = IF f + 1 < n THEN f + 1 ELSE f + 1 - n
      BY <1>3, <2>1, WrapLemma
    <3>2. p.m_first = IF f + 1 < n THEN f + 1 ELSE f + 1 - n
      BY <1>4, <3>1
    <3>3. p.m_first \in 0 .. n - 1
      BY <1>3, <3>2
    <3> QED
      BY <1>3, <2>1, <3>2, <3>3, IndexLemma
  <2>3. to_buffer_index(p, i - 1) = IF p.m_first + (i - 1) < n THEN p.m_first + (i - 1)
                                                               ELSE p.m_first + (i - 1) - n
    <3>1. p.m_maximumSize = n /\ p.m_first \in 0 .. n - 1
      BY <1>4, <2>2
    <3> QED
      BY <1>3, <2>1, <3>1, IndexLemma
  <2>4. /\ to_buffer_index(p, i - 1) = to_buffer_index(o, i)
        /\ to_buffer_index(o, i) \in 0 .. n - 1 /\ to_buffer_index(o, i) # f
    BY <1>3, <2>2, <2>3
  <2>5. element(p, i - 1) = element(o, i)
    BY <1>4, <2>4 DEF element, Shape
  <2>6. i + 1 \in 1 .. o.m_size /\ (i + 1) - 1 = i
    BY <1>3
  <2> QED
    BY <1>5, <1>6, <1>7, <2>5, <2>6
<1> HIDE DEF S
<1>9. Ring(p) = Tail(Ring(o))
  BY <1>5, <1>7, <1>8, SeqEqual
<1> QED
  BY <1>9 DEF p

\* copy makes the same sequence of copies.
LEMMA CopyLemma ==
  ASSUME NEW o, Shape(o), o.m_maximumSize # 0
  PROVE  Ring(copy(o)) = [i \in DOMAIN Ring(o) |-> CopyOf(Ring(o)[i])]
<1> DEFINE p == copy(o)
           n == o.m_maximumSize
<1>1. n \in Nat \ {0} /\ o.m_size \in 0 .. n
  BY StorageLemma
<1>2. /\ p.m_maximumSize = n /\ p.m_first = 0 /\ p.m_size = o.m_size
      /\ p.m_data = [i \in 0 .. n - 1 |-> IF i < o.m_size THEN CopyOf(element(o, i)) ELSE Nil]
  BY DEF copy, Allocated
<1> HIDE DEF p
<1>3. ASSUME NEW i \in 1 .. o.m_size
      PROVE  element(p, i - 1) = CopyOf(Ring(o)[i])
  <2>1. i - 1 \in 0 .. n - 1 /\ i - 1 \in 0 .. n /\ 0 + (i - 1) < n /\ i - 1 < o.m_size
    BY <1>1
  <2>2. to_buffer_index(p, i - 1) = i - 1
    <3>1. p.m_maximumSize = n /\ p.m_first \in 0 .. n - 1 /\ p.m_first = 0
      BY <1>1, <1>2
    <3> HIDE DEF n
    <3>2. to_buffer_index(p, i - 1) = IF 0 + (i - 1) < n THEN 0 + (i - 1) ELSE 0 + (i - 1) - n
      BY <1>1, <2>1, <3>1, IndexLemma
    <3> QED
      BY <2>1, <3>2
  <2>3. Ring(o)[i] = element(o, i - 1)
    BY RingLemma
  <2> QED
    BY <1>2, <2>1, <2>2, <2>3 DEF element
<1>4. DOMAIN Ring(o) = 1 .. o.m_size
  BY DEF Ring
<1>5. Ring(p) = [i \in 1 .. o.m_size |-> CopyOf(Ring(o)[i])]
  BY <1>2, <1>3 DEF Ring
<1> QED
  BY <1>4, <1>5 DEF p

\* An assignment through an iterator replaces one element.
LEMMA ReplaceLemma ==
  ASSUME NEW o, Shape(o), NEW k \in Nat, k < o.m_size, NEW v
  PROVE  Ring([o EXCEPT !.m_data[to_buffer_index(o, k)] = v]) = [Ring(o) EXCEPT ![k + 1] = v]
<1> DEFINE j == to_buffer_index(o, k)
           n == o.m_maximumSize
           p == [o EXCEPT !.m_data[j] = v]
<1>1. n # 0
  BY DEF Shape
<1>2. n \in Nat \ {0} /\ o.m_first \in 0 .. n - 1 /\ o.m_size \in 0 .. n
  BY <1>1, StorageLemma
<1>3. /\ p.m_maximumSize = n /\ p.m_first = o.m_first /\ p.m_size = o.m_size
      /\ p.m_data = [o.m_data EXCEPT ![j] = v]
  BY DEF Shape, Record
<1>4. ASSUME NEW i \in 0 .. o.m_size - 1
      PROVE  /\ to_buffer_index(o, i) = IF o.m_first + i < n THEN o.m_first + i ELSE o.m_first + i - n
             /\ to_buffer_index(o, i) \in DOMAIN o.m_data
             /\ to_buffer_index(p, i) = to_buffer_index(o, i)
  <2>1. i \in 0 .. n /\ DOMAIN o.m_data = 0 .. n - 1
    BY <1>2 DEF Shape
  <2> QED
    BY <1>2, <1>3, <2>1, WrapLemma DEF to_buffer_index
<1> HIDE DEF p
<1>5. ASSUME NEW i \in 1 .. o.m_size
      PROVE  element(p, i - 1) = IF i = k + 1 THEN v ELSE element(o, i - 1)
  <2>1. i - 1 \in 0 .. o.m_size - 1 /\ k \in 0 .. o.m_size - 1 /\ (i = k + 1 <=> i - 1 = k)
    BY <1>2
  <2>2. to_buffer_index(o, i - 1) = j <=> i - 1 = k
    BY <1>2, <1>4, <2>1
  <2> QED
    BY <1>3, <1>4, <2>1, <2>2 DEF element
<1>6. Ring(p) = [Ring(o) EXCEPT ![k + 1] = v]
  BY <1>3, <1>5 DEF Ring
<1> QED
  BY <1>6 DEF p

\* What front() and back() read are the first and the last of the sequence.
LEMMA EndsLemma ==
  ASSUME NEW o, Shape(o), ~empty(o)
  PROVE  /\ element(o, 0) = Ring(o)[1]
         /\ o.m_data[back_index(o)] = Ring(o)[Len(Ring(o))]
<1>1. o.m_size \in Nat /\ o.m_size # 0 /\ Len(Ring(o)) = o.m_size
  BY RingLemma DEF empty
<1>2. Ring(o)[1] = element(o, 1 - 1) /\ Ring(o)[o.m_size] = element(o, o.m_size - 1)
  BY <1>1, RingLemma
<1> QED
  BY <1>1, <1>2 DEF element, back_index

-----------------------------------------------------------------------------
(* The objects as the container sees them. *)

LEMMA SeenLemma ==
  ASSUME IInv
  PROVE  /\ \A b \in alive : /\ b \in Buffers /\ Shape(object[b]) /\ Tidy(object[b])
                            /\ content[b] = Ring(object[b])
                            /\ capacity[b] = object[b].m_maximumSize
         /\ \A b \in Buffers \ alive : content[b] = <<>> /\ capacity[b] = 0
<1>1. \A b \in alive : b \in Buffers /\ Shape(object[b]) /\ Tidy(object[b])
  BY DEF IInv, alive
<1>2. /\ \A b \in alive : content[b] = Ring(object[b]) /\ capacity[b] = object[b].m_maximumSize
      /\ \A b \in Buffers \ alive : content[b] = <<>> /\ capacity[b] = 0
  BY <1>1 DEF content, capacity, Ring
<1> QED
  BY <1>1, <1>2

\* b becomes an object of capacity n with the elements s.
Holds(b, n, s) == /\ capacity' = [capacity EXCEPT ![b] = n]
                  /\ content'  = [content EXCEPT ![b] = s]
                  /\ alive'    = alive \cup {b}

LEMMA SeenBecome ==
  ASSUME IInv, NilIsNoObject, NEW b \in Buffers, NEW o, Shape(o), Become(b, o)
  PROVE  Holds(b, o.m_maximumSize, Ring(o))
<1>1. o # Nil
  BY DEF NilIsNoObject
<1>2. object'[b] = o /\ \A d \in Buffers \ {b} : object'[d] = object[d]
  BY DEF IInv, Become
<1>3. alive' = alive \cup {b}
  BY <1>1, <1>2 DEF alive
<1>4. content' = [content EXCEPT ![b] = Ring(o)]
  BY <1>1, <1>2 DEF content, alive, Ring, element, to_buffer_index
<1>5. capacity' = [capacity EXCEPT ![b] = o.m_maximumSize]
  BY <1>1, <1>2 DEF capacity, alive
<1> QED
  BY <1>3, <1>4, <1>5 DEF Holds

\* b becomes o and c becomes p: in the ring, and as the container sees it.
BecomeBoth(b, o, c, p) == object' = [object EXCEPT ![b] = o, ![c] = p]
SeenBoth(b, o, c, p) ==
  /\ content'  = [content EXCEPT ![b] = Ring(o), ![c] = Ring(p)]
  /\ capacity' = [capacity EXCEPT ![b] = o.m_maximumSize, ![c] = p.m_maximumSize]
  /\ alive'    = alive \cup {b, c}

LEMMA SeenPair ==
  ASSUME IInv, NilIsNoObject, NEW b \in Buffers, NEW c \in Buffers, NEW o, NEW p, Shape(o), Shape(p),
         BecomeBoth(b, o, c, p)
  PROVE  SeenBoth(b, o, c, p)
<1>1. o # Nil /\ p # Nil
  BY DEF NilIsNoObject
<1>2. \A d \in Buffers : object'[d] = IF d = c THEN p ELSE IF d = b THEN o ELSE object[d]
  BY DEF IInv, BecomeBoth
<1>3. \A d \in Buffers :
        content'[d] = IF d = c THEN Ring(p) ELSE IF d = b THEN Ring(o) ELSE content[d]
  BY <1>1, <1>2 DEF content, alive, Ring, element, to_buffer_index
<1>4. \A d \in Buffers :
        capacity'[d] = IF d = c THEN p.m_maximumSize ELSE IF d = b THEN o.m_maximumSize ELSE capacity[d]
  BY <1>1, <1>2 DEF capacity, alive
<1>5. content' = [content EXCEPT ![b] = Ring(o), ![c] = Ring(p)]
  BY <1>3 DEF content
<1>6. capacity' = [capacity EXCEPT ![b] = o.m_maximumSize, ![c] = p.m_maximumSize]
  BY <1>4 DEF capacity
<1>7. alive' = alive \cup {b, c}
  BY <1>1, <1>2 DEF alive
<1> QED
  BY <1>5, <1>6, <1>7 DEF SeenBoth

LEMMA SeenKept ==
  ASSUME UNCHANGED object
  PROVE  UNCHANGED <<alive, content, capacity>>
BY DEF content, capacity, alive, element, to_buffer_index

LEMMA InitRefines == IteratorInit => Positions!PositionInit
BY DEF IteratorInit, Init, Positions!PositionInit, Positions!Init, content, capacity, position,
       alive, Done, Positions!Done

-----------------------------------------------------------------------------
(* The steps. *)

\* Every step of the buffers is one of the container.
LEMMA NextRefines ==
  ASSUME CopiesAreElements, NilIsNoObject, IInv, Next
  PROVE  Positions!Next
<1>0. /\ \A b \in alive : /\ b \in Buffers /\ Shape(object[b]) /\ Tidy(object[b])
                         /\ content[b] = Ring(object[b])
                         /\ capacity[b] = object[b].m_maximumSize
      /\ \A b \in Buffers \ alive : content[b] = <<>> /\ capacity[b] = 0
  BY SeenLemma
<1>a. ASSUME NEW b \in alive
      PROVE  /\ Len(content[b]) = object[b].m_size
             /\ empty(object[b]) <=> content[b] = <<>>
             /\ full(object[b]) <=> Len(content[b]) = capacity[b]
             /\ ~full(object[b]) <=> Len(content[b]) < capacity[b]
  BY <1>0, RingLemma DEF empty, full
<1>b. ASSUME NEW r, Leave(r)
      PROVE  /\ outcome' = r /\ UNCHANGED <<alive, content, capacity>>
             /\ Positions!Fail(r)
             /\ \A b \in alive : Positions!Inspect(b, r)
  BY <1>b, SeenKept DEF Leave, Positions!Fail, Positions!Inspect
<1>c. ASSUME NEW b \in Buffers, NEW n, NEW s, Holds(b, n, s)
      PROVE  /\ Positions!Hold(b, n, s)
             /\ alive' = alive \cup {b}
             /\ b \in alive => alive' = alive
  BY <1>c DEF Holds, Positions!Hold
<1>1. ASSUME NEW b \in Buffers, NEW n \in Capacities, Construct(b, n)
      PROVE  Positions!Next
  <2> SUFFICES Positions!Construct(b, n)
    BY DEF Positions!Next
  <2>1. CASE n = 0
    <3>1. b \notin alive /\ Leave(InvalidArgument)
      BY <1>1, <2>1 DEF Construct
    <3> QED
      BY <1>b, <2>1, <3>1 DEF Positions!Construct, InvalidArgument, Positions!InvalidArgument
  <2>2. CASE n # 0
    <3>1. b \notin alive /\ Become(b, Allocated(n)) /\ outcome' = Done
      BY <1>1, <2>2 DEF Construct
    <3>2. Shape(Allocated(n))
      BY AllocatedLemma DEF Sizes
    <3>3. Allocated(n).m_maximumSize = n /\ Ring(Allocated(n)) = <<>>
      BY <3>2, RingLemma DEF Allocated
    <3>4. Holds(b, n, <<>>)
      BY <3>1, <3>2, <3>3, SeenBecome
    <3> QED
      BY <1>c, <2>2, <3>1, <3>4 DEF Positions!Construct, Positions!Assign, Done, Positions!Done
  <2> QED
    BY <2>1, <2>2
<1>2. ASSUME NEW b \in Buffers, NEW v \in Values, Push(b, v)
      PROVE  Positions!Next
  <2> SUFFICES Positions!Push(b, v)
    BY DEF Positions!Next
  <2> DEFINE p == do_push(object[b], v)
  <2>1. b \in alive
    BY <1>2 DEF Push
  <2>2. CASE full(object[b])
    <3>1. Leave(LogicError)
      BY <1>2, <2>2 DEF Push
    <3> QED
      BY <1>a, <1>b, <2>1, <2>2, <3>1 DEF Positions!Push, LogicError, Positions!LogicError
  <2>3. CASE ~full(object[b])
    <3>1. Shape(object[b]) /\ Tidy(object[b]) /\ content[b] = Ring(object[b])
          /\ capacity[b] = object[b].m_maximumSize
      BY <1>0, <2>1
    <3>2. Shape(p)
      BY <2>3, <3>1, do_pushLemma
    <3>3. p.m_maximumSize = capacity[b]
      BY <3>1 DEF do_push, Shape, Record
    <3>4. Ring(p) = Append(content[b], v)
      <4>1. /\ p.m_size = object[b].m_size + 1
            /\ \A k \in 0 .. object[b].m_size - 1 : element(p, k) = element(object[b], k)
            /\ element(p, object[b].m_size) = v
        BY <2>3, <3>1, PushedLemma
      <4> HIDE DEF p
      <4>2. Ring(p) = Append(Ring(object[b]), v)
        BY <3>1, <3>2, <4>1, AppendLemma
      <4> QED
        BY <3>1, <4>2
    <3>5. Become(b, p) /\ outcome' = Done
      BY <1>2, <2>3 DEF Push
    <3> HIDE DEF p
    <3>6. Holds(b, capacity[b], Append(content[b], v))
      BY <3>2, <3>3, <3>4, <3>5, SeenBecome
    <3> QED
      BY <1>a, <1>c, <2>1, <2>3, <3>5, <3>6
         DEF Positions!Push, Positions!Assign, Done, Positions!Done
  <2> QED
    BY <2>2, <2>3
<1>3. ASSUME NEW b \in Buffers, Pop(b)
      PROVE  Positions!Next
  <2> SUFFICES Positions!Pop(b)
    BY DEF Positions!Next
  <2> DEFINE p == do_pop(object[b])
  <2>1. b \in alive
    BY <1>3 DEF Pop
  <2>2. CASE empty(object[b])
    <3>1. Leave(LogicError)
      BY <1>3, <2>2 DEF Pop
    <3> QED
      BY <1>a, <1>b, <2>1, <2>2, <3>1 DEF Positions!Pop, LogicError, Positions!LogicError
  <2>3. CASE ~empty(object[b])
    <3>1. Shape(object[b]) /\ Tidy(object[b]) /\ content[b] = Ring(object[b])
          /\ capacity[b] = object[b].m_maximumSize
      BY <1>0, <2>1
    <3>2. Shape(p)
      BY <2>3, <3>1, do_popLemma
    <3>3. p.m_maximumSize = capacity[b]
      BY <3>1 DEF do_pop, Shape, Record
    <3>4. Ring(p) = Tail(content[b])
      BY <2>3, <3>1, TailLemma
    <3>5. Become(b, p) /\ outcome' = Done
      BY <1>3, <2>3 DEF Pop
    <3> HIDE DEF p
    <3>6. Holds(b, capacity[b], Tail(content[b]))
      BY <3>2, <3>3, <3>4, <3>5, SeenBecome
    <3> QED
      BY <1>a, <1>c, <2>1, <2>3, <3>5, <3>6
         DEF Positions!Pop, Positions!Assign, Done, Positions!Done
  <2> QED
    BY <2>2, <2>3
<1>4. ASSUME NEW b \in Buffers, Front(b) \/ Back(b)
      PROVE  Positions!Next
  <2>1. b \in alive
    BY <1>4 DEF Front, Back
  <2>2. Shape(object[b]) /\ content[b] = Ring(object[b])
    BY <1>0, <2>1
  <2>3. ~empty(object[b]) =>
          /\ element(object[b], 0) = content[b][1]
          /\ object[b].m_data[back_index(object[b])] = content[b][Len(content[b])]
    BY <2>2, EndsLemma
  <2>4. ASSUME Front(b)
        PROVE  Positions!Front(b)
    BY <1>a, <1>b, <2>1, <2>3, <2>4
       DEF Front, Positions!Front, LogicError, Positions!LogicError, Result, Positions!Result
  <2>5. ASSUME Back(b)
        PROVE  Positions!Back(b)
    BY <1>a, <1>b, <2>1, <2>3, <2>5
       DEF Back, Positions!Back, LogicError, Positions!LogicError, Result, Positions!Result
  <2> QED
    BY <1>4, <2>4, <2>5 DEF Positions!Next
<1>5. ASSUME NEW b \in Buffers, Measure(b)
      PROVE  Positions!Next
  <2> DEFINE r == <<"state", <<empty(object[b]), full(object[b]), object[b].m_size>>>>
  <2>1. b \in alive /\ Leave(r)
    BY <1>5 DEF Measure
  <2> HIDE DEF r
  <2>2. Positions!Inspect(b, r)
    BY <1>b, <2>1
  <2>3. empty(object[b]) = (content[b] = <<>>)
    BY <1>a, <2>1 DEF empty
  <2>4. full(object[b]) = (Len(content[b]) = capacity[b])
    BY <1>a, <2>1 DEF full
  <2>5. object[b].m_size = Len(content[b])
    BY <1>a, <2>1
  <2>6. Positions!Measure(b)
    BY <2>2, <2>3, <2>4, <2>5, Zenon DEF Positions!Measure, r
  <2> QED
    BY <2>6 DEF Positions!Next
<1>6. ASSUME NEW b \in Buffers, Destroy(b)
      PROVE  Positions!Next
  <2>1. /\ b \in alive /\ outcome' = Done
        /\ object'[b] = Nil /\ \A d \in Buffers \ {b} : object'[d] = object[d]
    BY <1>6 DEF IInv, Destroy, Become
  <2>2. alive' = alive \ {b}
    BY <2>1 DEF alive
  <2>3. content' = [content EXCEPT ![b] = <<>>]
    <3>1. \A d \in Buffers : content'[d] = IF d = b THEN <<>> ELSE content[d]
      BY <2>1 DEF content, alive, element, to_buffer_index
    <3> QED
      BY <3>1 DEF content
  <2>4. capacity' = [capacity EXCEPT ![b] = 0]
    BY <2>1 DEF capacity, alive
  <2>5. Positions!Destroy(b)
    BY <2>1, <2>2, <2>3, <2>4
       DEF Positions!Destroy, Positions!Assign, Positions!Hold, Done, Positions!Done
  <2> QED
    BY <2>5 DEF Positions!Next
<1>d. ASSUME NEW b \in Buffers, NEW c \in alive, object[c].m_maximumSize # 0,
             Become(b, copy(object[c])), outcome' = Did("copied", b, c)
      PROVE  Positions!Copy(b, c)
  <2> DEFINE p == copy(object[c])
  <2>1. Shape(object[c]) /\ content[c] = Ring(object[c]) /\ capacity[c] = object[c].m_maximumSize
    BY <1>0
  <2>2. Shape(p) /\ p.m_maximumSize = capacity[c]
    BY <1>d, <2>1, copyLemma DEF copy, Allocated
  <2>3. Ring(p) = [i \in DOMAIN content[c] |-> CopyOf(content[c][i])]
    BY <1>d, <2>1, CopyLemma
  <2> HIDE DEF p
  <2>4. Become(b, p)
    BY <1>d DEF p
  <2>5. Holds(b, capacity[c], [i \in DOMAIN content[c] |-> CopyOf(content[c][i])])
    BY <2>2, <2>3, <2>4, SeenBecome
  <2> QED
    BY <1>c, <1>d, <2>1, <2>5 DEF Positions!Copy, Did, Positions!Did
<1>e. ASSUME NEW b \in Buffers, NEW c \in alive, object[c].m_maximumSize = 0,
             Leave(InvalidArgument)
      PROVE  Positions!Copy(b, c)
  BY <1>0, <1>b, <1>e DEF Positions!Copy, InvalidArgument, Positions!InvalidArgument
<1>7. ASSUME NEW b \in Buffers, NEW c \in Buffers, CopyConstruct(b, c)
      PROVE  Positions!Next
  <2>1. b \notin alive /\ c \in alive /\ Positions!Copy(b, c)
    BY <1>7, <1>d, <1>e DEF CopyConstruct
  <2> QED
    BY <2>1 DEF Positions!Next, Positions!CopyConstruct
<1>8. ASSUME NEW b \in Buffers, NEW c \in Buffers, CopyAssign(b, c)
      PROVE  Positions!Next
  <2> SUFFICES Positions!CopyAssign(b, c)
    BY DEF Positions!Next
  <2>1. b \in alive /\ c \in alive
    BY <1>8 DEF CopyAssign
  <2>2. CASE b = c
    <3>1. Leave(Did("copied", b, c))
      BY <1>8, <2>2 DEF CopyAssign
    <3> QED
      BY <1>b, <2>1, <2>2, <3>1 DEF Positions!CopyAssign, Did, Positions!Did
  <2>3. CASE b # c
    BY <1>8, <1>d, <1>e, <2>1, <2>3 DEF CopyAssign, Positions!CopyAssign
  <2> QED
    BY <2>2, <2>3
<1>9. ASSUME NEW b \in Buffers, NEW c \in Buffers, MoveConstruct(b, c)
      PROVE  Positions!Next
  <2> DEFINE z == Allocated(0)
  <2>1. b \notin alive /\ c \in alive /\ b # c /\ outcome' = Did("moved", b, c)
    BY <1>9 DEF MoveConstruct
  <2>2. BecomeBoth(b, object[c], c, z)
    BY <1>9 DEF MoveConstruct, BecomeBoth
  <2>3. Shape(z) /\ z.m_maximumSize = 0 /\ Ring(z) = <<>>
    <3>1. Shape(z)
      BY AllocatedLemma DEF Sizes
    <3> QED
      BY <3>1, RingLemma DEF Allocated
  <2>4. Shape(object[c]) /\ content[c] = Ring(object[c]) /\ capacity[c] = object[c].m_maximumSize
    BY <1>0, <2>1
  <2> HIDE DEF z
  <2>5. SeenBoth(b, object[c], c, z)
    BY <2>2, <2>3, <2>4, SeenPair
  <2>6. /\ content'  = [content EXCEPT ![b] = content[c], ![c] = <<>>]
        /\ capacity' = [capacity EXCEPT ![b] = capacity[c], ![c] = 0]
        /\ alive'    = alive \cup {b}
    BY <2>1, <2>3, <2>4, <2>5 DEF SeenBoth
  <2>7. Positions!MoveConstruct(b, c)
    BY <2>1, <2>6 DEF Positions!MoveConstruct, Did, Positions!Did
  <2> QED
    BY <2>7 DEF Positions!Next
<1>10. ASSUME NEW b \in Buffers, NEW c \in Buffers, Swap(b, c)
       PROVE  Positions!Next
  <2>1. b \in alive /\ c \in alive /\ outcome' = Did("swapped", b, c)
        /\ BecomeBoth(b, object[c], c, object[b])
    BY <1>10 DEF Swap, BecomeBoth
  <2>2. /\ Shape(object[c]) /\ content[c] = Ring(object[c]) /\ capacity[c] = object[c].m_maximumSize
        /\ Shape(object[b]) /\ content[b] = Ring(object[b]) /\ capacity[b] = object[b].m_maximumSize
    BY <1>0, <2>1
  <2>3. SeenBoth(b, object[c], c, object[b])
    BY <2>1, <2>2, SeenPair
  <2>4. /\ content'  = [content EXCEPT ![b] = content[c], ![c] = content[b]]
        /\ capacity' = [capacity EXCEPT ![b] = capacity[c], ![c] = capacity[b]]
        /\ alive'    = alive
    BY <2>1, <2>2, <2>3 DEF SeenBoth
  <2>5. Positions!Exchange(b, c)
    BY <2>1, <2>4 DEF Positions!Exchange, Did, Positions!Did
  <2> QED
    BY <2>5 DEF Positions!Next
<1>11. ASSUME NEW b \in Buffers, PushThrows(b)
       PROVE  Positions!Next
  <2>1. MayThrow /\ b \in alive /\ ~full(object[b]) /\ outcome' = ElementThrew
    BY <1>11 DEF PushThrows
  <2>2. Shape(object[b]) /\ Tidy(object[b]) /\ content[b] = Ring(object[b])
        /\ capacity[b] = object[b].m_maximumSize
    BY <1>0, <2>1
  <2>3. PICK p : p = [object[b] EXCEPT !.m_size = @ + 1]
    OBVIOUS
  <2>4. Become(b, p)
    BY <1>11, <2>3 DEF PushThrows
  <2>5. Shape(p)
    BY <2>1, <2>2, <2>3, CountLemma
  <2>6. /\ p.m_size = object[b].m_size + 1 /\ p.m_maximumSize = capacity[b]
        /\ \A k \in 0 .. object[b].m_size - 1 : element(p, k) = element(object[b], k)
        /\ element(p, object[b].m_size) = Nil
    BY <2>1, <2>2, <2>3, UnmadeLemma
  <2>7. Ring(p) = Append(content[b], Nil)
    <3>1. Ring(p) = Append(Ring(object[b]), Nil)
      BY <2>2, <2>5, <2>6, AppendLemma
    <3> QED
      BY <2>2, <3>1
  <2>8. Holds(b, capacity[b], Append(content[b], Nil))
    BY <2>4, <2>5, <2>6, <2>7, SeenBecome
  <2>9. Positions!PushFails(b)
    BY <1>a, <1>c, <2>1, <2>8 DEF Positions!PushFails, ElementThrew, Positions!ElementThrew
  <2> QED
    BY <2>9 DEF Positions!Next
<1>12. ASSUME NEW b \in Buffers, NEW c \in Buffers, NEW k, CopyThrows(b, c, k)
       PROVE  Positions!Next
  <2>1. /\ MayThrow /\ b # c /\ c \in alive /\ k \in 1 .. object[c].m_size
        /\ outcome' = ElementThrew /\ UNCHANGED object
    BY <1>12 DEF CopyThrows
  <2>2. content[c] # <<>>
    <3>1. ~empty(object[c])
      BY <2>1 DEF empty
    <3> QED
      BY <1>a, <2>1, <3>1
  <2>3. UNCHANGED <<alive, capacity, content>>
    BY <2>1, SeenKept
  <2>4. Positions!CopyFails(b, c)
    BY <2>1, <2>2, <2>3 DEF Positions!CopyFails, Positions!Fail, ElementThrew, Positions!ElementThrew
  <2> QED
    BY <2>4 DEF Positions!Next
<1> QED
  BY <1>1, <1>2, <1>3, <1>4, <1>5, <1>6, <1>7, <1>8, <1>9, <1>10, <1>11, <1>12 DEF Next

\* What an iterator is as a position.
LEMMA PositionLemma ==
  ASSUME NilIsNoPosition, IteratorInv, NEW i \in Iterators
  PROVE  /\ position[i] = Nil <=> iterator[i] = Nil
         /\ iterator[i] # Nil =>
              /\ position[i] = [of |-> iterator[i].m_buffer, offset |-> iterator[i].m_index]
              /\ iterator[i] = [m_buffer |-> iterator[i].m_buffer, m_index |-> iterator[i].m_index]
              /\ iterator[i].m_buffer \in alive /\ iterator[i].m_index \in Nat
              /\ position[i].of = iterator[i].m_buffer
              /\ position[i].offset = iterator[i].m_index
<1>1. iterator[i] # Nil => Sane(iterator[i])
  BY DEF IteratorInv, used
<1>2. iterator[i] # Nil =>
        /\ iterator[i] = [m_buffer |-> iterator[i].m_buffer, m_index |-> iterator[i].m_index]
        /\ iterator[i].m_buffer \in alive /\ iterator[i].m_index \in Nat
  BY <1>1, SizesLemma DEF Sane, IteratorRecord
<1>3. \A b, k : [of |-> b, offset |-> k].of = b /\ [of |-> b, offset |-> k].offset = k
  OBVIOUS
<1>4. /\ position[i] = Nil <=> iterator[i] = Nil
      /\ iterator[i] # Nil =>
           position[i] = [of |-> iterator[i].m_buffer, offset |-> iterator[i].m_index]
  BY DEF position, NilIsNoPosition
<1> QED
  BY <1>2, <1>3, <1>4

\* Every step is one of the positions or invisible to them.
LEMMA StepRefines ==
  ASSUME CopiesAreElements, NilIsNoObject, NilIsNoPosition,
         IteratorInv, [IteratorNext]_ivars
  PROVE  [Positions!PositionNext]_(Positions!pvars)
<1>0. /\ IInv
      /\ iterator = [i \in Iterators |-> iterator[i]]
      /\ \A b \in alive : /\ b \in Buffers /\ Shape(object[b])
                         /\ content[b] = Ring(object[b])
                         /\ capacity[b] = object[b].m_maximumSize
                         /\ Len(content[b]) = object[b].m_size /\ object[b].m_size \in Nat
  <2>1. IInv /\ iterator = [i \in Iterators |-> iterator[i]]
    BY DEF IteratorInv
  <2>2. \A b \in alive : /\ b \in Buffers /\ Shape(object[b])
                         /\ content[b] = Ring(object[b])
                         /\ capacity[b] = object[b].m_maximumSize
    BY <2>1, SeenLemma
  <2> QED
    BY <2>1, <2>2, RingLemma
<1>a. ASSUME NEW i \in Iterators, NEW b, NEW k, Position(i, b, k)
      PROVE  Positions!Move(i, b, k)
  <2>1. UNCHANGED <<alive, content, capacity>>
    BY <1>a, SeenKept DEF Position
  <2>2. \A j \in Iterators : iterator'[j] = IF j = i THEN [m_buffer |-> b, m_index |-> k] ELSE iterator[j]
    BY <1>0, <1>a DEF Position
  <2>3. \A j \in Iterators : position'[j] = IF j = i THEN [of |-> b, offset |-> k] ELSE position[j]
    BY <2>2 DEF position, NilIsNoPosition
  <2>4. position' = [position EXCEPT ![i] = [of |-> b, offset |-> k]]
    BY <2>3 DEF position
  <2> QED
    BY <1>a, <2>1, <2>4 DEF Position, Positions!Move, Done, Positions!Done
<1>b. ASSUME NEW r, Leave(r), UNCHANGED iterator
      PROVE  Positions!Answer(r)
  BY <1>b, SeenKept DEF Leave, Positions!Answer, position
<1>1. CASE UNCHANGED ivars
  BY <1>1, SeenKept DEF ivars, vars, Positions!pvars, Positions!vars, position
<1>2. CASE BufferStep
  <2>1. Positions!Next
    BY <1>0, <1>2, NextRefines DEF BufferStep
  <2>2. ASSUME NEW i \in Iterators
        PROVE  position'[i] = IF position[i] # Nil /\ position[i].of \notin alive'
                                THEN Nil ELSE position[i]
    <3>1. iterator'[i] = IF iterator[i] # Nil /\ object'[iterator[i].m_buffer] = Nil
                           THEN Nil ELSE iterator[i]
      BY <1>2 DEF BufferStep
    <3>2. iterator[i] # Nil => (object'[iterator[i].m_buffer] = Nil <=> iterator[i].m_buffer \notin alive')
      BY <1>0, PositionLemma DEF alive
    <3>3. position'[i] = IF iterator'[i] = Nil THEN Nil
                         ELSE [of |-> iterator'[i].m_buffer, offset |-> iterator'[i].m_index]
      BY DEF position
    <3>4. iterator[i] # Nil => position[i].of = iterator[i].m_buffer
      BY PositionLemma
    <3>5. position[i] = Nil <=> iterator[i] = Nil
      BY PositionLemma
    <3>6. position[i] = IF iterator[i] = Nil THEN Nil
                        ELSE [of |-> iterator[i].m_buffer, offset |-> iterator[i].m_index]
      BY DEF position
    <3> QED
      BY <3>1, <3>2, <3>3, <3>4, <3>5, <3>6
  <2>3. position' = [i \in Iterators |->
                       IF position[i] # Nil /\ position[i].of \notin alive' THEN Nil ELSE position[i]]
    BY <2>2 DEF position
  <2> QED
    BY <2>1, <2>3 DEF Positions!PositionNext, Positions!ContainerStep
<1>3. ASSUME NEW i \in Iterators, NEW b \in Buffers, Begin(i, b) \/ End(i, b)
      PROVE  Positions!PositionNext
  <2>1. b \in alive /\ (Position(i, b, 0) \/ Position(i, b, Len(content[b])))
    BY <1>0, <1>3 DEF Begin, End
  <2>2. Positions!Begin(i, b) \/ Positions!End(i, b)
    BY <1>a, <2>1 DEF Positions!Begin, Positions!End
  <2> QED
    BY <2>2 DEF Positions!PositionNext
<1>4. ASSUME NEW i \in Iterators, NEW j \in Iterators, NEW n \in Offsets \cup {1, -1}, Advance(i, j, n)
      PROVE  Positions!PositionNext
  <2> SUFFICES Positions!Advance(i, j, n)
    BY DEF Positions!PositionNext
  <2> DEFINE c == iterator[j].m_buffer
             k == iterator[j].m_index
  <2>1. /\ position[j] # Nil /\ position[j].of = c /\ position[j].offset = k
        /\ c \in alive /\ k \in Nat /\ n \in Int
    <3>1. n \in Int /\ iterator[j] # Nil
      BY <1>4, OffsetsAssumption DEF Advance
    <3> QED
      BY <3>1, PositionLemma
  <2>2. InRange(iterator[j], n) <=> (k + n >= 0 /\ k + n <= Len(content[c]))
    BY <1>0, <2>1 DEF InRange
  <2>3. CASE InRange(iterator[j], n)
    <3>1. Positions!Move(i, c, k + n)
      BY <1>4, <1>a, <2>3 DEF Advance
    <3> QED
      BY <2>1, <2>2, <2>3, <3>1 DEF Positions!Advance
  <2>4. CASE ~InRange(iterator[j], n)
    <3>1. Positions!Answer(OutOfRange)
      BY <1>4, <1>b, <2>4 DEF Advance, Fails
    <3> QED
      BY <2>1, <2>2, <2>4, <3>1 DEF Positions!Advance, OutOfRange, Positions!Outside
  <2> QED
    BY <2>3, <2>4
<1>c. ASSUME NEW i \in Iterators, iterator[i] # Nil
      PROVE  /\ position[i] # Nil /\ position[i].of = iterator[i].m_buffer
             /\ position[i].offset = iterator[i].m_index
             /\ iterator[i].m_buffer \in alive /\ iterator[i].m_index \in Nat
             /\ ValidPosition(iterator[i])
                  <=> iterator[i].m_index < Len(content[iterator[i].m_buffer])
  BY <1>0, <1>c, PositionLemma DEF ValidPosition
<1>5. ASSUME NEW i \in Iterators, Dereference(i)
      PROVE  Positions!PositionNext
  <2> SUFFICES Positions!Read(i)
    BY DEF Positions!PositionNext
  <2> DEFINE c == iterator[i].m_buffer
             k == iterator[i].m_index
  <2>1. iterator[i] # Nil
    BY <1>5 DEF Dereference
  <2>2. CASE ~ValidPosition(iterator[i])
    <3>1. Positions!Answer(OutOfRange)
      BY <1>5, <1>b, <2>2 DEF Dereference, Fails
    <3> QED
      BY <1>c, <2>1, <2>2, <3>1 DEF Positions!Read, OutOfRange, Positions!Outside
  <2>3. CASE ValidPosition(iterator[i])
    <3>1. Positions!Answer(Result(element(object[c], k)))
      BY <1>5, <1>b, <2>3 DEF Dereference, Yields
    <3>2. c \in alive /\ k \in Nat /\ k < Len(content[c])
      BY <1>c, <2>1, <2>3
    <3>3. Shape(object[c]) /\ content[c] = Ring(object[c]) /\ k + 1 \in 1 .. object[c].m_size
          /\ (k + 1) - 1 = k
      BY <1>0, <3>2
    <3>4. content[c][k + 1] = element(object[c], k)
      BY <3>3, RingLemma
    <3> QED
      BY <1>c, <2>1, <3>1, <3>2, <3>4 DEF Positions!Read, Result, Positions!Result
  <2> QED
    BY <2>2, <2>3
<1>6. ASSUME NEW i \in Iterators, NEW v \in Values, Overwrite(i, v)
      PROVE  Positions!PositionNext
  <2> SUFFICES Positions!Write(i, v)
    BY DEF Positions!PositionNext
  <2> DEFINE c == iterator[i].m_buffer
             k == iterator[i].m_index
             o == object[c]
             p == [o EXCEPT !.m_data[to_buffer_index(o, k)] = v]
  <2>1. iterator[i] # Nil
    BY <1>6 DEF Overwrite
  <2>2. CASE ~ValidPosition(iterator[i])
    <3>1. Positions!Answer(OutOfRange)
      BY <1>6, <1>b, <2>2 DEF Overwrite, Fails
    <3> QED
      BY <1>c, <2>1, <2>2, <3>1 DEF Positions!Write, OutOfRange, Positions!Outside
  <2>3. CASE ValidPosition(iterator[i])
    <3>1. /\ c \in alive /\ c \in Buffers /\ k \in Nat /\ k < Len(content[c]) /\ k < o.m_size
          /\ Shape(o) /\ content[c] = Ring(o) /\ capacity[c] = o.m_maximumSize
      BY <1>0, <1>c, <2>1, <2>3
    <3>2. Become(c, p) /\ outcome' = Done /\ UNCHANGED iterator
      BY <1>6, <2>3 DEF Overwrite
    <3>3. Shape(p)
      <4>1. Sound(o)
        BY <1>0, <3>1 DEF IInv, Sound
      <4> QED
        BY <3>1, <4>1, OverwriteLemma DEF Sound
    <3>4. Ring(p) = [content[c] EXCEPT ![k + 1] = v]
      <4>1. Ring(p) = [Ring(o) EXCEPT ![k + 1] = v]
        <5>1. Shape(o) /\ k \in Nat /\ k < o.m_size
          BY <3>1
        <5> HIDE DEF o, k
        <5> QED
          BY <5>1, ReplaceLemma
      <4> HIDE DEF p
      <4> QED
        BY <3>1, <4>1
    <3>5. p.m_maximumSize = capacity[c]
      BY <3>1 DEF Shape, Record
    <3> HIDE DEF p
    <3>6. Holds(c, capacity[c], [content[c] EXCEPT ![k + 1] = v])
      <4>1. c \in Buffers /\ Become(c, p)
        BY <3>1, <3>2
      <4> HIDE DEF c
      <4>2. Holds(c, p.m_maximumSize, Ring(p))
        BY <1>0, <3>3, <4>1, SeenBecome
      <4> QED
        BY <3>4, <3>5, <4>2, Zenon
    <3>7. Positions!Assign(c, capacity[c], [content[c] EXCEPT ![k + 1] = v])
      BY <3>2, <3>6 DEF Holds, Positions!Assign, Positions!Hold, Done, Positions!Done
    <3>8. UNCHANGED <<alive, position>>
      <4>1. alive' = alive
        BY <3>1, <3>6 DEF Holds
      <4>2. position' = position
        BY <3>2 DEF position
      <4> QED
        BY <4>1, <4>2
    <3> QED
      BY <1>c, <2>1, <3>1, <3>7, <3>8 DEF Positions!Write
  <2> QED
    BY <2>2, <2>3
<1>7. ASSUME NEW i \in Iterators, NEW j \in Iterators, Equal(i, j) \/ Less(i, j) \/ Difference(i, j)
      PROVE  Positions!PositionNext
  <2> SUFFICES Positions!Compare(i, j)
    BY DEF Positions!PositionNext
  <2>1. iterator[i] # Nil /\ iterator[j] # Nil
    BY <1>7 DEF Equal, Less, Difference
  <2>2. /\ position[i] # Nil /\ position[j] # Nil
        /\ SameBuffer(iterator[i], iterator[j]) <=> position[i].of = position[j].of
        /\ position[i].offset = iterator[i].m_index /\ position[j].offset = iterator[j].m_index
    BY <1>c, <2>1 DEF SameBuffer
  <2>3. (iterator[i] = iterator[j]) = (position[i] = position[j])
    <3>1. /\ position[i] = [of |-> iterator[i].m_buffer, offset |-> iterator[i].m_index]
          /\ position[j] = [of |-> iterator[j].m_buffer, offset |-> iterator[j].m_index]
          /\ iterator[i] = [m_buffer |-> iterator[i].m_buffer, m_index |-> iterator[i].m_index]
          /\ iterator[j] = [m_buffer |-> iterator[j].m_buffer, m_index |-> iterator[j].m_index]
      BY <2>1, PositionLemma
    <3>2. position[i] = position[j] => /\ iterator[i].m_buffer = iterator[j].m_buffer
                                       /\ iterator[i].m_index = iterator[j].m_index
      BY <1>c, <2>1
    <3>3. iterator[i] = iterator[j] => position[i] = position[j]
      BY <3>1
    <3>4. position[i] = position[j] => iterator[i] = iterator[j]
      BY <3>1, <3>2
    <3> QED
      BY <3>3, <3>4
  <2>4. ASSUME Equal(i, j)
        PROVE  Positions!Compare(i, j)
    <3>1. Positions!Answer(<<"bool", iterator[i] = iterator[j]>>)
      BY <1>b, <2>4 DEF Equal, Yields
    <3> QED
      BY <2>2, <2>3, <3>1, Zenon DEF Positions!Compare
  <2>5. ASSUME Less(i, j)
        PROVE  Positions!Compare(i, j)
    <3>1. CASE ~SameBuffer(iterator[i], iterator[j])
      BY <1>b, <2>2, <2>5, <3>1 DEF Less, Fails, Positions!Compare, LogicError, Positions!LogicError
    <3>2. CASE SameBuffer(iterator[i], iterator[j])
      <4>1. Positions!Answer(<<"bool", iterator[i].m_index < iterator[j].m_index>>)
        BY <1>b, <2>5, <3>2 DEF Less, Yields
      <4>2. (iterator[i].m_index < iterator[j].m_index) = (position[i].offset < position[j].offset)
        BY <2>2
      <4> QED
        BY <2>2, <3>2, <4>1, <4>2, Zenon DEF Positions!Compare
    <3> QED
      BY <3>1, <3>2
  <2>6. ASSUME Difference(i, j)
        PROVE  Positions!Compare(i, j)
    <3>1. CASE ~SameBuffer(iterator[i], iterator[j])
      BY <1>b, <2>2, <2>6, <3>1 DEF Difference, Fails, Positions!Compare, LogicError, Positions!LogicError
    <3>2. CASE SameBuffer(iterator[i], iterator[j])
      <4>1. Positions!Answer(<<"difference", iterator[i].m_index - iterator[j].m_index>>)
        BY <1>b, <2>6, <3>2 DEF Difference, Yields
      <4> QED
        BY <2>2, <3>2, <4>1 DEF Positions!Compare
    <3> QED
      BY <3>1, <3>2
  <2> QED
    BY <1>7, <2>4, <2>5, <2>6
<1> QED
  BY <1>1, <1>2, <1>3, <1>4, <1>5, <1>6, <1>7 DEF IteratorNext, Increment, Decrement

\* The buffers are sequences with value semantics and the iterators positions in
\* them, for any objects, capacities, iterators and offsets, and whichever
\* constructors throw: a push that fails adds an element which nobody made, a
\* copy that fails changes neither object.  The wrapped ring, the offset of an index from m_first and the range
\* checks cannot be told from the sequence, whatever happens between two uses of
\* an iterator.
THEOREM BufferImplementsPositions ==
  ASSUME CopiesAreElements, NilIsNoObject, NilIsNoPosition
  PROVE  IteratorSpec => ImplementsPositions
<1>1. IteratorInv /\ [IteratorNext]_ivars => [Positions!PositionNext]_(Positions!pvars)
  BY StepRefines
<1> QED
  BY <1>1, InitRefines, IteratorInvariance, PTL
     DEF IteratorSpec, Positions!PositionSpec, ImplementsPositions

=============================================================================
