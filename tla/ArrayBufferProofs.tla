-------------------------- MODULE ArrayBufferProofs --------------------------
(***************************************************************************)
(* Theorems about ArrayBuffer for any objects, elements and sizes, and for *)
(* any element operations, which may throw.                                *)
(***************************************************************************)
EXTENDS ArrayBuffer, Integers, Sequences, SequenceTheorems, TLAPS

\* o has the members of an object and no others.
Record(o) == o \in [Size : {o.Size}, m_first : {o.m_first},
                    m_size : {o.m_size}, m_data : {o.m_data}]

\* The members fit each other: what TypeOK says of one object.
Shape(o) ==
  /\ Record(o)
  /\ o.Size \in Sizes
  /\ o.m_size \in 0 .. o.Size
  /\ o.Size = 0 \/ o.m_first \in 0 .. o.Size - 1
  /\ DOMAIN o.m_data = 0 .. o.Size - 1

\* What the second theorem assumes: what stands for no object is not one.
NilIsNoObject == ~Shape(Nil)

\* The inductive invariant.
IInv == /\ DOMAIN object = Buffers /\ object = [b \in Buffers |-> object[b]]
        /\ \A b \in alive : Shape(object[b])

-----------------------------------------------------------------------------
(* One object. *)

\* An index wraps around at most once.
LEMMA WrapLemma ==
  ASSUME NEW n \in Nat \ {0}, NEW a \in 0 .. n - 1, NEW b \in 0 .. n
  PROVE  /\ (a + b) % n = IF a + b < n THEN a + b ELSE a + b - n
         /\ (a + b) % n \in 0 .. n - 1
BY SMT

LEMMA ConstructedLemma ==
  ASSUME NEW n \in Sizes
  PROVE  Shape(Constructed(n))
<1>1. n \in Nat
  BY SizesAssumption
<1> QED
  BY <1>1 DEF Shape, Constructed, Record

\* A buffer that is not full (not empty) has slots, and slot yields one of them.
LEMMA SlotLemma ==
  ASSUME NEW o, Shape(o), ~full(o) \/ ~empty(o)
  PROVE  /\ o.Size \in Nat \ {0}
         /\ o.m_first \in 0 .. o.Size - 1
         /\ o.m_size \in 0 .. o.Size
         /\ \A k \in 0 .. o.Size :
              /\ slot(o, k) = IF o.m_first + k < o.Size THEN o.m_first + k
                                                        ELSE o.m_first + k - o.Size
              /\ slot(o, k) \in 0 .. o.Size - 1
<1>1. o.Size \in Nat /\ o.m_size \in 0 .. o.Size
  BY SizesAssumption DEF Shape
<1>2. o.Size # 0
  BY <1>1 DEF full, empty
<1>3. o.Size \in Nat \ {0} /\ o.m_first \in 0 .. o.Size - 1
  BY <1>1, <1>2 DEF Shape
<1> QED
  BY <1>1, <1>3, WrapLemma DEF slot

\* push_index() leaves a well-formed object, and so does the assignment after it.
LEMMA PushLemma ==
  ASSUME NEW o, Shape(o), ~full(o)
  PROVE  /\ Shape(push_index(o).after)
         /\ \A v : Shape([push_index(o).after EXCEPT !.m_data[push_index(o).index] = v])
<1> DEFINE p == push_index(o).after
<1>1. /\ p.Size = o.Size /\ p.m_first = o.m_first /\ p.m_size = o.m_size + 1
      /\ p.m_data = o.m_data /\ Record(p)
  BY DEF push_index, Shape, Record
<1>2. o.m_size + 1 \in 0 .. o.Size
  BY SlotLemma DEF full
<1>3. Shape(p)
  BY <1>1, <1>2 DEF Shape
<1> HIDE DEF p
<1>4. ASSUME NEW v, NEW i
      PROVE  Shape([p EXCEPT !.m_data[i] = v])
  <2> DEFINE q == [p EXCEPT !.m_data[i] = v]
  <2>1. /\ q.Size = p.Size /\ q.m_first = p.m_first /\ q.m_size = p.m_size
        /\ DOMAIN q.m_data = DOMAIN p.m_data /\ Record(q)
    BY <1>3 DEF Shape, Record
  <2> QED
    BY <1>3, <2>1 DEF Shape
<1> QED
  BY <1>3, <1>4 DEF p

LEMMA PopLemma ==
  ASSUME NEW o, Shape(o), ~empty(o)
  PROVE  Shape([o EXCEPT !.m_first = slot(o, 1), !.m_size = @ - 1])
<1> DEFINE p == [o EXCEPT !.m_first = slot(o, 1), !.m_size = @ - 1]
<1>1. /\ p.Size = o.Size /\ p.m_first = slot(o, 1) /\ p.m_size = o.m_size - 1
      /\ p.m_data = o.m_data /\ Record(p)
  BY DEF Shape, Record
<1>2. o.m_size - 1 \in 0 .. o.Size /\ slot(o, 1) \in 0 .. o.Size - 1
  BY SlotLemma, 1 \in 0 .. o.Size DEF empty
<1> QED
  BY <1>1, <1>2 DEF Shape

\* Another content for the same slots.
LEMMA DataLemma ==
  ASSUME NEW o, Shape(o), NEW d, DOMAIN d = DOMAIN o.m_data
  PROVE  /\ Shape([o EXCEPT !.m_data = d])
         /\ DOMAIN [o EXCEPT !.m_data = d].m_data = DOMAIN o.m_data
<1> DEFINE p == [o EXCEPT !.m_data = d]
<1>1. /\ p.Size = o.Size /\ p.m_first = o.m_first /\ p.m_size = o.m_size
      /\ p.m_data = d /\ Record(p)
  BY DEF Shape, Record
<1> QED
  BY <1>1 DEF Shape

\* Copying and moving every slot.
LEMMA EachSlotLemma ==
  ASSUME NEW o, Shape(o)
  PROVE  /\ Shape(EachSlot(CopyOf, o))
         /\ Shape(EachSlot(MoveOf, o))
         /\ Shape(EachSlot(LeftOf, o))
BY DataLemma DEF EachSlot

-----------------------------------------------------------------------------
(* The steps. *)

LEMMA InitIInv == Init => IInv
BY DEF Init, IInv, alive

LEMMA BecomeLemma ==
  ASSUME IInv, NEW b \in Buffers, NEW o, Shape(o), Become(b, o)
  PROVE  IInv'
BY DEF IInv, Become, alive

LEMMA PairLemma ==
  ASSUME IInv, NEW b \in Buffers, NEW c \in Buffers, NEW o, NEW p, Shape(o), Shape(p),
         object' = [object EXCEPT ![b] = o, ![c] = p]
  PROVE  IInv'
<1>1. \A d \in Buffers : object'[d] = IF d = c THEN p ELSE IF d = b THEN o ELSE object[d]
  BY DEF IInv
<1> QED
  BY <1>1 DEF IInv, alive

LEMMA StepIInv == IInv /\ [Next]_vars => IInv'
<1> SUFFICES ASSUME IInv, [Next]_vars
             PROVE  IInv'
  OBVIOUS
<1>a. UNCHANGED object => IInv'
  BY DEF IInv, alive
<1>b. \A r : Leave(r) => IInv'
  BY <1>a DEF Leave
<1>c. \A b \in alive : b \in Buffers /\ Shape(object[b])
  BY DEF IInv, alive
<1>1. CASE UNCHANGED vars
  BY <1>1, <1>a DEF vars
<1>2. ASSUME NEW b \in Buffers, NEW n \in Sizes, Construct(b, n)
      PROVE  IInv'
  BY <1>2, ConstructedLemma, BecomeLemma DEF Construct
<1>3. ASSUME NEW b \in Buffers, NEW v \in Values, Push(b, v)
      PROVE  IInv'
  <2>1. CASE full(object[b])
    BY <1>3, <1>b, <2>1 DEF Push
  <2>2. CASE ~full(object[b])
    BY <1>3, <1>c, <2>2, PushLemma, BecomeLemma DEF Push
  <2> QED
    BY <2>1, <2>2
<1>4. ASSUME NEW b \in Buffers, PushThrows(b)
      PROVE  IInv'
  <2>1. Become(b, push_index(object[b]).after)
    BY <1>4 DEF PushThrows, Become
  <2> QED
    BY <1>4, <1>c, <2>1, PushLemma, BecomeLemma DEF PushThrows
<1>5. ASSUME NEW b \in Buffers, Pop(b)
      PROVE  IInv'
  <2>1. CASE empty(object[b])
    BY <1>5, <1>b, <2>1 DEF Pop
  <2>2. CASE ~empty(object[b])
    BY <1>5, <1>c, <2>2, PopLemma, BecomeLemma DEF Pop
  <2> QED
    BY <2>1, <2>2
<1>6. ASSUME NEW b \in Buffers, Front(b) \/ Back(b) \/ Measure(b)
      PROVE  IInv'
  BY <1>6, <1>b DEF Front, Back, Measure
<1>7. ASSUME NEW b \in Buffers, Destroy(b)
      PROVE  IInv'
  BY <1>7 DEF IInv, Destroy, Become, alive
<1>8. ASSUME NEW b \in Buffers, NEW c \in Buffers, CopyConstruct(b, c) \/ CopyAssign(b, c)
      PROVE  IInv'
  <2>1. c \in alive /\ Become(b, EachSlot(CopyOf, object[c]))
    BY <1>8 DEF CopyConstruct, CopyAssign, CopyFrom, SameType
  <2> QED
    BY <1>c, <2>1, EachSlotLemma, BecomeLemma
<1>9. ASSUME NEW b \in Buffers, NEW c \in Buffers, MoveConstruct(b, c) \/ MoveAssign(b, c)
      PROVE  IInv'
  <2>1. c \in alive /\ MoveFrom(b, c)
    BY <1>9 DEF MoveConstruct, MoveAssign, SameType
  <2>2. CASE b = c
    <3>1. Become(b, EachSlot(LeftOf, EachSlot(MoveOf, object[c])))
      BY <2>1, <2>2 DEF MoveFrom, Become
    <3> QED
      BY <1>c, <2>1, <3>1, EachSlotLemma, BecomeLemma
  <2>3. CASE b # c
    <3>1. object' = [object EXCEPT ![b] = EachSlot(MoveOf, object[c]),
                                   ![c] = EachSlot(LeftOf, object[c])]
      BY <2>1, <2>3 DEF MoveFrom
    <3> QED
      BY <1>c, <2>1, <3>1, EachSlotLemma, PairLemma
  <2> QED
    BY <2>2, <2>3
<1>10. ASSUME NEW b \in Buffers, NEW c \in Buffers, Swap(b, c)
       PROVE  IInv'
  <2>1. b \in alive /\ c \in alive
    BY <1>10 DEF Swap, SameType
  <2>2. CASE empty(object[b]) /\ empty(object[c])
    BY <1>10, <1>b, <2>2 DEF Swap
  <2>3. CASE ~(empty(object[b]) /\ empty(object[c]))
    <3>1. object' = [object EXCEPT ![b] = EachSlot(MoveOf, object[c]),
                                   ![c] = EachSlot(MoveOf, EachSlot(MoveOf, object[b]))]
      BY <1>10, <2>3 DEF Swap
    <3> QED
      BY <1>c, <2>1, <3>1, EachSlotLemma, PairLemma
  <2> QED
    BY <2>2, <2>3
<1>11. ASSUME NEW b \in Buffers, NEW c \in alive, NEW k, CopyAssignThrows(b, c, k)
       PROVE  IInv'
  <2> DEFINE d == [i \in DOMAIN object[c].m_data |->
                     IF i < k THEN CopyOf(object[c].m_data[i]) ELSE object[b].m_data[i]]
  <2>1. Become(b, [object[c] EXCEPT !.m_data = d])
    BY <1>11 DEF CopyAssignThrows, Become
  <2> QED
    BY <1>c, <2>1, DataLemma, BecomeLemma
<1> QED
  BY <1>1, <1>2, <1>3, <1>4, <1>5, <1>6, <1>7, <1>8, <1>9, <1>10, <1>11 DEF Next

-----------------------------------------------------------------------------
(* The theorems. *)

LEMMA Invariance == Spec => []IInv
BY InitIInv, StepIInv, PTL DEF Spec

\* Whichever sizes and element operations, throwing ones included, at() is never
\* given an index outside the array, and m_size stays within Size.
THEOREM TypeCorrect == Spec => []TypeOK
<1>1. IInv => TypeOK
  BY DEF IInv, Shape, TypeOK
<1> QED
  BY <1>1, Invariance, PTL

\* A push that succeeds touches the slot behind the window, and no other.
LEMMA PushedLemma ==
  ASSUME NEW o, Shape(o), ~full(o), NEW v
  PROVE  LET p == [push_index(o).after EXCEPT !.m_data[push_index(o).index] = v]
         IN  /\ p.m_size = o.m_size + 1
             /\ \A k \in 0 .. o.m_size - 1 :
                  slot(p, k) = slot(o, k) /\ p.m_data[slot(p, k)] = o.m_data[slot(o, k)]
<1> DEFINE p == [push_index(o).after EXCEPT !.m_data[push_index(o).index] = v]
           j == slot(o, o.m_size)
<1>1. /\ p.Size = o.Size /\ p.m_first = o.m_first /\ p.m_size = o.m_size + 1
      /\ p.m_data = [o.m_data EXCEPT ![j] = v]
  BY DEF push_index, Shape, Record
<1> HIDE DEF p
<1>2. ASSUME NEW k \in 0 .. o.m_size - 1
      PROVE  slot(p, k) = slot(o, k) /\ slot(o, k) \in 0 .. o.Size - 1 /\ slot(o, k) # j
  <2>1. slot(p, k) = slot(o, k)
    BY <1>1 DEF slot
  <2>2. o.m_size \in 0 .. o.Size - 1 /\ k \in 0 .. o.Size
    BY SlotLemma DEF full
  <2> QED
    BY <2>1, <2>2, SlotLemma
<1>3. \A k \in 0 .. o.m_size - 1 : p.m_data[slot(p, k)] = o.m_data[slot(o, k)]
  BY <1>1, <1>2 DEF Shape
<1> QED
  BY <1>1, <1>2, <1>3 DEF p

\* A push that succeeds, is refused or throws leaves every element that was there
\* in its place in the order, wherever the ring wraps around.
THEOREM PushKeepsElements ==
  ASSUME NilIsNoObject
  PROVE  Spec => EarlierElementsStay
<1> DEFINE Stays(b) == \A i \in DOMAIN content[b] : content'[b][i] = content[b][i]
<1>1. ASSUME IInv, NEW b \in Buffers, (\E v \in Values : Push(b, v)) \/ PushThrows(b)
      PROVE  Stays(b)
  <2> DEFINE o == object[b]
             Grown(p) == /\ p.m_size = o.m_size + 1
                         /\ \A k \in 0 .. o.m_size - 1 :
                              slot(p, k) = slot(o, k) /\ p.m_data[slot(p, k)] = o.m_data[slot(o, k)]
  <2>1. b \in alive /\ Shape(o) /\ o.m_size \in Nat
    <3>1. b \in alive
      BY <1>1 DEF Push, PushThrows
    <3>2. Shape(o)
      BY <1>1, <3>1 DEF IInv
    <3> QED
      BY <3>1, <3>2, SizesAssumption DEF Shape
  <2>2. content[b] = [i \in 1 .. o.m_size |-> o.m_data[slot(o, i - 1)]]
    BY <2>1 DEF content
  <2>3. CASE UNCHANGED object
    BY <2>3 DEF content, alive
  <2>4. ASSUME NEW p, Shape(p), Grown(p), Become(b, p)
        PROVE  Stays(b)
    <3>1. object'[b] = p /\ b \in alive'
      BY <1>1, <2>4 DEF IInv, Become, NilIsNoObject, alive
    <3>2. content'[b] = [i \in 1 .. p.m_size |-> p.m_data[slot(p, i - 1)]]
      BY <3>1 DEF content
    <3>3. \A i \in 1 .. o.m_size : i \in 1 .. p.m_size /\ i - 1 \in 0 .. o.m_size - 1
      BY <2>1, <2>4
    <3> QED
      BY <2>2, <2>4, <3>2, <3>3
  <2> HIDE DEF Stays
  <2>5. CASE \E v \in Values : Push(b, v)
    <3>1. PICK v \in Values : Push(b, v)
      BY <2>5
    <3>2. CASE full(o)
      BY <2>3, <3>1, <3>2 DEF Push, Leave
    <3>3. CASE ~full(o)
      <4> DEFINE p == [push_index(o).after EXCEPT !.m_data[push_index(o).index] = v]
      <4>1. Shape(p) /\ Grown(p)
        BY <2>1, <3>3, PushLemma, PushedLemma
      <4>2. Become(b, p)
        BY <3>1, <3>3 DEF Push
      <4> QED
        BY <2>4, <4>1, <4>2
    <3> QED
      BY <3>2, <3>3
  <2>6. CASE PushThrows(b)
    <3> DEFINE p == push_index(o).after
    <3>1. ~full(o) /\ Become(b, p)
      BY <2>6 DEF PushThrows, Become
    <3>2. /\ p.Size = o.Size /\ p.m_first = o.m_first /\ p.m_size = o.m_size + 1
          /\ p.m_data = o.m_data
      BY <2>1 DEF push_index, Shape, Record
    <3>3. Grown(p)
      BY <3>2 DEF slot
    <3>4. Shape(p)
      BY <2>1, <3>1, PushLemma
    <3> QED
      BY <2>4, <3>1, <3>3, <3>4
  <2> QED
    BY <1>1, <2>5, <2>6
<1>2. IInv /\ [Next]_vars =>
        [\A b \in Buffers : (\E v \in Values : Push(b, v)) \/ PushThrows(b) => Stays(b)]_vars
  BY <1>1
<1> QED
  BY <1>2, Invariance, PTL DEF Spec, EarlierElementsStay
-----------------------------------------------------------------------------
(***************************************************************************)
(* ArrayBuffer implements ArrayContainer: a ring over a std::array is a    *)
(* bounded sequence.                                                       *)
(***************************************************************************)

\* The elements of one object in ring order.
Ring(o) == [i \in 1 .. o.m_size |-> o.m_data[slot(o, i - 1)]]

\* The elements are a sequence of these.
Contained(o) == {Ring(o)[i] : i \in 1 .. o.m_size}

\* What stands for no object is no size either.
NilIsNoSize == Nil \notin Sizes

-----------------------------------------------------------------------------
(* The ring as a sequence. *)

LEMMA RingLemma ==
  ASSUME NEW o, Shape(o)
  PROVE  /\ Ring(o) \in Seq(Contained(o))
         /\ Len(Ring(o)) = o.m_size
         /\ o.m_size \in 0 .. o.Size /\ o.Size \in Nat
         /\ Ring(o) = <<>> <=> o.m_size = 0
         /\ \A i \in 1 .. o.m_size : Ring(o)[i] = o.m_data[slot(o, i - 1)]
<1>1. o.m_size \in 0 .. o.Size /\ o.Size \in Nat
  BY SizesAssumption DEF Shape
<1>2. \A i \in 1 .. o.m_size : Ring(o)[i] = o.m_data[slot(o, i - 1)]
  BY DEF Ring
<1>3. Ring(o) \in [1 .. o.m_size -> Contained(o)]
  BY DEF Ring, Contained
<1>4. Ring(o) \in Seq(Contained(o)) /\ Len(Ring(o)) = o.m_size
  BY <1>1, <1>3
<1>5. Ring(o) = <<>> <=> o.m_size = 0
  BY <1>4, EmptySeq
<1> QED
  BY <1>1, <1>2, <1>4, <1>5

\* The assignment behind the window appends.
LEMMA AppendLemma ==
  ASSUME NEW o, Shape(o), ~full(o), NEW v
  PROVE  Ring([push_index(o).after EXCEPT !.m_data[push_index(o).index] = v]) = Append(Ring(o), v)
<1> DEFINE p == [push_index(o).after EXCEPT !.m_data[push_index(o).index] = v]
           S == Contained(o) \cup Contained(p) \cup {v}
<1>1. Shape(p)
  BY PushLemma
<1>2. /\ p.m_size = o.m_size + 1
      /\ \A k \in 0 .. o.m_size - 1 :
           slot(p, k) = slot(o, k) /\ p.m_data[slot(p, k)] = o.m_data[slot(o, k)]
  BY PushedLemma
<1>3. p.m_data[slot(p, o.m_size)] = v
  <2>1. /\ p.Size = o.Size /\ p.m_first = o.m_first
        /\ p.m_data = [o.m_data EXCEPT ![slot(o, o.m_size)] = v]
    BY DEF push_index, Shape, Record
  <2>2. slot(p, o.m_size) = slot(o, o.m_size) /\ slot(o, o.m_size) \in DOMAIN o.m_data
    BY <2>1, SlotLemma DEF slot, Shape
  <2> QED
    BY <2>1, <2>2
<1> HIDE DEF p
<1>4. /\ Ring(p) \in Seq(S) /\ Len(Ring(p)) = o.m_size + 1
      /\ \A i \in 1 .. o.m_size + 1 : Ring(p)[i] = p.m_data[slot(p, i - 1)]
  BY <1>1, <1>2, RingLemma
<1>5. /\ Ring(o) \in Seq(S) /\ Len(Ring(o)) = o.m_size /\ o.m_size \in Nat
      /\ \A i \in 1 .. o.m_size : Ring(o)[i] = o.m_data[slot(o, i - 1)]
  BY RingLemma
<1>6. /\ Append(Ring(o), v) \in Seq(S) /\ Len(Append(Ring(o), v)) = o.m_size + 1
      /\ \A i \in 1 .. o.m_size : Append(Ring(o), v)[i] = Ring(o)[i]
      /\ Append(Ring(o), v)[o.m_size + 1] = v
  BY <1>5, AppendProperties, v \in S
<1>7. ASSUME NEW i \in 1 .. o.m_size + 1
      PROVE  Ring(p)[i] = Append(Ring(o), v)[i]
  <2>1. CASE i = o.m_size + 1
    BY <1>3, <1>4, <1>5, <1>6, <2>1
  <2>2. CASE i \in 1 .. o.m_size
    <3>1. i - 1 \in 0 .. o.m_size - 1
      BY <1>5, <2>2
    <3> QED
      BY <1>2, <1>4, <1>5, <1>6, <2>2, <3>1
  <2> QED
    BY <1>5, <2>1, <2>2
<1> HIDE DEF S
<1>8. Ring(p) = Append(Ring(o), v)
  BY <1>4, <1>6, <1>7, SeqEqual
<1> QED
  BY <1>8 DEF p

\* Moving m_first on removes the head.
LEMMA TailLemma ==
  ASSUME NEW o, Shape(o), ~empty(o)
  PROVE  Ring([o EXCEPT !.m_first = slot(o, 1), !.m_size = @ - 1]) = Tail(Ring(o))
<1> DEFINE p == [o EXCEPT !.m_first = slot(o, 1), !.m_size = @ - 1]
           S == Contained(o) \cup Contained(p)
           n == o.Size
<1>1. Shape(p)
  BY PopLemma
<1>2. /\ p.Size = n /\ p.m_first = slot(o, 1) /\ p.m_size = o.m_size - 1 /\ p.m_data = o.m_data
  BY DEF Shape, Record
<1> HIDE DEF p
<1>3. n \in Nat \ {0} /\ o.m_first \in 0 .. n - 1 /\ o.m_size \in 1 .. n
  BY SlotLemma DEF empty
<1>4. /\ Ring(p) \in Seq(S) /\ Len(Ring(p)) = o.m_size - 1
      /\ \A i \in 1 .. o.m_size - 1 : Ring(p)[i] = p.m_data[slot(p, i - 1)]
  BY <1>1, <1>2, RingLemma
<1>5. /\ Ring(o) \in Seq(S) /\ Len(Ring(o)) = o.m_size /\ Ring(o) # <<>>
      /\ \A i \in 1 .. o.m_size : Ring(o)[i] = o.m_data[slot(o, i - 1)]
  BY <1>3, RingLemma
<1>6. /\ Tail(Ring(o)) \in Seq(S) /\ Len(Tail(Ring(o))) = o.m_size - 1
      /\ \A i \in 1 .. o.m_size - 1 : Tail(Ring(o))[i] = Ring(o)[i + 1]
  BY <1>5, HeadTailProperties
<1>7. ASSUME NEW i \in 1 .. o.m_size - 1
      PROVE  Ring(p)[i] = Tail(Ring(o))[i]
  <2>1. i - 1 \in 0 .. n /\ i \in 0 .. n /\ 1 \in 0 .. n
    BY <1>3
  <2>2. /\ slot(o, 1) = IF o.m_first + 1 < n THEN o.m_first + 1 ELSE o.m_first + 1 - n
        /\ slot(o, i) = IF o.m_first + i < n THEN o.m_first + i ELSE o.m_first + i - n
        /\ slot(o, 1) \in 0 .. n - 1
    BY <2>1, SlotLemma
  <2>3. slot(p, i - 1) = IF slot(o, 1) + (i - 1) < n THEN slot(o, 1) + (i - 1)
                                                     ELSE slot(o, 1) + (i - 1) - n
    BY <1>2, <1>3, <2>1, <2>2, WrapLemma DEF slot
  <2>4. slot(p, i - 1) = slot(o, i)
    BY <1>3, <2>2, <2>3
  <2>5. i + 1 \in 1 .. o.m_size /\ (i + 1) - 1 = i
    BY <1>3
  <2> QED
    BY <1>2, <1>4, <1>5, <1>6, <2>4, <2>5
<1> HIDE DEF S
<1>8. Ring(p) = Tail(Ring(o))
  BY <1>4, <1>6, <1>7, SeqEqual
<1> QED
  BY <1>8 DEF p

\* Copying (moving) all slots copies (moves) the elements.
LEMMA EachLemma ==
  ASSUME NEW o, Shape(o)
  PROVE  /\ Ring(EachSlot(CopyOf, o)) = Container!Each(CopyOf, Ring(o))
         /\ Ring(EachSlot(MoveOf, o)) = Container!Each(MoveOf, Ring(o))
         /\ Ring(EachSlot(LeftOf, o)) = Container!Each(LeftOf, Ring(o))
         /\ EachSlot(CopyOf, o).Size = o.Size
         /\ EachSlot(MoveOf, o).Size = o.Size
         /\ EachSlot(LeftOf, o).Size = o.Size
<1>1. \A i \in 1 .. o.m_size : slot(o, i - 1) \in DOMAIN o.m_data
  <2>1. CASE full(o) /\ empty(o)
    BY <2>1 DEF empty
  <2>2. CASE ~full(o) \/ ~empty(o)
    <3>1. \A i \in 1 .. o.m_size : i - 1 \in 0 .. o.Size
      BY <2>2, SlotLemma
    <3> QED
      BY <2>2, <3>1, SlotLemma DEF Shape
  <2> QED
    BY <2>1, <2>2
<1>2. DOMAIN Ring(o) = 1 .. o.m_size
  BY DEF Ring
<1>3. ASSUME NEW d
      PROVE  LET p == [o EXCEPT !.m_data = d]
             IN  /\ p.Size = o.Size /\ p.m_size = o.m_size /\ p.m_data = d
                 /\ \A k : slot(p, k) = slot(o, k)
  BY DEF Shape, Record, slot
<1>4. ASSUME NEW d
      PROVE  Ring([o EXCEPT !.m_data = d]) = [i \in 1 .. o.m_size |-> d[slot(o, i - 1)]]
  BY <1>3 DEF Ring
<1>5. /\ Ring(EachSlot(CopyOf, o)) = Container!Each(CopyOf, Ring(o))
      /\ EachSlot(CopyOf, o).Size = o.Size
  <2> DEFINE d == [i \in DOMAIN o.m_data |-> CopyOf(o.m_data[i])]
  <2>1. EachSlot(CopyOf, o) = [o EXCEPT !.m_data = d]
    BY DEF EachSlot
  <2>2. Container!Each(CopyOf, Ring(o)) = [i \in 1 .. o.m_size |-> CopyOf(o.m_data[slot(o, i - 1)])]
    BY <1>2 DEF Container!Each, Ring
  <2>3. \A i \in 1 .. o.m_size : d[slot(o, i - 1)] = CopyOf(o.m_data[slot(o, i - 1)])
    BY <1>1
  <2> HIDE DEF d
  <2> QED
    BY <1>3, <1>4, <2>1, <2>2, <2>3
<1>6. /\ Ring(EachSlot(MoveOf, o)) = Container!Each(MoveOf, Ring(o))
      /\ EachSlot(MoveOf, o).Size = o.Size
  <2> DEFINE d == [i \in DOMAIN o.m_data |-> MoveOf(o.m_data[i])]
  <2>1. EachSlot(MoveOf, o) = [o EXCEPT !.m_data = d]
    BY DEF EachSlot
  <2>2. Container!Each(MoveOf, Ring(o)) = [i \in 1 .. o.m_size |-> MoveOf(o.m_data[slot(o, i - 1)])]
    BY <1>2 DEF Container!Each, Ring
  <2>3. \A i \in 1 .. o.m_size : d[slot(o, i - 1)] = MoveOf(o.m_data[slot(o, i - 1)])
    BY <1>1
  <2> HIDE DEF d
  <2> QED
    BY <1>3, <1>4, <2>1, <2>2, <2>3
<1>7. /\ Ring(EachSlot(LeftOf, o)) = Container!Each(LeftOf, Ring(o))
      /\ EachSlot(LeftOf, o).Size = o.Size
  <2> DEFINE d == [i \in DOMAIN o.m_data |-> LeftOf(o.m_data[i])]
  <2>1. EachSlot(LeftOf, o) = [o EXCEPT !.m_data = d]
    BY DEF EachSlot
  <2>2. Container!Each(LeftOf, Ring(o)) = [i \in 1 .. o.m_size |-> LeftOf(o.m_data[slot(o, i - 1)])]
    BY <1>2 DEF Container!Each, Ring
  <2>3. \A i \in 1 .. o.m_size : d[slot(o, i - 1)] = LeftOf(o.m_data[slot(o, i - 1)])
    BY <1>1
  <2> HIDE DEF d
  <2> QED
    BY <1>3, <1>4, <2>1, <2>2, <2>3
<1> QED
  BY <1>5, <1>6, <1>7

-----------------------------------------------------------------------------
(* The objects as the container sees them. *)

LEMMA SeenLemma ==
  ASSUME IInv, NilIsNoSize
  PROVE  /\ Container!alive = alive
         /\ \A b \in alive : /\ b \in Buffers /\ Shape(object[b])
                            /\ content[b] = Ring(object[b]) /\ sizeOf[b] = object[b].Size
         /\ \A b \in Buffers \ alive : content[b] = <<>> /\ sizeOf[b] = Nil
<1>1. \A b \in alive : b \in Buffers /\ Shape(object[b])
  BY DEF IInv, alive
<1>2. /\ \A b \in alive : content[b] = Ring(object[b]) /\ sizeOf[b] = object[b].Size
      /\ \A b \in Buffers \ alive : content[b] = <<>> /\ sizeOf[b] = Nil
  BY <1>1 DEF content, sizeOf, Ring
<1>3. \A b \in alive : sizeOf[b] # Nil
  BY <1>1, <1>2 DEF Shape, NilIsNoSize
<1>4. Container!alive = alive
  BY <1>2, <1>3 DEF Container!alive, alive
<1> QED
  BY <1>1, <1>2, <1>4

LEMMA SeenBecome ==
  ASSUME IInv, NilIsNoObject, NEW b \in Buffers, NEW o, Shape(o), Become(b, o)
  PROVE  Container!Become(b, o.Size, Ring(o))
<1>1. o # Nil
  BY DEF NilIsNoObject
<1>2. object'[b] = o /\ \A d \in Buffers \ {b} : object'[d] = object[d]
  BY DEF IInv, Become
<1>3. content' = [content EXCEPT ![b] = Ring(o)]
  BY <1>1, <1>2 DEF content, alive, Ring, slot
<1>4. sizeOf' = [sizeOf EXCEPT ![b] = o.Size]
  BY <1>1, <1>2 DEF sizeOf, alive
<1> QED
  BY <1>3, <1>4 DEF Container!Become

\* b becomes o and c becomes p: in the ring, and as the container sees it.
BecomeBoth(b, o, c, p) == object' = [object EXCEPT ![b] = o, ![c] = p]
SeenBoth(b, o, c, p) == /\ content' = [content EXCEPT ![b] = Ring(o), ![c] = Ring(p)]
                        /\ sizeOf'  = [sizeOf EXCEPT ![b] = o.Size, ![c] = p.Size]

LEMMA SeenPair ==
  ASSUME IInv, NilIsNoObject, NEW b \in Buffers, NEW c \in Buffers, NEW o, NEW p, Shape(o), Shape(p),
         BecomeBoth(b, o, c, p)
  PROVE  SeenBoth(b, o, c, p)
<1>1. o # Nil /\ p # Nil
  BY DEF NilIsNoObject
<1>2. \A d \in Buffers : object'[d] = IF d = c THEN p ELSE IF d = b THEN o ELSE object[d]
  BY DEF IInv, BecomeBoth
<1>3. \A d \in Buffers :
        content'[d] = IF d = c THEN Ring(p) ELSE IF d = b THEN Ring(o) ELSE content[d]
  BY <1>1, <1>2 DEF content, alive, Ring, slot
<1>4. \A d \in Buffers :
        sizeOf'[d] = IF d = c THEN p.Size ELSE IF d = b THEN o.Size ELSE sizeOf[d]
  BY <1>1, <1>2 DEF sizeOf, alive
<1>5. content' = [content EXCEPT ![b] = Ring(o), ![c] = Ring(p)]
  BY <1>3 DEF content
<1>6. sizeOf' = [sizeOf EXCEPT ![b] = o.Size, ![c] = p.Size]
  BY <1>4 DEF sizeOf
<1> QED
  BY <1>5, <1>6 DEF SeenBoth

LEMMA SeenKept ==
  ASSUME UNCHANGED object
  PROVE  UNCHANGED <<content, sizeOf>>
BY DEF content, sizeOf, alive, slot

LEMMA InitRefines == Init => Container!Init
BY DEF Init, Container!Init, content, sizeOf, alive, Done, Container!Done

\* The element that front() (back()) reads is the first (last) of the sequence.
LEMMA EndsLemma ==
  ASSUME NEW o, Shape(o), ~empty(o)
  PROVE  /\ o.m_data[o.m_first] = Ring(o)[1]
         /\ o.m_data[back_index(o)] = Ring(o)[Len(Ring(o))]
<1>1. o.Size \in Nat \ {0} /\ o.m_first \in 0 .. o.Size - 1 /\ o.m_size \in 1 .. o.Size
  BY SlotLemma DEF empty
<1>2. slot(o, 0) = o.m_first
  BY <1>1, SlotLemma, 0 \in 0 .. o.Size
<1>3. /\ Ring(o)[1] = o.m_data[slot(o, 1 - 1)]
      /\ Ring(o)[o.m_size] = o.m_data[slot(o, o.m_size - 1)] /\ Len(Ring(o)) = o.m_size
  BY <1>1, RingLemma
<1> QED
  BY <1>2, <1>3 DEF back_index

-----------------------------------------------------------------------------
(* The steps. *)

\* Every step of the ring is a step of the container or invisible to it.
LEMMA StepRefines ==
  ASSUME NilIsNoObject, NilIsNoSize, IInv, [Next]_vars
  PROVE  [Container!Next]_(Container!vars)
<1>0. /\ Container!alive = alive
      /\ \A b \in alive : /\ b \in Buffers /\ Shape(object[b])
                         /\ content[b] = Ring(object[b]) /\ sizeOf[b] = object[b].Size
      /\ \A b \in Buffers \ alive : content[b] = <<>> /\ sizeOf[b] = Nil
  BY SeenLemma
<1>a. ASSUME NEW b \in alive
      PROVE  /\ Len(content[b]) = object[b].m_size
             /\ empty(object[b]) <=> content[b] = <<>>
             /\ full(object[b]) <=> Len(content[b]) = sizeOf[b]
             /\ ~full(object[b]) <=> Len(content[b]) < sizeOf[b]
  BY <1>0, RingLemma DEF empty, full
<1>b. ASSUME NEW b \in alive, NEW r, Leave(r)
      PROVE  Container!Inspect(b, r)
  BY <1>0, <1>b, SeenKept DEF Leave, Container!Inspect
<1>1. CASE UNCHANGED vars
  BY <1>1, SeenKept DEF vars, Container!vars
<1>2. ASSUME NEW b \in Buffers, NEW n \in Sizes, Construct(b, n)
      PROVE  Container!Next
  <2>1. Container!Become(b, Constructed(n).Size, Ring(Constructed(n)))
    BY <1>2, ConstructedLemma, SeenBecome DEF Construct
  <2>2. Constructed(n).Size = n /\ Ring(Constructed(n)) = <<>>
    BY ConstructedLemma, RingLemma DEF Constructed
  <2>3. Container!Construct(b, n)
    BY <1>0, <1>2, <2>1, <2>2 DEF Construct, Container!Construct, Done, Container!Done
  <2> QED
    BY <2>3 DEF Container!Next
<1>3. ASSUME NEW b \in Buffers, NEW v \in Values, Push(b, v)
      PROVE  Container!Next
  <2> SUFFICES Container!Push(b, v)
    BY DEF Container!Next
  <2> DEFINE p == [push_index(object[b]).after EXCEPT !.m_data[push_index(object[b]).index] = v]
  <2>1. b \in alive
    BY <1>3 DEF Push
  <2>2. CASE full(object[b])
    BY <1>0, <1>3, <1>a, <1>b, <2>1, <2>2
       DEF Push, Container!Push, LogicError, Container!LogicError
  <2>3. CASE ~full(object[b])
    <3>1. Shape(p) /\ Ring(p) = Append(content[b], v)
      <4>1. Shape(object[b]) /\ content[b] = Ring(object[b])
        BY <1>0, <2>1
      <4>2. Shape(p)
        BY <2>3, <4>1, PushLemma
      <4>3. Ring(p) = Append(Ring(object[b]), v)
        BY <2>3, <4>1, AppendLemma
      <4> QED
        BY <4>1, <4>2, <4>3
    <3>2. p.Size = sizeOf[b]
      BY <1>0, <2>1 DEF push_index, Shape, Record
    <3>3. Become(b, p) /\ outcome' = Done
      BY <1>3, <2>3 DEF Push
    <3> HIDE DEF p
    <3>4. Container!Become(b, sizeOf[b], Append(content[b], v))
      BY <3>1, <3>2, <3>3, SeenBecome
    <3> QED
      BY <1>0, <1>a, <2>1, <2>3, <3>3, <3>4 DEF Container!Push, Done, Container!Done
  <2> QED
    BY <2>2, <2>3
<1>4. ASSUME NEW b \in Buffers, PushThrows(b)
      PROVE  Container!Next
  <2> DEFINE o == object[b]
             p == push_index(o).after
  <2>1. b \in alive /\ ~full(o) /\ Shape(o)
    BY <1>0, <1>4 DEF PushThrows
  <2>2. Become(b, p)
    BY <1>4 DEF PushThrows, Become
  <2>3. Shape(p)
    BY <2>1, PushLemma
  <2>4. /\ p.Size = o.Size /\ p.m_first = o.m_first /\ p.m_size = o.m_size + 1
        /\ p.m_data = o.m_data
    BY <2>1 DEF push_index, Shape, Record
  <2> HIDE DEF p
  <2>5. Container!Become(b, sizeOf[b], Ring(p))
    BY <1>0, <2>1, <2>2, <2>3, <2>4, SeenBecome
  <2>6. Len(Ring(p)) = Len(content[b]) + 1
    BY <1>a, <2>1, <2>3, <2>4, RingLemma
  <2>7. ASSUME NEW i \in DOMAIN content[b]
        PROVE  Ring(p)[i] = content[b][i]
    <3>1. content[b] = [k \in 1 .. o.m_size |-> o.m_data[slot(o, k - 1)]] /\ o.m_size \in Nat
      <4>1. content[b] = Ring(o)
        BY <1>0, <2>1
      <4>2. o.m_size \in 0 .. o.Size /\ o.Size \in Nat
        BY <2>1, RingLemma
      <4> QED
        BY <4>1, <4>2 DEF Ring
    <3>2. i \in 1 .. o.m_size
      BY <3>1
    <3>3. i \in 1 .. p.m_size /\ slot(p, i - 1) = slot(o, i - 1)
      BY <2>4, <3>1, <3>2 DEF slot
    <3> QED
      BY <2>4, <3>1, <3>2, <3>3 DEF Ring
  <2>8. content' = [content EXCEPT ![b] = Ring(p)] /\ content'[b] = Ring(p) /\ UNCHANGED sizeOf
    BY <2>5 DEF Container!Become, content, sizeOf
  <2>9. Container!PushFails(b)
    BY <1>0, <1>4, <1>a, <2>1, <2>6, <2>7, <2>8
       DEF PushThrows, Container!PushFails, Container!Fails, ElementThrew, Container!ElementThrew
  <2> QED
    BY <2>9 DEF Container!Next
<1>5. ASSUME NEW b \in Buffers, Pop(b)
      PROVE  Container!Next
  <2> SUFFICES Container!Pop(b)
    BY DEF Container!Next
  <2> DEFINE p == [object[b] EXCEPT !.m_first = slot(object[b], 1), !.m_size = @ - 1]
  <2>1. b \in alive
    BY <1>5 DEF Pop
  <2>2. CASE empty(object[b])
    BY <1>0, <1>5, <1>a, <1>b, <2>1, <2>2 DEF Pop, Container!Pop, LogicError, Container!LogicError
  <2>3. CASE ~empty(object[b])
    <3>1. Shape(p) /\ Ring(p) = Tail(content[b])
      BY <1>0, <2>1, <2>3, PopLemma, TailLemma
    <3>2. p.Size = sizeOf[b]
      BY <1>0, <2>1 DEF Shape, Record
    <3>3. Become(b, p) /\ outcome' = Done
      BY <1>5, <2>3 DEF Pop
    <3> HIDE DEF p
    <3>4. Container!Become(b, sizeOf[b], Tail(content[b]))
      BY <3>1, <3>2, <3>3, SeenBecome
    <3> QED
      BY <1>0, <1>a, <2>1, <2>3, <3>3, <3>4 DEF Container!Pop, Done, Container!Done
  <2> QED
    BY <2>2, <2>3
<1>6. ASSUME NEW b \in Buffers, Front(b)
      PROVE  Container!Next
  <2>1. b \in alive /\ (~empty(object[b]) => object[b].m_data[object[b].m_first] = content[b][1])
    BY <1>0, <1>6, EndsLemma DEF Front
  <2>2. Container!Front(b)
    BY <1>6, <1>a, <1>b, <2>1 DEF Front, Container!Front, LogicError, Container!LogicError
  <2> QED
    BY <2>2 DEF Container!Next
<1>7. ASSUME NEW b \in Buffers, Back(b)
      PROVE  Container!Next
  <2>1. /\ b \in alive
        /\ ~empty(object[b]) =>
             object[b].m_data[back_index(object[b])] = content[b][Len(content[b])]
    BY <1>0, <1>7, EndsLemma DEF Back
  <2>2. Container!Back(b)
    BY <1>7, <1>a, <1>b, <2>1 DEF Back, Container!Back, LogicError, Container!LogicError
  <2> QED
    BY <2>2 DEF Container!Next
<1>8. ASSUME NEW b \in Buffers, Measure(b)
      PROVE  Container!Next
  <2>1. b \in alive /\ Leave(<<"state", <<empty(object[b]), full(object[b]), object[b].m_size>>>>)
    BY <1>8 DEF Measure
  <2>2. Container!Inspect(b, <<"state", <<empty(object[b]), full(object[b]), object[b].m_size>>>>)
    BY <1>b, <2>1
  <2>3. empty(object[b]) = (content[b] = <<>>)
    BY <1>a, <2>1 DEF empty
  <2>4. full(object[b]) = (Len(content[b]) = sizeOf[b])
    BY <1>a, <2>1 DEF full
  <2>5. object[b].m_size = Len(content[b])
    BY <1>a, <2>1
  <2>6. Container!Measure(b)
    BY <2>2, <2>3, <2>4, <2>5, Zenon DEF Container!Measure
  <2> QED
    BY <2>6 DEF Container!Next
<1>9. ASSUME NEW b \in Buffers, Destroy(b)
      PROVE  Container!Next
  <2>1. object'[b] = Nil /\ \A d \in Buffers \ {b} : object'[d] = object[d]
    BY <1>9 DEF IInv, Destroy, Become
  <2>2. content' = [content EXCEPT ![b] = <<>>] /\ sizeOf' = [sizeOf EXCEPT ![b] = Nil]
    BY <2>1 DEF content, sizeOf, alive, slot
  <2>3. Container!Destroy(b)
    BY <1>0, <1>9, <2>2 DEF Destroy, Container!Destroy, Container!Become, Done, Container!Done
  <2> QED
    BY <2>3 DEF Container!Next
<1>10. ASSUME NEW b \in Buffers, NEW c \in Buffers, CopyConstruct(b, c) \/ CopyAssign(b, c)
       PROVE  Container!Next
  <2>1. /\ c \in alive /\ CopyFrom(b, c)
        /\ b \notin alive \/ (b \in alive /\ object[b].Size = object[c].Size)
    <3>1. CASE CopyConstruct(b, c)
      BY <3>1 DEF CopyConstruct
    <3>2. CASE CopyAssign(b, c)
      BY <3>2 DEF CopyAssign, SameType
    <3> QED
      BY <1>10, <3>1, <3>2
  <2>2. Container!Target(b, c)
    BY <1>0, <2>1 DEF Container!Target
  <2>3. Container!Become(b, sizeOf[c], Container!Each(CopyOf, content[c]))
    <3> DEFINE m == EachSlot(CopyOf, object[c])
    <3>1. Shape(m) /\ m.Size = sizeOf[c] /\ Ring(m) = Container!Each(CopyOf, content[c])
      BY <1>0, <2>1, EachSlotLemma, EachLemma
    <3>2. Become(b, m)
      BY <2>1 DEF CopyFrom
    <3> HIDE DEF m
    <3> QED
      BY <3>1, <3>2, SeenBecome
  <2>4. Container!Copy(b, c)
    BY <2>1, <2>2, <2>3 DEF CopyFrom, Container!Copy, Did, Container!Did
  <2> QED
    BY <2>4 DEF Container!Next
<1>11. ASSUME NEW b \in Buffers, NEW c \in Buffers, MoveConstruct(b, c) \/ MoveAssign(b, c)
       PROVE  Container!Next
  <2> SUFFICES Container!Move(b, c)
    BY DEF Container!Next
  <2>1. /\ c \in alive /\ MoveFrom(b, c)
        /\ b \notin alive \/ (b \in alive /\ object[b].Size = object[c].Size)
    <3>1. CASE MoveConstruct(b, c)
      BY <3>1 DEF MoveConstruct
    <3>2. CASE MoveAssign(b, c)
      BY <3>2 DEF MoveAssign, SameType
    <3> QED
      BY <1>11, <3>1, <3>2
  <2>2. Container!Target(b, c)
    BY <1>0, <2>1 DEF Container!Target
  <2> DEFINE m == EachSlot(MoveOf, object[c])
             l == EachSlot(LeftOf, object[c])
  <2>3. /\ Shape(m) /\ m.Size = sizeOf[c] /\ Ring(m) = Container!Each(MoveOf, content[c])
        /\ Shape(l) /\ l.Size = sizeOf[c] /\ Ring(l) = Container!Each(LeftOf, content[c])
    BY <1>0, <2>1, EachSlotLemma, EachLemma
  <2>4. CASE b = c
    <3>1. Become(b, EachSlot(LeftOf, m))
      BY <2>1, <2>4 DEF MoveFrom, Become
    <3> HIDE DEF m
    <3>2. /\ Shape(EachSlot(LeftOf, m)) /\ EachSlot(LeftOf, m).Size = sizeOf[c]
          /\ Ring(EachSlot(LeftOf, m)) = Container!Each(LeftOf, Ring(m))
      BY <2>3, EachSlotLemma, EachLemma
    <3>3. Container!Become(b, sizeOf[c], Container!Each(LeftOf, Container!Each(MoveOf, content[b])))
      BY <2>3, <2>4, <3>1, <3>2, SeenBecome
    <3> QED
      BY <2>1, <2>2, <2>4, <3>3
         DEF MoveFrom, Container!Become, Container!Move, Did, Container!Did
  <2>5. CASE b # c
    <3>1. BecomeBoth(b, m, c, l)
      BY <2>1, <2>5 DEF MoveFrom, BecomeBoth
    <3> HIDE DEF m, l
    <3>2. /\ content' = [content EXCEPT ![b] = Ring(m), ![c] = Ring(l)]
          /\ sizeOf' = [sizeOf EXCEPT ![b] = m.Size, ![c] = l.Size]
      <4>1. SeenBoth(b, m, c, l)
        BY <2>3, <3>1, SeenPair
      <4> QED
        BY <4>1 DEF SeenBoth
    <3>3. sizeOf' = [sizeOf EXCEPT ![b] = sizeOf[c]]
      BY <2>3, <3>2 DEF sizeOf
    <3>4. content' = [content EXCEPT ![b] = Container!Each(MoveOf, content[c]),
                                     ![c] = Container!Each(LeftOf, @)]
      BY <2>3, <2>5, <3>2 DEF content
    <3> QED
      BY <2>1, <2>2, <2>5, <3>3, <3>4 DEF MoveFrom, Container!Move, Did, Container!Did
  <2> QED
    BY <2>4, <2>5
<1>12. ASSUME NEW b \in Buffers, NEW c \in Buffers, Swap(b, c)
       PROVE  Container!Next
  <2> SUFFICES Container!Exchange(b, c)
    BY DEF Container!Next
  <2>1. /\ b \in alive /\ c \in alive /\ sizeOf[b] = sizeOf[c]
        /\ outcome' = Did("swapped", b, c)
    BY <1>0, <1>12 DEF Swap, SameType, Leave
  <2>2. CASE empty(object[b]) /\ empty(object[c])
    <3>1. UNCHANGED <<content, sizeOf>>
      BY <1>12, <2>2, SeenKept DEF Swap, Leave
    <3>2. content[b] = <<>> /\ content[c] = <<>>
      BY <1>a, <2>1, <2>2
    <3>3. Container!Each(MoveOf, <<>>) = <<>>
      BY DEF Container!Each
    <3>4. content' = [content EXCEPT ![b] = Container!Each(MoveOf, content[c]),
                           ![c] = Container!Each(MoveOf, Container!Each(MoveOf, content[b]))]
      BY <3>1, <3>2, <3>3 DEF content
    <3> QED
      BY <1>0, <2>1, <3>1, <3>4 DEF Container!Exchange, Did, Container!Did
  <2>3. CASE ~(empty(object[b]) /\ empty(object[c]))
    <3> DEFINE m == EachSlot(MoveOf, object[b])
               o == EachSlot(MoveOf, object[c])
               p == EachSlot(MoveOf, m)
    <3>1. BecomeBoth(b, o, c, p)
      BY <1>12, <2>3 DEF Swap, BecomeBoth
    <3>2. /\ Shape(o) /\ o.Size = sizeOf[c] /\ Ring(o) = Container!Each(MoveOf, content[c])
          /\ Shape(m) /\ m.Size = sizeOf[b] /\ Ring(m) = Container!Each(MoveOf, content[b])
      BY <1>0, <2>1, EachSlotLemma, EachLemma
    <3> HIDE DEF m, o
    <3>3. /\ Shape(p) /\ p.Size = sizeOf[b]
          /\ Ring(p) = Container!Each(MoveOf, Container!Each(MoveOf, content[b]))
      BY <3>2, EachSlotLemma, EachLemma
    <3> HIDE DEF p
    <3>4. /\ content' = [content EXCEPT ![b] = Ring(o), ![c] = Ring(p)]
          /\ sizeOf' = [sizeOf EXCEPT ![b] = o.Size, ![c] = p.Size]
      <4>1. SeenBoth(b, o, c, p)
        BY <3>1, <3>2, <3>3, SeenPair
      <4> QED
        BY <4>1 DEF SeenBoth
    <3>5. UNCHANGED sizeOf
      BY <2>1, <3>2, <3>3, <3>4 DEF sizeOf
    <3> QED
      BY <1>0, <2>1, <3>2, <3>3, <3>4, <3>5 DEF Container!Exchange, Did, Container!Did
  <2> QED
    BY <2>2, <2>3
<1>13. ASSUME NEW b \in Buffers, NEW c \in Buffers, NEW k, CopyAssignThrows(b, c, k)
       PROVE  Container!Next
  <2> DEFINE d == [i \in DOMAIN object[c].m_data |->
                     IF i < k THEN CopyOf(object[c].m_data[i]) ELSE object[b].m_data[i]]
             p == [object[c] EXCEPT !.m_data = d]
  <2>1. b \in alive /\ c \in alive /\ sizeOf[b] = sizeOf[c]
    BY <1>0, <1>13 DEF CopyAssignThrows, SameType
  <2>2. Become(b, p)
    BY <1>13 DEF CopyAssignThrows, Become
  <2>3. Shape(p)
    BY <1>0, <2>1, DataLemma
  <2>4. p.Size = object[c].Size /\ p.m_size = object[c].m_size
    BY <1>0, <2>1 DEF Shape, Record
  <2> HIDE DEF p
  <2>5. Container!Become(b, sizeOf[b], Ring(p))
    BY <1>0, <2>1, <2>2, <2>3, <2>4, SeenBecome
  <2>6. Len(Ring(p)) = Len(content[c])
    BY <1>a, <2>1, <2>3, <2>4, RingLemma
  <2>7. content' = [content EXCEPT ![b] = Ring(p)] /\ content'[b] = Ring(p) /\ UNCHANGED sizeOf
    BY <2>5 DEF Container!Become, content, sizeOf
  <2>8. Container!CopyFails(b, c)
    BY <1>0, <1>13, <2>1, <2>6, <2>7
       DEF CopyAssignThrows, Container!CopyFails, Container!Fails, ElementThrew, Container!ElementThrew
  <2> QED
    BY <2>8 DEF Container!Next
<1> QED
  BY <1>1, <1>2, <1>3, <1>4, <1>5, <1>6, <1>7, <1>8, <1>9, <1>10, <1>11, <1>12, <1>13 DEF Next

\* The ring over std::array implements the bounded sequence for any sizes and any
\* element operations: pushes, pops, copies, moves, self-assignments and swaps
\* agree with the sequence, wherever the ring wraps around, and so does what an
\* assignment of an element that throws leaves behind.
THEOREM ArrayImplementsContainer ==
  ASSUME NilIsNoObject, NilIsNoSize
  PROVE  Spec => ImplementsContainer
<1>1. IInv /\ [Next]_vars => [Container!Next]_(Container!vars)
  BY StepRefines
<1> QED
  BY <1>1, InitRefines, Invariance, PTL DEF Spec, Container!Spec, ImplementsContainer

=============================================================================
