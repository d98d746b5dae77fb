----------------------------- MODULE ArrayBuffer -----------------------------
(***************************************************************************)
(* exercises/week03/include/BoundedBuffer.h: the ring buffer over a        *)
(* std::array, used by one thread.  Every slot holds an element at all     *)
(* times, so copies and moves are member-wise and pop destroys nothing.    *)
(* Size is a template parameter: objects of different sizes have different *)
(* types and do not meet.                                                  *)
(***************************************************************************)
EXTENDS Naturals

CONSTANTS Buffers,      \* the names of objects
          Values,       \* the elements that are pushed
          Sizes,        \* the values of the template parameter
          Fresh,        \* the value-initialised element
          CopyOf(_),    \* what copying makes of an element
          MoveOf(_),    \* what moving makes of it ...
          LeftOf(_),    \* ... and leaves of it
          MayThrow,     \* whether assigning an element in push or a copy may throw
          Nil           \* no object

ASSUME SizesAssumption == Sizes \subseteq Nat
ASSUME ThrowAssumption == MayThrow \in BOOLEAN

VARIABLES object,       \* the members of each object that exists
          outcome       \* what the last operation did, or how it failed

vars == <<object, outcome>>

alive == {b \in Buffers : object[b] # Nil}

Done         == <<"done", Nil>>
LogicError   == <<"logic_error", Nil>>
ElementThrew == <<"threw", Nil>>
Did(op, b, c) == <<op, <<b, c>>>>

\* The members of a new object.  For Size 0 the specialisation has none, and
\* its functions do what the others do in a buffer that is empty and full.
Constructed(n) == [Size |-> n, m_first |-> 0, m_size |-> 0, m_data |-> [i \in 0 .. n - 1 |-> Fresh]]

empty(o) == o.m_size = 0
full(o)  == o.m_size = o.Size

\* The slot of the element with the given index.
slot(o, index) == (o.m_first + index) % o.Size

back_index(o) == slot(o, o.m_size - 1)

\* Mutant: m_size is incremented before the index is computed.
push_indexPreIncrement(o) == [index |-> slot(o, o.m_size + 1),
                              after |-> [o EXCEPT !.m_size = @ + 1]]

\* The index, and the members after m_size++.
push_index(o) == [index |-> slot(o, o.m_size), after |-> [o EXCEPT !.m_size = @ + 1]]

\* Op on every slot of the array, in the window or not.
EachSlot(Op(_), o) == [o EXCEPT !.m_data = [i \in DOMAIN @ |-> Op(@[i])]]

-----------------------------------------------------------------------------
Init == /\ object  = [b \in Buffers |-> Nil]
        /\ outcome = Done

Become(b, o)  == object' = [object EXCEPT ![b] = o]
Leave(result) == outcome' = result /\ UNCHANGED object

Construct(b, n) == b \notin alive /\ Become(b, Constructed(n)) /\ outcome' = Done
Destroy(b)      == b \in alive /\ Become(b, Nil) /\ outcome' = Done

Push(b, v) ==
  /\ b \in alive
  /\ IF full(object[b])
       THEN Leave(LogicError)
       ELSE /\ LET p == push_index(object[b]) IN Become(b, [p.after EXCEPT !.m_data[p.index] = v])
            /\ outcome' = Done

\* The assignment to the slot throws, after push_index().
PushThrows(b) ==
  /\ MayThrow
  /\ b \in alive /\ ~full(object[b])
  /\ object' = [object EXCEPT ![b] = push_index(@).after]
  /\ outcome' = ElementThrew

\* Mutant: the first index runs out of the array.
PopUnwrapped(b) ==
  /\ b \in alive
  /\ IF empty(object[b])
       THEN Leave(LogicError)
       ELSE Become(b, [object[b] EXCEPT !.m_first = @ + 1, !.m_size = @ - 1]) /\ outcome' = Done

Pop(b) ==
  /\ b \in alive
  /\ IF empty(object[b])
       THEN Leave(LogicError)
       ELSE /\ Become(b, [object[b] EXCEPT !.m_first = slot(object[b], 1), !.m_size = @ - 1])
            /\ outcome' = Done

\* front() and back(), in both their versions.
Front(b) ==
  /\ b \in alive
  /\ Leave(IF empty(object[b]) THEN LogicError
                               ELSE <<"element", object[b].m_data[object[b].m_first]>>)
Back(b) ==
  /\ b \in alive
  /\ Leave(IF empty(object[b]) THEN LogicError
                               ELSE <<"element", object[b].m_data[back_index(object[b])]>>)

\* empty(), full() and size().
Measure(b) ==
  /\ b \in alive
  /\ Leave(<<"state", <<empty(object[b]), full(object[b]), object[b].m_size>>>>)

SameType(b, c) == {b, c} \subseteq alive /\ object[b].Size = object[c].Size

CopyFrom(b, c) == Become(b, EachSlot(CopyOf, object[c])) /\ outcome' = Did("copied", b, c)

CopyConstruct(b, c) == b \notin alive /\ c \in alive /\ CopyFrom(b, c)

\* There is no test for self-assignment: every slot is assigned to itself.
CopyAssign(b, c) == SameType(b, c) /\ CopyFrom(b, c)

\* The assignment of slot k throws: the indices and the slots before it are
\* c's, the others still b's.
CopyAssignThrows(b, c, k) ==
  /\ MayThrow /\ SameType(b, c)
  /\ k \in DOMAIN object[c].m_data
  /\ object' = [object EXCEPT ![b] = [object[c] EXCEPT
       !.m_data = [i \in DOMAIN @ |-> IF i < k THEN CopyOf(@[i]) ELSE object[b].m_data[i]]]]
  /\ outcome' = ElementThrew

\* Moving an index copies it: the source keeps its indices and its elements,
\* moved from.  b = c is the self-assignment.
MoveFrom(b, c) ==
  /\ object' = IF b = c
                 THEN [object EXCEPT ![b] = EachSlot(LeftOf, EachSlot(MoveOf, object[c]))]
                 ELSE [object EXCEPT ![b] = EachSlot(MoveOf, object[c]),
                                     ![c] = EachSlot(LeftOf, object[c])]
  /\ outcome' = Did("moved", b, c)

MoveConstruct(b, c) == b \notin alive /\ c \in alive /\ MoveFrom(b, c)
MoveAssign(b, c)    == SameType(b, c) /\ MoveFrom(b, c)

\* Mutant: nothing is exchanged if either buffer is empty.
SwapNonEmpty(b, c) ==
  /\ SameType(b, c)
  /\ IF empty(object[b]) \/ empty(object[c])
       THEN Leave(Did("swapped", b, c))
       ELSE /\ object' = [object EXCEPT ![b] = EachSlot(MoveOf, object[c]),
                                        ![c] = EachSlot(MoveOf, EachSlot(MoveOf, object[b]))]
            /\ outcome' = Did("swapped", b, c)

\* Two empty buffers stay as they are, with their first indices.  std::array
\* swaps slot by slot, b's elements through a temporary.
Swap(b, c) ==
  /\ SameType(b, c)
  /\ IF empty(object[b]) /\ empty(object[c])
       THEN Leave(Did("swapped", b, c))
       ELSE /\ object' = [object EXCEPT ![b] = EachSlot(MoveOf, object[c]),
                                        ![c] = EachSlot(MoveOf, EachSlot(MoveOf, object[b]))]
            /\ outcome' = Did("swapped", b, c)

Next == \E b \in Buffers :
          \/ \E n \in Sizes : Construct(b, n)
          \/ \E v \in Values : Push(b, v)
          \/ PushThrows(b)
          \/ Pop(b) \/ Front(b) \/ Back(b) \/ Measure(b) \/ Destroy(b)
          \/ \E c \in Buffers :
               \/ CopyConstruct(b, c) \/ CopyAssign(b, c)
               \/ MoveConstruct(b, c) \/ MoveAssign(b, c) \/ Swap(b, c)
               \/ c \in alive /\ \E k \in DOMAIN object[c].m_data : CopyAssignThrows(b, c, k)

Spec == Init /\ [][Next]_vars

-----------------------------------------------------------------------------
(* Properties. *)

\* The type invariant: m_data.at() is never given an index outside the array,
\* whichever element operations throw.
TypeOK == \A b \in alive :
  /\ object[b].Size \in Sizes
  /\ object[b].m_size \in 0 .. object[b].Size
  /\ object[b].Size = 0 \/ object[b].m_first \in 0 .. object[b].Size - 1
  /\ DOMAIN object[b].m_data = 0 .. object[b].Size - 1

\* The elements of an object in ring order.
content == [b \in Buffers |-> IF b \in alive
              THEN [i \in 1 .. object[b].m_size |-> object[b].m_data[slot(object[b], i - 1)]]
              ELSE <<>>]
sizeOf  == [b \in Buffers |-> IF b \in alive THEN object[b].Size ELSE Nil]
Container == INSTANCE ArrayContainer

\* The ring implements the container: whatever was popped, copied, moved or
\* swapped before, elements come out in the order in which they went in, a
\* moved-from buffer presents its moved-from elements, an exception of the buffer
\* changes nothing, and one of an element leaves the promised rest.
ImplementsContainer == Container!Spec

\* A push disturbs no element that was there before, whether it succeeds, is
\* refused or throws after it has counted its element.
EarlierElementsStay ==
  [][\A b \in Buffers :
       ((\E v \in Values : Push(b, v)) \/ PushThrows(b))
         => \A i \in DOMAIN content[b] : content'[b][i] = content[b][i]]_vars
=============================================================================
