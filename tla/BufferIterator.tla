--------------------------- MODULE BufferIterator ---------------------------
(***************************************************************************)
(* exercises/week05/include/BoundedBuffer.h: buffer_iterator.  An iterator *)
(* is a buffer and an index that counts from the buffer's first element.   *)
(* Nothing in the buffer knows of it: it stays as it is when elements are  *)
(* pushed and popped and when its buffer is assigned to, swapped or moved  *)
(* from, and checks its index against the buffer's size when it is used.   *)
(*                                                                         *)
(* Iterators of a buffer that was destroyed are not used any more.         *)
(***************************************************************************)
EXTENDS BoundedBuffer, Integers

CONSTANTS Iterators,    \* the names of iterator objects
          Offsets       \* the offsets that iterators are moved by

ASSUME OffsetsAssumption == Offsets \subseteq Int

VARIABLE iterator       \* m_buffer and m_index of each, or Nil

ivars == <<vars, iterator>>

OutOfRange == <<"out_of_range", Nil>>

\* Mutant: the position one past the end may be accessed.
PositionUpToEnd(it) == it.m_index <= object[it.m_buffer].m_size

\* throw_on_invalid_position does not throw.
ValidPosition(it) == it.m_index < object[it.m_buffer].m_size

\* Mutant: the capacity bounds the index, not the size.
InCapacity(it, offset) == it.m_index + offset \in 0 .. object[it.m_buffer].m_maximumSize

\* Mutant: only leaving the buffer at its beginning is refused.
InRangeFromBelow(it, offset) == it.m_index + offset >= 0

\* throw_on_out_of_range does not throw: whether the position it leaves is
\* within the buffer does not matter.
InRange(it, offset) == it.m_index + offset \in 0 .. object[it.m_buffer].m_size

\* throw_on_different_buffer does not throw.
SameBuffer(it, other) == it.m_buffer = other.m_buffer

IteratorInit == Init /\ iterator = [i \in Iterators |-> Nil]

\* i becomes an iterator; the buffers stay as they are.
Position(i, b, index) ==
  /\ iterator' = [iterator EXCEPT ![i] = [m_buffer |-> b, m_index |-> index]]
  /\ outcome' = Done
  /\ UNCHANGED <<object, lifetimes>>

Fails(error) == Leave(error) /\ UNCHANGED iterator
Yields(result) == Leave(result) /\ UNCHANGED iterator

Begin(i, b) == b \in alive /\ Position(i, b, 0)
End(i, b)   == b \in alive /\ Position(i, b, object[b].m_size)

\* i = j + offset: with i = j it is +=, and -= for a negative offset.
Advance(i, j, offset) == LET it == iterator[j] IN
  /\ it # Nil
  /\ \/ InRange(it, offset) /\ Position(i, it.m_buffer, it.m_index + offset)
     \/ ~InRange(it, offset) /\ Fails(OutOfRange)

Increment(i) == Advance(i, i, 1)
Decrement(i) == Advance(i, i, -1)

Dereference(i) == LET it == iterator[i] IN
  /\ it # Nil
  /\ \/ ~ValidPosition(it) /\ Fails(OutOfRange)
     \/ ValidPosition(it) /\ Yields(Result(element(object[it.m_buffer], it.m_index)))

\* An assignment to *i.
Overwrite(i, v) == LET it == iterator[i] IN
  /\ it # Nil
  /\ \/ ~ValidPosition(it) /\ Fails(OutOfRange)
     \/ /\ ValidPosition(it)
        /\ LET o == object[it.m_buffer]
           IN  Become(it.m_buffer, [o EXCEPT !.m_data[to_buffer_index(o, it.m_index)] = v])
        /\ outcome' = Done
        /\ UNCHANGED <<lifetimes, iterator>>

Equal(i, j) ==
  /\ iterator[i] # Nil /\ iterator[j] # Nil
  /\ Yields(<<"bool", iterator[i] = iterator[j]>>)

Less(i, j) ==
  /\ iterator[i] # Nil /\ iterator[j] # Nil
  /\ \/ ~SameBuffer(iterator[i], iterator[j]) /\ Fails(LogicError)
     \/ /\ SameBuffer(iterator[i], iterator[j])
        /\ Yields(<<"bool", iterator[i].m_index < iterator[j].m_index>>)

Difference(i, j) ==
  /\ iterator[i] # Nil /\ iterator[j] # Nil
  /\ \/ ~SameBuffer(iterator[i], iterator[j]) /\ Fails(LogicError)
     \/ /\ SameBuffer(iterator[i], iterator[j])
        /\ Yields(<<"difference", iterator[i].m_index - iterator[j].m_index>>)

\* What the program does to the buffers leaves the iterators as they are.
BufferStep ==
  /\ Next
  /\ iterator' = [i \in Iterators |->
       IF iterator[i] # Nil /\ object'[iterator[i].m_buffer] = Nil THEN Nil ELSE iterator[i]]

IteratorNext ==
  \/ BufferStep
  \/ \E i \in Iterators :
       \/ \E b \in Buffers : Begin(i, b) \/ End(i, b)
       \/ \E v \in Values : Overwrite(i, v)
       \/ Increment(i) \/ Decrement(i) \/ Dereference(i)
       \/ \E j \in Iterators : \/ Equal(i, j) \/ Less(i, j) \/ Difference(i, j)
                               \/ \E n \in Offsets : Advance(i, j, n)

IteratorSpec == IteratorInit /\ [][IteratorNext]_ivars

-----------------------------------------------------------------------------
(* Properties. *)

used == {i \in Iterators : iterator[i] # Nil}

\* The type invariant: the index of an iterator never passes a capacity.
IteratorTypeOK == \A i \in used :
  /\ iterator[i].m_buffer \in alive
  /\ \E n \in Sizes : iterator[i].m_index \in 0 .. n

Designated(it) == IF ValidPosition(it) THEN element(object[it.m_buffer], it.m_index) ELSE Nil

\* Whatever happened to its buffer since, an iterator that may be dereferenced
\* designates an element: never raw storage, and never an index of the ring of
\* a buffer without capacity.
NoRawDesignated == \A i \in used : ValidPosition(iterator[i]) => Designated(iterator[i]) # Nil

\* While only pushes happen, an iterator keeps the element it designates, even
\* if the ring wraps around.
PushKeepsDesignated ==
  [][(\E b \in Buffers, v \in Values : Push(b, v)) =>
       \A i \in used : ValidPosition(iterator[i]) => Designated(iterator[i])' = Designated(iterator[i])]_ivars

\* The abstract positions.
position == [i \in Iterators |->
               IF iterator[i] = Nil THEN Nil
               ELSE [of |-> iterator[i].m_buffer, offset |-> iterator[i].m_index]]
Positions == INSTANCE ContainerPositions

\* The buffers are sequences with value semantics: elements come out in the
\* order in which they went in, copies are equal and independent, moves and
\* swaps take the elements along, and the exceptions leave every object
\* unchanged.  Iterators are positions in these sequences, wherever the ring
\* begins: reading and writing through one, moving it and comparing two agree
\* with the sequence as it is at that moment.
ImplementsPositions == Positions!PositionSpec
=============================================================================
