------------------------- MODULE ContainerPositions -------------------------
(***************************************************************************)
(* Positions in the sequences of BufferContainer: what the iterators of a  *)
(* BoundedBuffer promise.  A position stays where it is when the sequence  *)
(* changes under it.  BufferIterator.tla is shown to implement it.         *)
(***************************************************************************)
EXTENDS BufferContainer, Integers

CONSTANTS Iterators, Offsets

VARIABLE position       \* an object and an offset into its content, or Nil

pvars == <<vars, position>>

Outside == <<"out_of_range", Nil>>

PositionInit == Init /\ position = [i \in Iterators |-> Nil]

Move(i, b, k) == /\ outcome' = Done
                 /\ position' = [position EXCEPT ![i] = [of |-> b, offset |-> k]]
                 /\ UNCHANGED <<alive, capacity, content>>

Answer(result) == outcome' = result /\ UNCHANGED <<alive, capacity, content, position>>

Begin(i, b) == b \in alive /\ Move(i, b, 0)
End(i, b)   == b \in alive /\ Move(i, b, Len(content[b]))

Advance(i, j, n) == LET p == position[j] IN
  /\ p # Nil
  /\ IF p.offset + n >= 0 /\ p.offset + n <= Len(content[p.of])
       THEN Move(i, p.of, p.offset + n)
       ELSE Answer(Outside)

Read(i) == LET p == position[i] IN
  /\ p # Nil
  /\ Answer(IF p.offset < Len(content[p.of]) THEN Result(content[p.of][p.offset + 1])
                                             ELSE Outside)

Write(i, v) == LET p == position[i] IN
  /\ p # Nil
  /\ IF p.offset < Len(content[p.of])
       THEN /\ Assign(p.of, capacity[p.of], [content[p.of] EXCEPT ![p.offset + 1] = v])
            /\ UNCHANGED <<alive, position>>
       ELSE Answer(Outside)

Compare(i, j) == LET p == position[i]
                     q == position[j] IN
  /\ p # Nil /\ q # Nil
  /\ \/ Answer(<<"bool", p = q>>)
     \/ p.of # q.of /\ Answer(LogicError)
     \/ p.of = q.of /\ Answer(<<"bool", p.offset < q.offset>>)
     \/ p.of = q.of /\ Answer(<<"difference", p.offset - q.offset>>)

ContainerStep ==
  /\ Next
  /\ position' = [i \in Iterators |->
                    IF position[i] # Nil /\ position[i].of \notin alive' THEN Nil ELSE position[i]]

PositionNext ==
  \/ ContainerStep
  \/ \E i \in Iterators :
       \/ \E b \in Buffers : Begin(i, b) \/ End(i, b)
       \/ \E v \in Values : Write(i, v)
       \/ Read(i)
       \/ \E j \in Iterators : Compare(i, j) \/ \E n \in Offsets \cup {1, -1} : Advance(i, j, n)

PositionSpec == PositionInit /\ [][PositionNext]_pvars
=============================================================================
