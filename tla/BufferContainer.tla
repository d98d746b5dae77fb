-------------------------- MODULE BufferContainer --------------------------
(***************************************************************************)
(* What the single-threaded BoundedBuffer promises: objects that each hold *)
(* a bounded sequence of elements, with value semantics for copies and     *)
(* with exceptions that leave every object as it was, but for a push whose *)
(* element's constructor throws: the element is counted all the same.      *)
(* There are no slots and no indices here; BufferIterator.tla shows that   *)
(* BoundedBuffer.tla implements it, together with the positions of         *)
(* ContainerPositions.tla.                                                 *)
(***************************************************************************)
EXTENDS Naturals, Sequences

CONSTANTS Buffers,      \* the names of objects
          Values,       \* the elements
          Capacities,   \* the arguments given to the constructor
          CopyOf(_),    \* what copying makes of an element
          MayThrow,     \* whether an element's constructors may throw
          Nil           \* no element

VARIABLES alive,        \* the objects that exist
          capacity,     \* 0 once an object was moved from
          content,      \* the elements, oldest first
          outcome       \* what the last operation did, or how it failed

vars == <<alive, capacity, content, outcome>>

Done            == <<"done", Nil>>
Result(v)       == <<"element", v>>
LogicError      == <<"logic_error", Nil>>
InvalidArgument == <<"invalid_argument", Nil>>
ElementThrew    == <<"threw", Nil>>
Did(op, b, c)   == <<op, <<b, c>>>>

Init == /\ alive    = {}
        /\ capacity = [b \in Buffers |-> 0]
        /\ content  = [b \in Buffers |-> <<>>]
        /\ outcome  = Done

\* The operation throws and changes nothing.
Fail(error) == outcome' = error /\ UNCHANGED <<alive, capacity, content>>

\* b gets the capacity n and the elements s.
Hold(b, n, s) == /\ capacity' = [capacity EXCEPT ![b] = n]
                 /\ content'  = [content EXCEPT ![b] = s]

Assign(b, n, s) == outcome' = Done /\ Hold(b, n, s)

Construct(b, n) ==
  /\ b \notin alive
  /\ \/ n = 0 /\ Fail(InvalidArgument)
     \/ n # 0 /\ alive' = alive \cup {b} /\ Assign(b, n, <<>>)

Push(b, v) ==
  /\ b \in alive
  /\ \/ Len(content[b]) = capacity[b] /\ Fail(LogicError)
     \/ /\ Len(content[b]) < capacity[b]
        /\ Assign(b, capacity[b], Append(content[b], v))
        /\ UNCHANGED alive

\* The element's constructor throws: the sequence grows by nothing.
PushFails(b) ==
  /\ MayThrow
  /\ b \in alive /\ Len(content[b]) < capacity[b]
  /\ outcome' = ElementThrew
  /\ Hold(b, capacity[b], Append(content[b], Nil))
  /\ UNCHANGED alive

Pop(b) ==
  /\ b \in alive
  /\ \/ content[b] = <<>> /\ Fail(LogicError)
     \/ /\ content[b] # <<>>
        /\ Assign(b, capacity[b], Tail(content[b]))
        /\ UNCHANGED alive

Inspect(b, result) == /\ outcome' = result
                      /\ b \in alive
                      /\ UNCHANGED <<alive, capacity, content>>

Front(b) == Inspect(b, IF content[b] = <<>> THEN LogicError ELSE Result(content[b][1]))
Back(b)  == Inspect(b, IF content[b] = <<>> THEN LogicError
                                            ELSE Result(content[b][Len(content[b])]))
Measure(b) == Inspect(b, <<"state", <<content[b] = <<>>, Len(content[b]) = capacity[b],
                                      Len(content[b])>>>>)

\* A copy has the capacity and the elements of the original.  An object that
\* was moved from has no capacity and cannot be copied.
Copy(b, c) == \/ capacity[c] = 0 /\ Fail(InvalidArgument)
              \/ /\ capacity[c] # 0
                 /\ outcome' = Did("copied", b, c)
                 /\ alive' = alive \cup {b}
                 /\ Hold(b, capacity[c], [i \in DOMAIN content[c] |-> CopyOf(content[c][i])])

CopyConstruct(b, c) == b \notin alive /\ c \in alive /\ Copy(b, c)

CopyAssign(b, c) ==
  /\ b \in alive /\ c \in alive
  /\ IF b = c THEN outcome' = Did("copied", b, c) /\ UNCHANGED <<alive, capacity, content>>
              ELSE Copy(b, c)

\* The copy of an element throws: neither object changes, and no new one is.
CopyFails(b, c) == MayThrow /\ b # c /\ c \in alive /\ content[c] # <<>> /\ Fail(ElementThrew)

MoveConstruct(b, c) ==
  /\ outcome'  = Did("moved", b, c)
  /\ b \notin alive /\ c \in alive
  /\ alive'    = alive \cup {b}
  /\ capacity' = [capacity EXCEPT ![b] = capacity[c], ![c] = 0]
  /\ content'  = [content EXCEPT ![b] = content[c], ![c] = <<>>]

\* swap and move assignment, which exchanges as well.
Exchange(b, c) ==
  /\ outcome'  = Did("swapped", b, c)
  /\ b \in alive /\ c \in alive
  /\ capacity' = [capacity EXCEPT ![b] = capacity[c], ![c] = capacity[b]]
  /\ content'  = [content EXCEPT ![b] = content[c], ![c] = content[b]]
  /\ UNCHANGED alive

Destroy(b) == b \in alive /\ alive' = alive \ {b} /\ Assign(b, 0, <<>>)

Next == \E b \in Buffers :
          \/ \E n \in Capacities : Construct(b, n)
          \/ \E v \in Values : Push(b, v)
          \/ PushFails(b)
          \/ Pop(b) \/ Front(b) \/ Back(b) \/ Measure(b) \/ Destroy(b)
          \/ \E c \in Buffers : \/ CopyConstruct(b, c) \/ CopyAssign(b, c) \/ CopyFails(b, c)
                                \/ MoveConstruct(b, c) \/ Exchange(b, c)

Spec == Init /\ [][Next]_vars
=============================================================================
