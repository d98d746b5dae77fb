------------------------------ MODULE QueueRing ------------------------------
(***************************************************************************)
(* exercises/week10/include/BoundedQueue.h: the private helpers of the     *)
(* queue as operators on the members of one object, for the modules in     *)
(* which several queue objects exist.  A member record has the fields      *)
(* m_maximumSize, m_first, m_size and m_data; a slot of m_data holds an    *)
(* element or is raw storage (Nil).                                        *)
(***************************************************************************)
EXTENDS Naturals

CONSTANT Nil

\* The members after new char[]; with n = 0, the default member initializers.
Allocated(n) == [m_maximumSize |-> n, m_first |-> 0, m_size |-> 0,
                 m_data |-> [i \in 0 .. n - 1 |-> Nil]]

do_empty(o) == o.m_size = 0
do_full(o)  == o.m_size = o.m_maximumSize

to_buffer_index(o, index) == (o.m_first + index) % o.m_maximumSize

\* The element with the given index, in ring order.
element(o, index) == o.m_data[to_buffer_index(o, index)]

\* push_index() and the placement new in its slot.
do_push(o, v) == [o EXCEPT !.m_data[to_buffer_index(o, o.m_size)] = v,
                           !.m_size = @ + 1]

\* Mutant: the destroyed element's slot is not left behind.
do_popInPlace(o) == [o EXCEPT !.m_data[o.m_first] = Nil, !.m_size = @ - 1]

\* The first element is moved out and destroyed.
do_pop(o) == [o EXCEPT !.m_data[o.m_first] = Nil,
                       !.m_first = (@ + 1) % o.m_maximumSize,
                       !.m_size = @ - 1]

\* The slots of the elements, from the first one on.
Window(o) == {to_buffer_index(o, k) : k \in 0 .. o.m_size - 1}

\* The destructor's loop destroys one element after the other, from m_first on,
\* until do_empty(): it meets raw storage if a counted slot is raw.
MeetsRawStorage(o) == \E i \in Window(o) : o.m_data[i] = Nil

\* Exactly m_size slots, from m_first on, hold an element.
WellFormed(o) == /\ o.m_size <= o.m_maximumSize
                 /\ \A i \in DOMAIN o.m_data : o.m_data[i] # Nil <=> i \in Window(o)

Contents(o) == [i \in 1 .. o.m_size |-> element(o, i - 1)]
=============================================================================
