---------------------------- MODULE BoundedBuffer ----------------------------
(***************************************************************************)
(* exercises/week05/include/BoundedBuffer.h: the ring buffer on the heap,  *)
(* used by one thread.  Several objects are modelled, because copying,     *)
(* moving, swapping and destruction are where elements change hands.  A    *)
(* slot of m_data holds an element or is raw storage (Nil).                *)
(*                                                                         *)
(* leaked and misused are history variables of the model: an element whose *)
(* storage was freed without its destructor, and a destructor that was run *)
(* on raw storage.  Reading a counted slot in which nothing was            *)
(* constructed yields Nil.                                                 *)
(***************************************************************************)
EXTENDS Naturals

CONSTANTS Buffers,      \* the names of objects
          Values,       \* the elements
          Capacities,   \* the arguments given to the constructor
          CopyOf(_),    \* what the element's copy constructor makes of one
          MayThrow,     \* whether the element's constructors may throw
          Nil           \* no element, no object, raw storage

ASSUME CapacitiesAssumption == Capacities \subseteq Nat
ASSUME MayThrowAssumption == MayThrow \in BOOLEAN
ASSUME NilAssumption == Nil \notin Values

VARIABLES object,       \* the members of each object that exists
          leaked, misused,
          outcome       \* what the last operation did, or how it failed

lifetimes == <<leaked, misused>>
vars      == <<object, leaked, misused, outcome>>

alive == {b \in Buffers : object[b] # Nil}

Done            == <<"done", Nil>>
Result(v)       == <<"element", v>>
LogicError      == <<"logic_error", Nil>>
InvalidArgument == <<"invalid_argument", Nil>>
ElementThrew    == <<"threw", Nil>>
Did(op, b, c)   == <<op, <<b, c>>>>

-----------------------------------------------------------------------------
(* The private helpers, on the members o of one object. *)

\* The members after new char[]; with n = 0, the default member initializers.
Allocated(n) == [m_maximumSize |-> n, m_first |-> 0, m_size |-> 0,
                 m_data |-> [i \in 0 .. n - 1 |-> Nil]]

empty(o) == o.m_size = 0
full(o)  == o.m_size = o.m_maximumSize

to_buffer_index(o, index) == (o.m_first + index) % o.m_maximumSize

back_index(o) == to_buffer_index(o, o.m_size - 1)

\* The element with the given index, in ring order.
element(o, index) == o.m_data[to_buffer_index(o, index)]

\* Mutant: push_index() increments m_size before it computes the index.
do_pushPreIncrement(o, v) == [o EXCEPT !.m_data[to_buffer_index(o, o.m_size + 1)] = v,
                                       !.m_size = @ + 1]

\* push_index() and the placement new in its slot.
do_push(o, v) == [o EXCEPT !.m_data[to_buffer_index(o, o.m_size)] = v,
                           !.m_size = @ + 1]

\* Mutant: the destroyed element's slot is not left behind.
do_popInPlace(o) == [o EXCEPT !.m_data[o.m_first] = Nil, !.m_size = @ - 1]

\* Mutant: m_first runs past the end of the storage.
do_popUnwrapped(o) == [o EXCEPT !.m_data[o.m_first] = Nil, !.m_first = @ + 1,
                                !.m_size = @ - 1]

\* do_pop: the destructor of the first element, whose slot is left behind.
do_pop(o) == [o EXCEPT !.m_data[o.m_first] = Nil,
                       !.m_first = (@ + 1) % o.m_maximumSize,
                       !.m_size = @ - 1]

\* Mutant: copy takes over the slots, but not the place of the first one.
copySlots(o) == [o EXCEPT !.m_first = 0]

\* copy: do_push of every element of o, in order, into fresh storage.
copy(o) == [Allocated(o.m_maximumSize) EXCEPT
              !.m_size = o.m_size,
              !.m_data = [i \in DOMAIN @ |-> IF i < o.m_size THEN CopyOf(element(o, i)) ELSE Nil]]

\* The copy whose k-th do_push throws: push_index() has counted the element
\* that was not constructed.
copyUntil(o, k) == [copy(o) EXCEPT
                      !.m_size = k,
                      !.m_data = [i \in DOMAIN @ |-> IF i < k - 1 THEN @[i] ELSE Nil]]

\* Mutant: the loop runs while idx <= m_size.
PassesInclusive(size) == CHOOSE n \in 0 .. size + 1 : /\ ~(n <= size - n)
                                                     /\ \A m \in 0 .. n - 1 : m <= size - m

\* How often the loop of clear runs: it compares its counter with m_size, which
\* every do_pop decrements.
Passes(size) == CHOOSE n \in 0 .. size : /\ ~(n < size - n)
                                         /\ \A m \in 0 .. n - 1 : m < size - m

\* The slots whose elements clear destroys.
Cleared(o) == {to_buffer_index(o, k) : k \in 0 .. Passes(o.m_size) - 1}

\* The destructor: clear, then delete[].
Release(o) ==
  /\ misused' = (misused \/ \E i \in Cleared(o) : o.m_data[i] = Nil)
  /\ leaked'  = (leaked \/ \E i \in DOMAIN o.m_data : o.m_data[i] # Nil /\ i \notin Cleared(o))

-----------------------------------------------------------------------------
Init == /\ object  = [b \in Buffers |-> Nil]
        /\ leaked  = FALSE
        /\ misused = FALSE
        /\ outcome = Done

Become(b, o) == object' = [object EXCEPT ![b] = o]

\* An operation that throws before it changed anything, or only reads.
Leave(result) == outcome' = result /\ UNCHANGED <<object, lifetimes>>

Construct(b, n) ==
  /\ b \notin alive
  /\ IF n = 0 THEN Leave(InvalidArgument)
              ELSE Become(b, Allocated(n)) /\ outcome' = Done /\ UNCHANGED lifetimes

Push(b, v) ==
  /\ b \in alive
  /\ IF full(object[b])
       THEN Leave(LogicError)
       ELSE Become(b, do_push(object[b], v)) /\ outcome' = Done /\ UNCHANGED lifetimes

\* The element's constructor throws in push, after push_index().
PushThrows(b) ==
  /\ MayThrow
  /\ b \in alive /\ ~full(object[b])
  /\ Become(b, [object[b] EXCEPT !.m_size = @ + 1])
  /\ outcome' = ElementThrew
  /\ UNCHANGED lifetimes

Pop(b) ==
  /\ b \in alive
  /\ IF empty(object[b])
       THEN Leave(LogicError)
       ELSE /\ misused' = (misused \/ element(object[b], 0) = Nil)
            /\ Become(b, do_pop(object[b]))
            /\ outcome' = Done
            /\ UNCHANGED leaked

Front(b) ==
  /\ b \in alive
  /\ Leave(IF empty(object[b]) THEN LogicError ELSE Result(element(object[b], 0)))

Back(b) ==
  /\ b \in alive
  /\ Leave(IF empty(object[b]) THEN LogicError
                               ELSE Result(object[b].m_data[back_index(object[b])]))

\* empty(), full() and size().
Measure(b) ==
  /\ b \in alive
  /\ Leave(<<"state", <<empty(object[b]), full(object[b]), object[b].m_size>>>>)

\* The delegating constructor throws for an original of capacity 0.
CopyConstruct(b, c) ==
  /\ b \notin alive /\ c \in alive
  /\ IF object[c].m_maximumSize = 0
       THEN Leave(InvalidArgument)
       ELSE Become(b, copy(object[c])) /\ outcome' = Did("copied", b, c) /\ UNCHANGED lifetimes

\* Copy and swap; the temporary's destructor releases what b had.
CopyAssign(b, c) ==
  /\ b \in alive /\ c \in alive
  /\ IF b = c THEN Leave(Did("copied", b, c))
     ELSE IF object[c].m_maximumSize = 0 THEN Leave(InvalidArgument)
     ELSE Become(b, copy(object[c])) /\ Release(object[b]) /\ outcome' = Did("copied", b, c)

\* The copy of the k-th element throws in either of the two.  The delegating
\* constructor had completed, so the destructor runs on the part that was made.
CopyThrows(b, c, k) ==
  /\ MayThrow
  /\ b # c /\ c \in alive
  /\ k \in 1 .. object[c].m_size
  /\ Release(copyUntil(object[c], k))
  /\ outcome' = ElementThrew
  /\ UNCHANGED object

MoveConstruct(b, c) ==
  /\ b \notin alive /\ c \in alive
  /\ object' = [object EXCEPT ![b] = object[c], ![c] = Allocated(0)]
  /\ outcome' = Did("moved", b, c)
  /\ UNCHANGED lifetimes

\* Mutant: swap forgets m_first.
SwapWithoutFirst(b, c) ==
  /\ b \in alive /\ c \in alive
  /\ object' = [object EXCEPT ![b] = [object[c] EXCEPT !.m_first = object[b].m_first],
                              ![c] = [object[b] EXCEPT !.m_first = object[c].m_first]]
  /\ outcome' = Did("swapped", b, c)
  /\ UNCHANGED lifetimes

\* swap, and move assignment, which is nothing else.
Swap(b, c) ==
  /\ b \in alive /\ c \in alive
  /\ object' = [object EXCEPT ![b] = object[c], ![c] = object[b]]
  /\ outcome' = Did("swapped", b, c)
  /\ UNCHANGED lifetimes

Destroy(b) ==
  /\ b \in alive
  /\ Release(object[b])
  /\ Become(b, Nil)
  /\ outcome' = Done

Next == \E b \in Buffers :
          \/ \E n \in Capacities : Construct(b, n)
          \/ \E v \in Values : Push(b, v)
          \/ PushThrows(b)
          \/ Pop(b) \/ Front(b) \/ Back(b) \/ Measure(b) \/ Destroy(b)
          \/ \E c \in Buffers :
               \/ CopyConstruct(b, c) \/ CopyAssign(b, c)
               \/ MoveConstruct(b, c) \/ Swap(b, c)
               \/ c \in alive /\ \E k \in 1 .. object[c].m_size : CopyThrows(b, c, k)

Spec == Init /\ [][Next]_vars

-----------------------------------------------------------------------------
(* Properties. *)

Sizes == Capacities \cup {0}

Members == UNION {[m_maximumSize : {n}, m_first : 0 .. n, m_size : 0 .. n,
                   m_data : [0 .. n - 1 -> Values \cup {Nil}]] : n \in Sizes}

\* The kinds of outcomes, those of BufferIterator.tla included.
Kinds == {"done", "copied", "moved", "swapped", "element", "state", "logic_error",
          "invalid_argument", "threw", "out_of_range", "bool", "difference"}

\* The type invariant: m_first stays a slot of the buffer (0 if there is none),
\* and m_size within m_maximumSize.
TypeOK ==
  /\ object \in [Buffers -> Members \cup {Nil}]
  /\ \A b \in alive : object[b].m_first < object[b].m_maximumSize
                        \/ object[b] = Allocated(0)
  /\ leaked \in BOOLEAN
  /\ misused \in BOOLEAN
  /\ outcome[1] \in Kinds

Window(o) == {to_buffer_index(o, k) : k \in 0 .. o.m_size - 1}

\* Element lifetimes in every object, however it came by its storage: the slots
\* of the window hold an element and all others are raw storage.
ConstructedExactly == \A b \in alive : \A i \in DOMAIN object[b].m_data :
  object[b].m_data[i] # Nil <=> i \in Window(object[b])

\* Even if constructors throw, every element that was constructed lies in the
\* window, where pop and the destructor can reach it.
NoStrayElement == \A b \in alive : \A i \in DOMAIN object[b].m_data :
  object[b].m_data[i] # Nil => i \in Window(object[b])

\* No destructor runs on raw storage, so no element is destroyed twice and none
\* that was never constructed
\* (test_new_buffer_of_nondefaultconstructible_invokes_no_destructors).
NoRawDestroyed == ~misused

\* Every element is destroyed before its storage is freed
\* (test_every_element_in_copied_buffer_is_destroyed_once and its neighbours).
NoElementLeaked == ~leaked

\* What the abstract container (BufferContainer.tla) sees of the objects: the
\* elements in ring order.
content  == [b \in Buffers |-> IF b \in alive
               THEN [i \in 1 .. object[b].m_size |-> element(object[b], i - 1)]
               ELSE <<>>]
capacity == [b \in Buffers |-> IF b \in alive THEN object[b].m_maximumSize ELSE 0]
=============================================================================
