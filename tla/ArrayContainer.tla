--------------------------- MODULE ArrayContainer ---------------------------
(***************************************************************************)
(* What the BoundedBuffer of week 3 promises: objects that each hold a     *)
(* bounded sequence of elements.  A move takes the elements but not their  *)
(* places: the source keeps as many elements as it had, all moved from.  An *)
(* assignment of an element that throws leaves less: a push has added an   *)
(* element that may be anything, a copy has the length of the original.    *)
(***************************************************************************)
EXTENDS Naturals, Sequences

CONSTANTS Buffers, Values, Sizes, CopyOf(_), MoveOf(_), LeftOf(_), Nil

VARIABLES sizeOf,       \* the Size of each object that exists, or Nil
          content,      \* its elements, oldest first
          outcome       \* what the last operation did

vars == <<sizeOf, content, outcome>>

alive == {b \in Buffers : sizeOf[b] # Nil}

Done       == <<"done", Nil>>
LogicError == <<"logic_error", Nil>>
ElementThrew == <<"threw", Nil>>
Did(op, b, c) == <<op, <<b, c>>>>

Each(Op(_), s) == [i \in DOMAIN s |-> Op(s[i])]

Init == /\ sizeOf  = [b \in Buffers |-> Nil]
        /\ content = [b \in Buffers |-> <<>>]
        /\ outcome = Done

\* b becomes an object of the given size with the elements s.
Become(b, size, s) == /\ sizeOf'  = [sizeOf EXCEPT ![b] = size]
                      /\ content' = [content EXCEPT ![b] = s]

Inspect(b, result) == /\ b \in alive
                      /\ outcome' = result
                      /\ UNCHANGED <<sizeOf, content>>

Construct(b, n) == b \notin alive /\ Become(b, n, <<>>) /\ outcome' = Done
Destroy(b)      == b \in alive /\ Become(b, Nil, <<>>) /\ outcome' = Done

Push(b, v) ==
  /\ b \in alive
  /\ \/ Len(content[b]) = sizeOf[b] /\ Inspect(b, LogicError)
     \/ /\ Len(content[b]) < sizeOf[b]
        /\ Become(b, sizeOf[b], Append(content[b], v))
        /\ outcome' = Done

Pop(b) ==
  /\ b \in alive
  /\ \/ content[b] = <<>> /\ Inspect(b, LogicError)
     \/ content[b] # <<>> /\ Become(b, sizeOf[b], Tail(content[b])) /\ outcome' = Done

Front(b) == Inspect(b, IF content[b] = <<>> THEN LogicError ELSE <<"element", content[b][1]>>)
Back(b)  == Inspect(b, IF content[b] = <<>> THEN LogicError
                                            ELSE <<"element", content[b][Len(content[b])]>>)
Measure(b) == Inspect(b, <<"state", <<content[b] = <<>>, Len(content[b]) = sizeOf[b],
                                      Len(content[b])>>>>)

\* b is new, or an object of c's type.
Target(b, c) == c \in alive /\ sizeOf[b] \in {Nil, sizeOf[c]}

Copy(b, c) == /\ Target(b, c)
              /\ Become(b, sizeOf[c], Each(CopyOf, content[c]))
              /\ outcome' = Did("copied", b, c)

Move(b, c) ==
  /\ Target(b, c)
  /\ sizeOf'  = [sizeOf EXCEPT ![b] = sizeOf[c]]
  /\ content' = IF b = c
                  THEN [content EXCEPT ![b] = Each(LeftOf, Each(MoveOf, @))]
                  ELSE [content EXCEPT ![b] = Each(MoveOf, content[c]), ![c] = Each(LeftOf, @)]
  /\ outcome' = Did("moved", b, c)

\* Each element is moved; those that pass through a temporary, twice.
Exchange(b, c) ==
  /\ {b, c} \subseteq alive /\ sizeOf[b] = sizeOf[c]
  /\ content' = [content EXCEPT ![b] = Each(MoveOf, content[c]),
                                ![c] = Each(MoveOf, Each(MoveOf, content[b]))]
  /\ outcome' = Did("swapped", b, c)
  /\ UNCHANGED sizeOf

\* An operation on b fails half way and leaves it with n elements.
Fails(b, n) ==
  /\ outcome' = ElementThrew
  /\ content' = [content EXCEPT ![b] = content'[b]]
  /\ Len(content'[b]) = n
  /\ UNCHANGED sizeOf

PushFails(b) == /\ b \in alive /\ Len(content[b]) < sizeOf[b]
                /\ Fails(b, Len(content[b]) + 1)
                /\ \A i \in DOMAIN content[b] : content'[b][i] = content[b][i]

CopyFails(b, c) == /\ {b, c} \subseteq alive /\ sizeOf[b] = sizeOf[c]
                   /\ Fails(b, Len(content[c]))

Next == \E b \in Buffers :
          \/ \E n \in Sizes : Construct(b, n)
          \/ \E v \in Values : Push(b, v)
          \/ Pop(b) \/ Front(b) \/ Back(b) \/ Measure(b) \/ Destroy(b)
          \/ PushFails(b)
          \/ \E c \in Buffers : Copy(b, c) \/ Move(b, c) \/ Exchange(b, c) \/ CopyFails(b, c)

Spec == Init /\ [][Next]_vars
=============================================================================
