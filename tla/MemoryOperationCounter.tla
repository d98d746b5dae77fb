----------------------- MODULE MemoryOperationCounter -----------------------
(***************************************************************************)
(* exercises/week05/include/MemoryOperationCounter.h: an element that       *)
(* counts how often it was moved and copied on its way.  Every element of   *)
(* the suites is one; those that only carry an int have their value here.   *)
(***************************************************************************)
EXTENDS Naturals

\* A default-constructed counter, or the int v.
Element(v) == [value |-> v, moves |-> 0, copies |-> 0, known_state |-> TRUE]

\* The three-argument constructor, for expectations.
Counter(moves, copies, known_state) ==
  [value |-> 0, moves |-> moves, copies |-> copies, known_state |-> known_state]

\* Mutant: a copy neither counts itself nor keeps its state known: two errors
\* that operator== takes for none.
CopiedUnnoticed(e) == [e EXCEPT !.known_state = FALSE]

\* What the copy constructor and the copy assignment leave in the target.
Copied(e) == [e EXCEPT !.copies = @ + 1]

\* What the move constructor and the move assignment leave in the target ...
Moved(e) == [e EXCEPT !.moves = @ + 1]

\* ... and in the source.
MovedFrom(e) == [e EXCEPT !.known_state = FALSE]

\* operator==, as it is written: == binds closer than &&, so the comparisons of
\* copies and known_state are compared with each other.
CountersEqual(e, f) ==
  /\ e.moves = f.moves
  /\ (e.copies = f.copies) = (e.known_state = f.known_state)

\* What the operator is named for.
CountersIdentical(e, f) ==
  /\ e.moves = f.moves
  /\ e.copies = f.copies
  /\ e.known_state = f.known_state
=============================================================================
