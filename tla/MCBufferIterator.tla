-------------------------- MODULE MCBufferIterator --------------------------
(***************************************************************************)
(* Instances of BufferIterator for TLC.                                    *)
(***************************************************************************)
EXTENDS BufferIterator, TLC

CONSTANTS b1, b2, v1, v2, i1, i2

TwoBuffers   == {b1, b2}
TwoValues    == {v1, v2}
OneIterator  == {i1}
TwoIterators == {i1, i2}

\* A copy of an element equals the original.
Same(v) == v

\* Forwards and backwards, within a buffer and beyond it.
FewOffsets == {-2, 2}

Identical == Permutations(Buffers) \cup Permutations(Values) \cup Permutations(Iterators)
=============================================================================
