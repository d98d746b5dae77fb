-------------------------- MODULE MCBoundedBuffer --------------------------
(***************************************************************************)
(* Instances of BoundedBuffer for TLC.                                     *)
(***************************************************************************)
EXTENDS BoundedBuffer, TLC

CONSTANTS b1, b2, v1, v2

TwoBuffers == {b1, b2}
TwoValues  == {v1, v2}

\* A copy of an element equals the original.
Same(v) == v

Identical == Permutations(Buffers) \cup Permutations(Values)
=============================================================================
