--------------------------- MODULE MCArrayBuffer ---------------------------
(***************************************************************************)
(* Instances of ArrayBuffer for TLC.  Elements are pairs of a value and    *)
(* whether they were moved from.  The value-initialised element is one of  *)
(* the two values.                                                         *)
(***************************************************************************)
EXTENDS ArrayBuffer, TLC

CONSTANTS b1, b2, v

TwoBuffers == {b1, b2}
Zero       == <<"zero", "known">>
TwoValues  == {Zero, <<v, "known">>}

Same(e)     == e
MovedOut(e) == <<e[1], "moved">>

Identical == Permutations(Buffers)
=============================================================================
