-------------------------- MODULE MCBoundedQueue --------------------------
(***************************************************************************)
(* Instances of BoundedQueue for TLC.                                      *)
(***************************************************************************)
EXTENDS BoundedQueue, TLC

CONSTANTS t1, t2, t3, v1, v2

TwoThreads   == {t1, t2}
ThreeThreads == {t1, t2, t3}

OneValue  == {v1}
TwoValues == {v1, v2}

\* Every thread may call everything.
AllOps == [t \in Threads |-> Ops]

Identical == Permutations(Threads) \cup Permutations(Values)
=============================================================================
