---------------------------- MODULE SuitesProofs ----------------------------
(***************************************************************************)
(* What Suites claims of calls in any order, without the bound on the      *)
(* number of locks: the theorems of QueueDoublesProofs at its instance.    *)
(***************************************************************************)
EXTENDS Suites, TLAPS

\* The instance Any, with the theorems about it.
Doubles == INSTANCE QueueDoublesProofs WITH
             Queues <- {"q1", "q2"}, Values <- {"v"}, Capacities <- {0, 2},
             FalseTries <- {0, 1}, CopyOf <- Same, MoveOf <- Same, Rotates <- TRUE

\* The elements of this instance.
E == {"v"}

\* Nil is neither an element nor a record of members.
NilIsNothing == Nil # "v" /\ Doubles!NilIsNoQueue(E)

SuitesInv == program = "any calls" => Doubles!DoublesInv(E)

-----------------------------------------------------------------------------
(* The two instances are the same. *)

LEMMA AnyNext == Any!Next <=> Doubles!Next
<1> USE DEF Any!alive, Doubles!alive, Any!Adding, Doubles!Adding, Any!Costs,
            Doubles!Costs, Any!Become, Doubles!Become, Any!New, Doubles!New, Any!Alike,
            Doubles!Alike, Any!SameType, Doubles!SameType, Any!Done, Doubles!Done,
            Any!Bool, Doubles!Bool, Any!InvalidArgument, Doubles!InvalidArgument,
            Any!Locked, Doubles!Locked, Any!do_full, Doubles!do_full, Any!do_empty,
            Doubles!do_empty, Any!Allocated, Doubles!Allocated, Any!Refuse,
            Doubles!Refuse, Any!Serve, Doubles!Serve, Any!do_push, Doubles!do_push,
            Any!do_pop, Doubles!do_pop, Any!element, Doubles!element,
            Any!to_buffer_index, Doubles!to_buffer_index, Any!Failures,
            Doubles!Failures, Any!RefusedBy, Doubles!RefusedBy, Any!SwapCosts,
            Doubles!SwapCosts, Any!FailedRound, Doubles!FailedRound, Any!LastRound,
            Doubles!LastRound, Any!Guards, Doubles!Guards, Any!CostsOfSwap, Doubles!CostsOfSwap, Any!Remaining,
            Doubles!Remaining, Any!After, Doubles!After, Any!Keep, Doubles!Keep,
            Any!CopyFrom, Doubles!CopyFrom, Any!CopyRefused, Doubles!CopyRefused, Same
<1>1. \A q, n, k, c : Any!Construct(q, n, k, c) <=> Doubles!Construct(q, n, k, c)
  BY DEF Any!Construct, Doubles!Construct
<1>2. \A q, v, op, by : Any!Push(q, v, op, by) <=> Doubles!Push(q, v, op, by)
  BY DEF Any!Push, Doubles!Push
<1>3. \A q, op : (Any!Pop(q) <=> Doubles!Pop(q)) /\ (Any!PopTo(q, op) <=> Doubles!PopTo(q, op))
  BY DEF Any!Pop, Doubles!Pop, Any!PopTo, Doubles!PopTo
<1>4. \A q : (Any!Measure(q) <=> Doubles!Measure(q)) /\ (Any!Destroy(q) <=> Doubles!Destroy(q))
  BY DEF Any!Measure, Doubles!Measure, Any!Destroy, Doubles!Destroy
<1>5. \A q, p : Any!Swap(q, p) <=> Doubles!Swap(q, p)
  BY DEF Any!Swap, Doubles!Swap
<1>6. \A q, p : Any!CopyAssign(q, p) <=> Doubles!CopyAssign(q, p)
  BY DEF Any!CopyAssign, Doubles!CopyAssign
<1>7. \A q, p : Any!CopyConstruct(q, p) <=> Doubles!CopyConstruct(q, p)
  BY DEF Any!CopyConstruct, Doubles!CopyConstruct
<1>8. \A q, p : Any!MoveConstruct(q, p) <=> Doubles!MoveConstruct(q, p)
  BY DEF Any!MoveConstruct, Doubles!MoveConstruct
<1>9. \A q, p : Any!MoveAssign(q, p) <=> Doubles!MoveAssign(q, p)
  BY <1>5 DEF Any!MoveAssign, Doubles!MoveAssign
<1> QED
  BY <1>1, <1>2, <1>3, <1>4, <1>5, <1>6, <1>7, <1>8, <1>9 DEF Any!Next, Doubles!Next

LEMMA SameProperties ==
  /\ Any!Init => Doubles!Init
  /\ Doubles!ElementsAccounted => Any!ElementsAccounted
<1>1. Any!Init => Doubles!Init
  BY DEF Any!Init, Doubles!Init, Any!Zero, Doubles!Zero, Any!Done, Doubles!Done
<1>2. Doubles!ElementsAccounted => Any!ElementsAccounted
  BY DEF Any!ElementsAccounted, Doubles!ElementsAccounted, Any!Living, Doubles!Living,
         Any!Constructed, Doubles!Constructed, Any!alive, Doubles!alive,
         Any!Cardinality, Doubles!Cardinality
<1> QED
  BY <1>1, <1>2

-----------------------------------------------------------------------------
(* The invariant. *)

LEMMA Arguments ==
  ASSUME NilIsNothing
  PROVE  Doubles!NaturalArguments /\ Doubles!ElementsOf(E) /\ Doubles!NilIsNoQueue(E)
BY DEF NilIsNothing, E, Doubles!NaturalArguments, Doubles!ElementsOf, Same

LEMMA SuitesInitInv == Init => SuitesInv
<1> SUFFICES ASSUME Init, program = "any calls"
             PROVE  Doubles!DoublesInv(E)
  BY DEF SuitesInv
<1>1. Any!Init
  BY DEF Init
<1> QED
  BY <1>1, SameProperties, Doubles!InitLemma

\* Only the calls in any order touch what the invariant speaks of while they are
\* what is run.
LEMMA SuitesStepInv ==
  ASSUME NilIsNothing, SuitesInv, [Next]_all
  PROVE  SuitesInv'
<1> SUFFICES ASSUME program' = "any calls"
             PROVE  Doubles!DoublesInv(E)'
  BY DEF SuitesInv
<1>1. program = "any calls" /\ Doubles!DoublesInv(E)
  BY DEF Next, all, SuitesInv
<1>2. Any!Next \/ UNCHANGED all
  BY <1>1 DEF Next, AnyCall, Enough
<1>3. [Doubles!Next]_(Doubles!vars)
  BY <1>2, AnyNext DEF all, common, ofQueues, Doubles!vars
<1> QED
  BY <1>1, <1>3, Arguments, Doubles!StepLemma

LEMMA SuitesInvariance == ASSUME NilIsNothing PROVE Spec => []SuitesInv
BY SuitesInitInv, SuitesStepInv, PTL DEF Spec

\* However many calls in any order there are, every element that was ever constructed
\* was destroyed once, was handed out, or lives in a slot.
THEOREM ElementsAccountedUnbounded == ASSUME NilIsNothing PROVE Spec => []ElementsAccounted
<1>1. SuitesInv => ElementsAccounted
  <2> SUFFICES ASSUME Doubles!DoublesInv(E)
               PROVE  Doubles!ElementsAccounted
    BY SameProperties DEF SuitesInv, ElementsAccounted
  <2>1. Doubles!Living = Doubles!ElementsLeft(tally) /\ Doubles!Counted(tally)
    BY Doubles!LivingLemma DEF Doubles!DoublesInv
  <2> QED
    BY <2>1 DEF Doubles!Counted, Doubles!Counters, Doubles!ElementsLeft, Doubles!ElementsAccounted
<1> QED
  BY <1>1, SuitesInvariance, PTL
=============================================================================
