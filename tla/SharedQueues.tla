---------------------------- MODULE SharedQueues ----------------------------
(***************************************************************************)
(* What several bounded queues shared by threads promise.  Each queue is a *)
(* capacity and a sequence of elements.  A call takes effect at one        *)
(* instant: it puts an element, takes one, refuses, or exchanges two       *)
(* queues.  Copy assignment has two: the original is copied, and later the *)
(* copy replaces what the target had.  There are no slots, locks,          *)
(* notifications or temporaries here.  Where an operation of the elements  *)
(* throws, the call has failed, at one instant as well.                    *)
(***************************************************************************)
EXTENDS Naturals, Sequences

CONSTANTS Threads, Queues, Values, Start, Menu, Nil,
          Throws,      \* the operations of the elements that may throw
          Unmade       \* an element that is counted but was never made

VARIABLES value,     \* a queue's capacity and elements, or Nil
          call,      \* the call each thread is in
          phase,     \* how far that call is
          copy,      \* the copy that is to replace the target's value
          ret        \* what the call returns

vars == <<value, call, phase, copy, ret>>

Fresh(n) == [capacity |-> n, content |-> <<>>]

NoCall    == [op |-> "none", q |-> Nil, other |-> Nil, elem |-> Nil]
NoRet     == <<"none", Nil>>
Refused   == <<"bool", FALSE>>
Threw     == <<"invalid_argument", Nil>>
Exception == <<"threw", Nil>>
Void      == <<"void", Nil>>

PushOps == {"push", "try_push", "try_push_for"}
PopOps  == {"pop", "try_pop", "try_pop_for"}

Init == /\ value = [q \in Queues |-> IF Start[q] = 0 THEN Nil ELSE Fresh(Start[q])]
        /\ call  = [t \in Threads |-> NoCall]
        /\ phase = [t \in Threads |-> "idle"]
        /\ copy  = [t \in Threads |-> Nil]
        /\ ret   = [t \in Threads |-> NoRet]

Invoke(t, c) ==
  /\ phase[t] = "idle"
  /\ c \in Menu[t]
  /\ phase' = [phase EXCEPT ![t] = "called"]
  /\ call'  = [call EXCEPT ![t] = c]
  /\ UNCHANGED <<value, copy, ret>>

\* The call of t takes effect: the queues become v, the call returns r.
Effect(t, v, r) ==
  /\ phase' = [phase EXCEPT ![t] = "done"]
  /\ value' = v
  /\ ret'   = [ret EXCEPT ![t] = r]
  /\ UNCHANGED call

Put(t) == LET q == call[t].q IN
  /\ phase[t] = "called" /\ call[t].op \in PushOps
  /\ Len(value[q].content) < value[q].capacity
  /\ Effect(t, [value EXCEPT ![q].content = Append(@, call[t].elem)],
            IF call[t].op = "push" THEN Void ELSE <<"bool", TRUE>>)
  /\ UNCHANGED copy

Take(t) == LET q == call[t].q IN
  /\ phase[t] = "called" /\ call[t].op \in PopOps
  /\ value[q].content # <<>>
  /\ Effect(t, [value EXCEPT ![q].content = Tail(@)], <<"element", Head(value[q].content)>>)
  /\ UNCHANGED copy

\* A push whose element cannot be made is counted all the same.
PutFails(t) == LET q == call[t].q IN
  /\ "construct" \in Throws
  /\ phase[t] = "called" /\ call[t].op \in PushOps
  /\ Len(value[q].content) < value[q].capacity
  /\ Effect(t, [value EXCEPT ![q].content = Append(@, Unmade)], Exception)
  /\ UNCHANGED copy

\* A pop whose element cannot be moved out leaves it there; one whose element
\* cannot be assigned to the target loses it.
TakeFails(t) == LET q == call[t].q IN
  /\ phase[t] = "called" /\ call[t].op \in PopOps
  /\ value[q].content # <<>>
  /\ \/ "construct" \in Throws /\ Effect(t, value, Exception)
     \/ /\ "assign" \in Throws /\ call[t].op # "pop"
        /\ Effect(t, [value EXCEPT ![q].content = Tail(@)], Exception)
  /\ UNCHANGED copy

Refuse(t) == LET q == call[t].q IN
  /\ phase[t] = "called"
  /\ \/ /\ call[t].op \in PushOps \ {"push"}
        /\ Len(value[q].content) = value[q].capacity
     \/ call[t].op \in PopOps \ {"pop"} /\ value[q].content = <<>>
  /\ Effect(t, value, Refused)
  /\ UNCHANGED copy

Observe(t) == LET q == call[t].q IN
  /\ phase[t] = "called" /\ call[t].op = "size"
  /\ Effect(t, value, <<"count", Len(value[q].content)>>)
  /\ UNCHANGED copy

\* swap, and move assignment, which exchanges as well.
Exchange(t) == LET q == call[t].q
                   p == call[t].other IN
  /\ phase[t] = "called" /\ call[t].op \in {"swap", "move_assign"}
  /\ Effect(t, [value EXCEPT ![q] = value[p], ![p] = value[q]], Void)
  /\ UNCHANGED copy

\* The new queue takes everything; the other is left without capacity.
Move(t) == LET q == call[t].q
               p == call[t].other IN
  /\ phase[t] = "called" /\ call[t].op = "move_construct"
  /\ Effect(t, [value EXCEPT ![q] = value[p], ![p] = Fresh(0)], Void)
  /\ UNCHANGED copy

\* A queue without capacity cannot be copied.
RefuseCopy(t) ==
  /\ phase[t] = "called" /\ call[t].op \in {"copy_construct", "copy_assign"}
  /\ value[call[t].other].capacity = 0
  /\ Effect(t, value, Threw)
  /\ UNCHANGED copy

Copy(t) == LET q == call[t].q
               p == call[t].other IN
  /\ phase[t] = "called" /\ call[t].op \in {"copy_construct", "copy_assign"}
  /\ value[p].capacity # 0
  /\ \/ /\ call[t].op = "copy_construct"
        /\ Effect(t, [value EXCEPT ![q] = value[p]], Void)
        /\ UNCHANGED copy
     \/ /\ call[t].op = "copy_assign"
        /\ q # p
        /\ phase' = [phase EXCEPT ![t] = "copied"]
        /\ copy'  = [copy EXCEPT ![t] = value[p]]
        /\ UNCHANGED <<value, call, ret>>

\* The copy of an element throws; there is none to copy in an empty queue.
CopyFails(t) ==
  /\ "construct" \in Throws
  /\ phase[t] = "called" /\ call[t].op \in {"copy_construct", "copy_assign"}
  /\ value[call[t].other].content # <<>>
  /\ Effect(t, value, Exception)
  /\ UNCHANGED copy

Replace(t) ==
  /\ phase[t] = "copied"
  /\ Effect(t, [value EXCEPT ![call[t].q] = copy[t]], Void)
  /\ copy' = [copy EXCEPT ![t] = Nil]

\* An assignment of a queue to itself.
Ignore(t) ==
  /\ phase[t] = "called" /\ call[t].op \in {"copy_assign", "move_assign"}
  /\ call[t].q = call[t].other
  /\ Effect(t, value, Void)
  /\ UNCHANGED copy

Destroy(t) ==
  /\ phase[t] = "called" /\ call[t].op = "destroy"
  /\ Effect(t, [value EXCEPT ![call[t].q] = Nil], Void)
  /\ UNCHANGED copy

Respond(t) ==
  /\ phase[t] = "done"
  /\ phase' = [phase EXCEPT ![t] = "idle"]
  /\ call'  = [call EXCEPT ![t] = NoCall]
  /\ ret'   = [ret EXCEPT ![t] = NoRet]
  /\ UNCHANGED <<value, copy>>

Next == \E t \in Threads :
          \/ \E c \in Menu[t] : Invoke(t, c)
          \/ Put(t) \/ Take(t) \/ PutFails(t) \/ TakeFails(t)
          \/ Refuse(t) \/ Observe(t) \/ Exchange(t) \/ Move(t)
          \/ RefuseCopy(t) \/ Copy(t) \/ CopyFails(t) \/ Replace(t)
          \/ Ignore(t) \/ Destroy(t) \/ Respond(t)

Spec == Init /\ [][Next]_vars
=============================================================================
