---------------------------- MODULE BoundedFifo ----------------------------
(***************************************************************************)
(* What BoundedQueue promises to the threads that share it: a bounded FIFO *)
(* on which every member function takes effect at one instant between its  *)
(* call and its return.  Slots, mutex and condition variables are absent;  *)
(* BoundedQueue.tla is shown to implement this module.                     *)
(*                                                                         *)
(* Where an operation of the elements throws, the call has failed, but its *)
(* effect is one of those that the queue shows, at one instant as well.    *)
(***************************************************************************)
EXTENDS Naturals, Sequences

CONSTANTS Threads,    \* the threads that call the queue
          Values,     \* the elements
          Capacity,   \* the size given to the constructor
          Throws,     \* the operations of the elements that may throw
          Nil         \* "no element"

PushOps   == {"push", "try_push", "try_push_for"}
PopOps    == {"pop", "try_pop", "try_pop_for"}
Observers == {"empty", "full", "size"}
Ops       == PushOps \cup PopOps \cup Observers

\* Calls that may give up; push and pop only ever return once they succeeded.
Refusable == (PushOps \cup PopOps) \ {"push", "pop"}

Calls  == [op : PushOps, elem : Values]
            \cup [op : PopOps \cup Observers, elem : {Nil}]
NoCall == [op |-> "none", elem |-> Nil]

VARIABLES queue,      \* the elements, oldest first; Nil is one that was never made
          call,       \* the call each thread is in
          ret,        \* what that call is going to return
          phase       \* "idle", "called" (no effect yet) or "done"

vars == <<queue, call, ret, phase>>

\* What a call returns: a tag for the C++ return type and the value.  A true
\* from try_pop and try_pop_for comes with the element put into the target,
\* so these return an "element" like pop does.
NoRet   == <<"none", Nil>>
Void    == <<"void", Nil>>
Refused == <<"bool", FALSE>>
Threw   == <<"threw", Nil>>
Pushed(op)  == IF op = "push" THEN Void ELSE <<"bool", TRUE>>
Observed(op, size) == CASE op = "empty" -> <<"bool", size = 0>>
                        [] op = "full"  -> <<"bool", size = Capacity>>
                        [] op = "size"  -> <<"count", size>>

Init == /\ queue = <<>>
        /\ call  = [t \in Threads |-> NoCall]
        /\ ret   = [t \in Threads |-> NoRet]
        /\ phase = [t \in Threads |-> "idle"]

Invoke(t, c) ==
  /\ phase[t] = "idle"
  /\ phase' = [phase EXCEPT ![t] = "called"]
  /\ call'  = [call EXCEPT ![t] = c]
  /\ UNCHANGED <<queue, ret>>

\* The instant at which the call of t takes effect and fixes its result.
Effect(t, result) ==
  /\ phase[t] = "called"
  /\ phase' = [phase EXCEPT ![t] = "done"]
  /\ ret'   = [ret EXCEPT ![t] = result]
  /\ UNCHANGED call

Put(t) ==
  /\ call[t].op \in PushOps
  /\ Len(queue) < Capacity
  /\ queue' = Append(queue, call[t].elem)
  /\ Effect(t, Pushed(call[t].op))

Take(t) ==
  /\ call[t].op \in PopOps
  /\ queue # <<>>
  /\ queue' = Tail(queue)
  /\ Effect(t, <<"element", Head(queue)>>)

\* A refusal is truthful: the queue is full (empty) at that very instant,
\* even for the timed calls.
Refuse(t) ==
  /\ call[t].op \in Refusable
  /\ IF call[t].op \in PushOps THEN Len(queue) = Capacity ELSE queue = <<>>
  /\ Effect(t, Refused)
  /\ UNCHANGED queue

Observe(t) ==
  /\ call[t].op \in Observers
  /\ Effect(t, Observed(call[t].op, Len(queue)))
  /\ UNCHANGED queue

\* A push whose element cannot be made is counted all the same.
PutFails(t) ==
  /\ "construct" \in Throws
  /\ call[t].op \in PushOps
  /\ Len(queue) < Capacity
  /\ queue' = Append(queue, Nil)
  /\ Effect(t, Threw)

\* A pop whose element cannot be moved out leaves it there; one whose element
\* cannot be assigned to the target loses it.
TakeFails(t) ==
  /\ call[t].op \in PopOps
  /\ queue # <<>>
  /\ \/ "construct" \in Throws /\ UNCHANGED queue
     \/ "assign" \in Throws /\ call[t].op # "pop" /\ queue' = Tail(queue)
  /\ Effect(t, Threw)

Respond(t) ==
  /\ phase[t] = "done"
  /\ phase' = [phase EXCEPT ![t] = "idle"]
  /\ call'  = [call EXCEPT ![t] = NoCall]
  /\ ret'   = [ret EXCEPT ![t] = NoRet]
  /\ UNCHANGED queue

Next == \E t \in Threads :
          \/ \E c \in Calls : Invoke(t, c)
          \/ Put(t) \/ Take(t) \/ Refuse(t) \/ Observe(t)
          \/ PutFails(t) \/ TakeFails(t)
          \/ Respond(t)

Spec == Init /\ [][Next]_vars
=============================================================================
