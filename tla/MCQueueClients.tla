-------------------------- MODULE MCQueueClients --------------------------
(***************************************************************************)
(* The tasks of the multi-threaded suite, scaled down, for TLC.            *)
(***************************************************************************)
EXTENDS QueueClients, TLC

CONSTANTS p1, p2, c1, c2, a, b, c, d

Tasks    == {p1, p2, c1, c2}
Elements == {a, b, c, d}
Anything == [t \in Tasks |-> Ops]

With(op, elem) == [op |-> op, elem |-> elem]
Do(op)         == With(op, Nil)

\* Two producers and two consumers that move four elements through the queue:
\* launchProducer and launchConsumer with slices of two.
Slices == (p1 :> <<With("push", a), With("push", b)>>)
       @@ (p2 :> <<With("push", c), With("push", d)>>)
       @@ (c1 :> <<Do("pop"), Do("pop")>>)
       @@ (c2 :> <<Do("pop"), Do("pop")>>)

\* Calls that give up, at once or after a while, and observers.
Impatient == (p1 :> <<With("try_push_for", a), With("try_push_for", b)>>)
          @@ (p2 :> <<With("try_push", c), Do("size")>>)
          @@ (c1 :> <<Do("try_pop_for"), Do("try_pop_for")>>)
          @@ (c2 :> <<Do("full"), Do("try_pop"), Do("empty")>>)

\* test_blocked_produced_unblocks: one push more than the ring takes, and the
\* pop that lets it through comes from another task.
Unblocking == (p1 :> <<With("push", a), With("push", b), With("push", c), Do("pop")>>)
           @@ (c1 :> <<Do("pop")>>)
           @@ [t \in {p2, c2} |-> <<>>]

SuitePrograms == {Slices, Impatient, Unblocking}

\* The tasks meet the premise under which nobody stays blocked.
ASSUME SuiteIsServed == \A tasks \in SuitePrograms : Served(tasks)
=============================================================================
