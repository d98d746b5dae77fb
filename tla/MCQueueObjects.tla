--------------------------- MODULE MCQueueObjects ---------------------------
(***************************************************************************)
(* Instances of BoundedQueueObjects for TLC.                               *)
(***************************************************************************)
EXTENDS BoundedQueueObjects, TLC

CONSTANTS t1, t2, a, b, c, d, v1, v2

TwoThreads  == {t1, t2}
FourQueues  == {a, b, c, d}
TwoValues   == {v1, v2}

On(op, q)        == [op |-> op, q |-> q, other |-> Nil, elem |-> Nil]
Put(op, q, v)    == [op |-> op, q |-> q, other |-> Nil, elem |-> v]
With(op, q, p)   == [op |-> op, q |-> q, other |-> p, elem |-> Nil]

\* Two queues of the same size, a smaller one, and a name for a new one.
Sizes == (a :> 2) @@ (b :> 2) @@ (c :> 0) @@ (d :> 1)

\* Threads that push, pop, exchange and assign two queues of one size, in both
\* directions and to themselves, blocking and with a deadline.
Trading == (t1 :> {Put("try_push", a, v1), On("try_pop", a), With("swap", a, b),
                   With("copy_assign", a, b), With("copy_assign", a, a)})
        @@ (t2 :> {Put("push", b, v2), On("pop", b), On("size", a), With("swap", b, a),
                   With("move_assign", a, b), With("copy_assign", b, a)})

\* One thread makes and destroys a new queue and exchanges it for a smaller one,
\* the other keeps using the two it is made from.
Making == (t1 :> {With("copy_construct", c, a), With("move_construct", c, a),
                  With("swap", c, d), With("copy_assign", c, a), On("destroy", c),
                  On("try_pop", c), Put("try_push", c, v2)})
       @@ (t2 :> {Put("try_push_for", a, v1), Put("try_push", d, v2), On("try_pop_for", a),
                  On("pop", d), With("move_assign", a, a)})

\* Both threads produce and consume, and one of them exchanges the queues.
Blocking == (t1 :> {On("pop", a), Put("push", a, v1), Put("push", b, v1)})
         @@ (t2 :> {With("swap", a, b), Put("try_push", a, v1), On("try_pop_for", a),
                    On("pop", a)})

\* One thread copies a queue that the other exchanges for a smaller one.
Racing == (t1 :> {With("copy_construct", c, d), On("destroy", c)})
       @@ (t2 :> {With("swap", a, d), Put("try_push", a, v1)})
=============================================================================
