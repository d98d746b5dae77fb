------------------------- MODULE QueueClientsProofs -------------------------
(***************************************************************************)
(* Theorems about the tasks of QueueClients, for any number of tasks, any  *)
(* programs, any capacity and element operations that may throw.           *)
(*                                                                         *)
(* What the proofs need to know of a step of a task is whether it fixes a  *)
(* result, and what it does to the ring (StepLemma); which of the fifteen  *)
(* kinds of step it is does not matter beyond that.                        *)
(***************************************************************************)
EXTENDS QueueClients, BoundedQueueProofs

-----------------------------------------------------------------------------
(* The inductive invariant. *)

\* A task has got results for the calls it made so far, and a task inside a
\* call is in the next one of its program.
ProgramInv ==
  /\ program \in Programs
  /\ results \in [Threads -> Seq(Results)]
  /\ \A t \in Threads :
       /\ Len(results[t]) <= Len(program[t])
       /\ pc[t] # "idle" => /\ Len(results[t]) < Len(program[t])
                            /\ call[t] = program[t][Len(results[t]) + 1]

ClientInv == IInv /\ ProgramInv /\ NoStrayElement

LEMMA ProgramLemma ==
  ASSUME ProgramInv, NEW t \in Threads
  PROVE  /\ program[t] \in Seq(Calls)
         /\ Len(program[t]) \in Nat
         /\ results[t] \in Seq(Results)
         /\ Len(results[t]) \in Nat
         /\ \A i \in 1 .. Len(program[t]) : program[t][i] \in Calls
<1>1. program[t] \in Seq(Calls) /\ results[t] \in Seq(Results)
  BY ProgramAssumption DEF ProgramInv
<1> QED
  BY <1>1, LenProperties

LEMMA SettledLemma ==
  ASSUME TypeOK, ProgramInv, NEW t \in Threads
  PROVE  /\ Settled(t) \in Seq(Results)
         /\ Len(Settled(t)) \in Nat
         /\ DOMAIN Settled(t) = 1 .. Len(Settled(t))
<1>1. results[t] \in Seq(Results) /\ ret[t] \in Results
  BY ProgramLemma DEF TypeOK
<1>2. Settled(t) \in Seq(Results)
  BY <1>1, AppendProperties DEF Settled
<1> QED
  BY <1>2, LenProperties

-----------------------------------------------------------------------------
(* What a step of a task amounts to. *)

\* t's next call is the one it is in, and has no result yet.
Pending(t) == /\ Len(Settled(t)) < Len(program[t])
              /\ call[t] = program[t][Len(Settled(t)) + 1]

\* t gets r, nobody else gets anything.
Gets(t, r) == /\ Settled(t)' = Append(Settled(t), r)
              /\ \A u \in Threads \ {t} : Settled(u)' = Settled(u)

Quiet == /\ \A u \in Threads : Settled(u)' = Settled(u)
         /\ UNCHANGED ring

\* A refusal, an exception or an observation: no element enters or leaves, but
\* with the exception of a push m_size may count one more.  A call that waits
\* without a deadline is never refused.
Answered(t) == /\ UNCHANGED <<m_first, m_data>>
               /\ m_size' \in {m_size, m_size + 1}
               /\ \E r \in Results :
                    /\ Gets(t, r)
                    /\ r[1] # "element"
                    /\ call[t].op \in PushOps \cup PopOps => r \in {Refused, Exception}
                    /\ call[t].op \in {"push", "pop"} => r = Exception
                    /\ ~(call[t].op \in PushOps /\ r = Exception) => m_size' = m_size

Put(t) == /\ call[t].op \in PushOps
          /\ ~do_full
          /\ do_push(call[t].elem)
          /\ \E r \in {<<"void", Nil>>, <<"bool", TRUE>>} : Gets(t, r)

Took(t) == /\ call[t].op \in PopOps
           /\ ~do_empty
           /\ do_pop
           /\ Gets(t, <<"element", m_data[m_first]>>)

\* The element is popped, and lost in the assignment to the target.
Lost(t) == /\ "assign" \in Throws
           /\ call[t].op \in PopOps
           /\ ~do_empty
           /\ do_pop
           /\ Gets(t, Exception)

\* A task calls member functions with arguments of their types.
LEMMA IssueLemma ==
  ASSUME ProgramInv, NEW t \in Threads, Issue(t)
  PROVE  /\ Len(results[t]) + 1 \in 1 .. Len(program[t])
         /\ program[t][Len(results[t]) + 1] \in Calls
<1>1. Len(results[t]) + 1 \in 1 .. Len(program[t])
  BY ProgramLemma DEF ProgramInv, Issue, Done
<1> QED
  BY <1>1, ProgramLemma

LEMMA NextLemma ==
  ASSUME ProgramInv, [ClientNext]_clientVars
  PROVE  [Next]_vars
<1>1. CASE UNCHANGED clientVars
  BY <1>1 DEF clientVars
<1>2. ASSUME NEW t \in Threads, Issue(t)
      PROVE  Next
  BY <1>2, IssueLemma DEF Issue, Next
<1>3. ASSUME NEW t \in Threads, Inside(t) \/ Collect(t) \/ Disturb(t)
      PROVE  Next
  BY <1>3 DEF Inside, Collect, Disturb, Progress, Next
<1> QED
  BY <1>1, <1>2, <1>3 DEF ClientNext, Advance

-----------------------------------------------------------------------------
(* The tasks follow their programs. *)

\* Inside a call, and while it waits, a task stays in that call.
LEMMA StaysInside ==
  ASSUME IInv, NEW t \in Threads, Inside(t) \/ Disturb(t)
  PROVE  /\ \A u \in Threads : pc[u] # "idle" <=> pc'[u] # "idle"
         /\ call' = call
         /\ UNCHANGED <<program, results>>
<1> USE DEF IInv, TypeOK, Goto, Places, Critical
<1>1. CASE Lock(t)
  BY <1>1 DEF Inside, Disturb, Lock
<1>2. CASE Observe(t)
  BY <1>2 DEF Inside, Disturb, Observe
<1>3. CASE Admit(t)
  BY <1>3 DEF Inside, Disturb, Admit
<1>4. CASE Refuse(t)
  BY <1>4 DEF Inside, Disturb, Refuse
<1>5. CASE Block(t)
  BY <1>5 DEF Inside, Disturb, Block
<1>6. CASE Expire(t)
  BY <1>6 DEF Inside, Disturb, Expire
<1>7. CASE Push(t)
  BY <1>7 DEF Inside, Disturb, Push
<1>8. CASE Pop(t)
  BY <1>8 DEF Inside, Disturb, Pop
<1>9. CASE Throw(t)
  BY <1>9 DEF Inside, Disturb, Throw, PushThrows, PopThrows, AssignThrows, Unwind
<1>10. CASE Notify(t)
  BY <1>10 DEF Inside, Disturb, Notify, PlaceInv
<1>11. CASE WakeSpuriously(t)
  BY <1>11 DEF Inside, Disturb, WakeSpuriously
<1>12. Inside(t) => ~Unlock(t)
  BY DEF Inside, Unlock
<1>13. /\ Inside(t) => Progress(t) /\ UNCHANGED <<program, results>>
       /\ Disturb(t) => WakeSpuriously(t) /\ UNCHANGED <<program, results>>
  BY DEF Inside, Disturb
<1> QED
  BY <1>1, <1>2, <1>3, <1>4, <1>5, <1>6, <1>7, <1>8, <1>9, <1>10, <1>11, <1>12, <1>13
     DEF Progress

LEMMA ProgramStep ==
  ASSUME IInv, ProgramInv, [ClientNext]_clientVars
  PROVE  ProgramInv'
<1>1. CASE UNCHANGED clientVars
  BY <1>1 DEF clientVars, vars, ProgramInv
<1>2. ASSUME NEW t \in Threads, Issue(t)
      PROVE  ProgramInv'
  <2>1. /\ pc' = [pc EXCEPT ![t] = "lock"]
        /\ call' = [call EXCEPT ![t] = program[t][Len(results[t]) + 1]]
        /\ UNCHANGED <<program, results>>
    BY <1>2 DEF Issue, Call, Goto
  <2>2. Len(results[t]) < Len(program[t])
    BY <1>2, IssueLemma, ProgramLemma
  <2> QED
    BY <2>1, <2>2 DEF ProgramInv, IInv, TypeOK
<1>3. ASSUME NEW t \in Threads, Inside(t) \/ Disturb(t)
      PROVE  ProgramInv'
  BY <1>3, StaysInside DEF ProgramInv
<1>4. ASSUME NEW t \in Threads, Collect(t)
      PROVE  ProgramInv'
  <2>1. /\ pc[t] = "unlock" /\ pc' = [pc EXCEPT ![t] = "idle"]
        /\ call' = [call EXCEPT ![t] = NoCall]
        /\ results' = [results EXCEPT ![t] = Append(@, ret[t])]
        /\ program' = program
    BY <1>4 DEF Collect, Unlock, Goto
  <2>2. Append(results[t], ret[t]) \in Seq(Results)
    BY ProgramLemma, AppendProperties DEF IInv, TypeOK
  <2>3. Len(Append(results[t], ret[t])) <= Len(program[t])
    <3>1. Len(Append(results[t], ret[t])) = Len(results[t]) + 1
      BY ProgramLemma, AppendProperties DEF IInv, TypeOK
    <3>2. Len(results[t]) < Len(program[t])
      BY <2>1 DEF ProgramInv
    <3> QED
      BY <3>1, <3>2, ProgramLemma
  <2> QED
    BY <2>1, <2>2, <2>3 DEF ProgramInv, IInv, TypeOK
<1> QED
  BY <1>1, <1>2, <1>3, <1>4 DEF ClientNext, Advance

-----------------------------------------------------------------------------
(* The steps of the tasks, sorted by what they amount to. *)

\* A step that settles nothing and leaves the ring alone.
LEMMA QuietLemma ==
  ASSUME IInv, NEW t \in Threads, Inside(t) \/ Disturb(t),
         Lock(t) \/ Admit(t) \/ Block(t) \/ Expire(t) \/ Notify(t) \/ WakeSpuriously(t)
  PROVE  Quiet
<1> USE DEF IInv, TypeOK, Goto, Places, Critical, Quiet, Settled
<1>0. results' = results
  BY DEF Inside, Disturb
<1>1. CASE Lock(t)
  BY <1>0, <1>1 DEF Lock
<1>2. CASE Admit(t)
  BY <1>0, <1>2 DEF Admit
<1>3. CASE Block(t)
  BY <1>0, <1>3 DEF Block
<1>4. CASE Expire(t)
  BY <1>0, <1>4 DEF Expire
<1>5. CASE Notify(t)
  BY <1>0, <1>5 DEF Notify, PlaceInv
<1>6. CASE WakeSpuriously(t)
  BY <1>0, <1>6 DEF WakeSpuriously
<1> QED
  BY <1>1, <1>2, <1>3, <1>4, <1>5, <1>6

\* A step that settles the result of t's call.
LEMMA GetsLemma ==
  ASSUME IInv, NEW t \in Threads, NEW r, NEW place \in {"notify", "unlock"},
         pc[t] \in {"decide", "apply"}, Goto(t, place), Return(t, r),
         UNCHANGED results
  PROVE  Gets(t, r)
BY DEF IInv, TypeOK, Goto, Return, Gets, Settled

LEMMA PendingLemma ==
  ASSUME ProgramInv, NEW t \in Threads, pc[t] \in {"decide", "apply"}
  PROVE  Pending(t) /\ Settled(t) = results[t]
BY DEF ProgramInv, Pending, Settled

LEMMA StepLemma ==
  ASSUME IInv, ProgramInv, [ClientNext]_clientVars
  PROVE  \/ Quiet
         \/ \E t \in Threads : /\ Pending(t)
                               /\ Answered(t) \/ Put(t) \/ Took(t) \/ Lost(t)
<1>1. CASE UNCHANGED clientVars
  BY <1>1 DEF clientVars, vars, Quiet, Settled, ring
<1>2. ASSUME NEW t \in Threads, Issue(t)
      PROVE  Quiet
  BY <1>2 DEF Issue, Call, Goto, Quiet, Settled, IInv, TypeOK, ring
<1>3. ASSUME NEW t \in Threads, Collect(t)
      PROVE  Quiet
  <2>1. /\ pc[t] = "unlock" /\ pc' = [pc EXCEPT ![t] = "idle"]
        /\ results' = [results EXCEPT ![t] = Append(@, ret[t])]
        /\ ret' = [ret EXCEPT ![t] = NoRet]
        /\ UNCHANGED ring
    BY <1>3 DEF Collect, Unlock, Goto
  <2>2. results \in [Threads -> Seq(Results)] /\ pc \in [Threads -> Places]
        /\ ret \in [Threads -> Results]
    BY DEF ProgramInv, IInv, TypeOK
  <2> QED
    BY <2>1, <2>2 DEF Quiet, Settled
<1>4. ASSUME NEW t \in Threads, Inside(t) \/ Disturb(t)
      PROVE  \/ Quiet
             \/ Pending(t) /\ (Answered(t) \/ Put(t) \/ Took(t) \/ Lost(t))
  <2>0. /\ UNCHANGED results
        /\ call[t] \in Calls \cup {NoCall}
        /\ pc[t] = "apply" => call[t].op \in PushOps \cup PopOps /\ Ready(t)
    BY <1>4 DEF Inside, Disturb, IInv, TypeOK, PlaceInv, PredicateStillHolds
  <2>1. CASE Lock(t) \/ Admit(t) \/ Block(t) \/ Expire(t) \/ Notify(t) \/ WakeSpuriously(t)
    BY <1>4, <2>1, QuietLemma
  <2>2. CASE Observe(t)
    <3>1. Observation(t) \in Results /\ Observation(t)[1] # "element"
      BY DEF Observation, Results, do_empty, do_full, IInv, TypeOK
    <3>2. Gets(t, Observation(t)) /\ Pending(t)
      BY <2>0, <2>2, GetsLemma, PendingLemma DEF Observe
    <3>3. UNCHANGED ring /\ call[t].op \notin PushOps \cup PopOps \cup {"push", "pop"}
      BY <2>2 DEF Observe, Observers, PushOps, PopOps
    <3> QED
      BY <3>1, <3>2, <3>3 DEF Answered, ring
  <2>3. CASE Refuse(t)
    <3>1. Gets(t, Refused) /\ Pending(t)
      BY <2>0, <2>3, GetsLemma, PendingLemma DEF Refuse
    <3>2. Refused \in Results /\ Refused[1] # "element"
      BY DEF Refused, Results
    <3>3. call[t].op \notin {"push", "pop"} /\ UNCHANGED ring
      BY <2>3 DEF Refuse, WaitOps, TimedOps, PlaceInv, IInv
    <3> QED
      BY <3>1, <3>2, <3>3 DEF Answered, ring
  <2>4. CASE Push(t)
    <3>1. Success(t) \in {<<"void", Nil>>, <<"bool", TRUE>>}
      BY <2>4 DEF Push, Success, PushOps, PopOps
    <3>2. Gets(t, Success(t)) /\ Pending(t)
      BY <2>0, <2>4, GetsLemma, PendingLemma DEF Push
    <3>3. ~do_full /\ call[t].op \in PushOps /\ do_push(call[t].elem)
      BY <2>0, <2>4 DEF Push, Ready
    <3> QED
      BY <3>1, <3>2, <3>3 DEF Put
  <2>5. CASE Pop(t)
    <3>1. Success(t) = <<"element", m_data[m_first]>>
      BY <2>5 DEF Pop, Success, PushOps, PopOps
    <3>2. Gets(t, Success(t)) /\ Pending(t)
      BY <2>0, <2>5, GetsLemma, PendingLemma DEF Pop
    <3>3. ~do_empty /\ call[t].op \in PopOps /\ do_pop
      BY <2>0, <2>5 DEF Pop, Ready, PushOps, PopOps
    <3> QED
      BY <3>1, <3>2, <3>3 DEF Took
  <2>6. CASE PushThrows(t) \/ PopThrows(t)
    <3>1. Gets(t, Exception) /\ Pending(t)
      BY <2>0, <2>6, GetsLemma, PendingLemma DEF PushThrows, PopThrows, Unwind
    <3>2. Exception \in Results /\ Exception[1] # "element"
      BY DEF Exception, Results
    <3>3. /\ UNCHANGED <<m_first, m_data>> /\ m_size' \in {m_size, m_size + 1}
          /\ call[t].op \in PushOps \/ m_size' = m_size
      BY <2>6 DEF PushThrows, PopThrows, ring
    <3> QED
      BY <3>1, <3>2, <3>3 DEF Answered
  <2>7. CASE AssignThrows(t)
    <3>1. Gets(t, Exception) /\ Pending(t)
      BY <2>0, <2>7, GetsLemma, PendingLemma DEF AssignThrows, Unwind
    <3>2. "assign" \in Throws /\ ~do_empty /\ call[t].op \in PopOps /\ do_pop
      BY <2>0, <2>7 DEF AssignThrows, Unwind, Ready, PushOps, PopOps
    <3> QED
      BY <3>1, <3>2 DEF Lost
  <2>8. /\ Inside(t) => Progress(t) /\ ~Unlock(t)
        /\ Disturb(t) => WakeSpuriously(t)
    BY DEF Inside, Disturb, Unlock
  <2> QED
    BY <1>4, <2>1, <2>2, <2>3, <2>4, <2>5, <2>6, <2>7, <2>8 DEF Progress, Throw
<1> QED
  BY <1>1, <1>2, <1>3, <1>4 DEF ClientNext, Advance

-----------------------------------------------------------------------------
(* The invariant. *)

LEMMA ClientInitInv == ClientInit => ClientInv
<1> SUFFICES ASSUME ClientInit
             PROVE  ClientInv
  OBVIOUS
<1>1. IInv
  BY InitIInv DEF ClientInit
<1>2. ProgramInv
  <2>1. \A t \in Threads : Len(program[t]) \in Nat
    BY ProgramAssumption, LenProperties DEF ClientInit
  <2>2. <<>> \in Seq(Results) /\ Len(<<>>) = 0
    BY EmptySeq
  <2> QED
    BY <2>1, <2>2 DEF ClientInit, Init, ProgramInv
<1>3. NoStrayElement
  BY DEF ClientInit, Init, NoStrayElement
<1> QED
  BY <1>1, <1>2, <1>3 DEF ClientInv

LEMMA ClientStepInv == ClientInv /\ [ClientNext]_clientVars => ClientInv'
BY NextLemma, StepIInv, ProgramStep, StrayStep DEF ClientInv

LEMMA ClientInvariance == ClientSpec => []ClientInv
BY ClientInitInv, ClientStepInv, PTL DEF ClientSpec

\* The tasks use the queue as any threads might: whatever is proved about
\* BoundedQueue holds while they run.
THEOREM ClientsUseQueue == ClientSpec => Spec
<1>1. ClientInit => Init
  BY DEF ClientInit
<1>2. ClientInv /\ [ClientNext]_clientVars => [Next]_vars
  BY NextLemma DEF ClientInv
<1> QED
  BY <1>1, <1>2, ClientInvariance, PTL DEF ClientSpec, Spec

-----------------------------------------------------------------------------
(* The calls that have ended. *)

\* The calls with these numbers.
CallSet(numbers) == UNION {{u} \X numbers[u] : u \in Threads}

EndedOf(calls, outcomes) ==
  [u \in Threads |-> {i \in DOMAIN Settled(u) : /\ program[u][i] \in calls
                                                /\ Settled(u)[i] \in outcomes}]

LEMMA OneMoreCall ==
  ASSUME NEW P, NEW Q, NEW t \in Threads, NEW n, n \notin P[t],
         Q[t] = P[t] \cup {n}, \A u \in Threads \ {t} : Q[u] = P[u],
         IsFiniteSet(CallSet(P))
  PROVE  /\ IsFiniteSet(CallSet(Q))
         /\ Cardinality(CallSet(Q)) = Cardinality(CallSet(P)) + 1
<1>1. CallSet(Q) = CallSet(P) \cup {<<t, n>>}
  <2>1. ASSUME NEW e, e \in CallSet(Q)
        PROVE  e \in CallSet(P) \cup {<<t, n>>}
    <3>1. PICK u \in Threads : e \in {u} \X Q[u]
      BY <2>1 DEF CallSet
    <3>2. PICK k \in Q[u] : e = <<u, k>>
      BY <3>1
    <3>3. CASE u = t /\ k = n
      BY <3>2, <3>3
    <3>4. CASE ~(u = t /\ k = n)
      <4>1. e \in {u} \X P[u]
        BY <3>2, <3>4
      <4> QED
        BY <4>1 DEF CallSet
    <3> QED
      BY <3>3, <3>4
  <2>2. ASSUME NEW e, e \in CallSet(P)
        PROVE  e \in CallSet(Q)
    <3>1. PICK u \in Threads : e \in {u} \X P[u]
      BY <2>2 DEF CallSet
    <3>2. e \in {u} \X Q[u]
      BY <3>1
    <3> QED
      BY <3>2 DEF CallSet
  <2>3. <<t, n>> \in CallSet(Q)
    <3>1. <<t, n>> \in {t} \X Q[t]
      OBVIOUS
    <3> QED
      BY <3>1 DEF CallSet
  <2> QED
    BY <2>1, <2>2, <2>3
<1>2. <<t, n>> \notin CallSet(P)
  <2> SUFFICES ASSUME NEW u \in Threads, <<t, n>> \in {u} \X P[u]
               PROVE  FALSE
    BY DEF CallSet
  <2> QED
    OBVIOUS
<1>3. /\ IsFiniteSet(CallSet(P) \cup {<<t, n>>})
      /\ Cardinality(CallSet(P) \cup {<<t, n>>}) = Cardinality(CallSet(P)) + 1
  BY <1>2, FS_AddElement, Zenon
<1> QED
  BY <1>1, <1>3, Zenon

LEMMA SameCalls ==
  ASSUME NEW P, NEW Q, \A u \in Threads : Q[u] = P[u]
  PROVE  CallSet(Q) = CallSet(P)
<1>1. \A u \in Threads : {u} \X Q[u] = {u} \X P[u]
  OBVIOUS
<1> QED
  BY <1>1 DEF CallSet

LEMMA InEnded ==
  ASSUME NEW calls, NEW outcomes, NEW e
  PROVE  e \in Ended(calls, outcomes) <=>
           \E u \in Threads : \E i \in DOMAIN Settled(u) :
             /\ e = <<u, i>>
             /\ program[u][i] \in calls
             /\ Settled(u)[i] \in outcomes
<1>1. ASSUME e \in Ended(calls, outcomes)
      PROVE  \E u \in Threads : \E i \in DOMAIN Settled(u) :
               /\ e = <<u, i>> /\ program[u][i] \in calls /\ Settled(u)[i] \in outcomes
  <2>1. PICK u \in Threads : e \in {u} \X {i \in DOMAIN Settled(u) :
                                /\ program[u][i] \in calls /\ Settled(u)[i] \in outcomes}
    BY <1>1 DEF Ended
  <2> QED
    BY <2>1
<1>2. ASSUME NEW u \in Threads, NEW i \in DOMAIN Settled(u), e = <<u, i>>,
             program[u][i] \in calls, Settled(u)[i] \in outcomes
      PROVE  e \in Ended(calls, outcomes)
  <2>1. e \in {u} \X {j \in DOMAIN Settled(u) :
                        /\ program[u][j] \in calls /\ Settled(u)[j] \in outcomes}
    BY <1>2
  <2> QED
    BY <2>1 DEF Ended
<1> QED
  BY <1>1, <1>2

\* A result r for t ends t's call, and no other.
LEMMA EndedGets ==
  ASSUME TypeOK, ProgramInv, program' = program, NEW t \in Threads, NEW r \in Results,
         Pending(t), Gets(t, r), NEW calls, NEW outcomes,
         IsFiniteSet(Ended(calls, outcomes))
  PROVE  IF call[t] \in calls /\ r \in outcomes
           THEN /\ IsFiniteSet(Ended(calls, outcomes)')
                /\ Cardinality(Ended(calls, outcomes)') = Cardinality(Ended(calls, outcomes)) + 1
           ELSE Ended(calls, outcomes)' = Ended(calls, outcomes)
<1>0. PICK n : n = Len(Settled(t)) + 1
  OBVIOUS
<1>1. /\ Settled(t) \in Seq(Results) /\ Len(Settled(t)) \in Nat
      /\ DOMAIN Settled(t) = 1 .. Len(Settled(t))
  BY SettledLemma
<1>2. /\ Settled(t)' = Append(Settled(t), r)
      /\ \A u \in Threads \ {t} : Settled(u)' = Settled(u)
  BY DEF Gets
<1>3. /\ DOMAIN (Settled(t)') = 1 .. n
      /\ Settled(t)'[n] = r
      /\ \A i \in 1 .. Len(Settled(t)) : Settled(t)'[i] = Settled(t)[i]
  <2>1. /\ Append(Settled(t), r) \in Seq(Results)
        /\ Len(Append(Settled(t), r)) = n
        /\ \A i \in 1 .. Len(Settled(t)) : Append(Settled(t), r)[i] = Settled(t)[i]
        /\ Append(Settled(t), r)[n] = r
    BY <1>0, <1>1, AppendProperties
  <2> QED
    BY <1>0, <1>2, <2>1, LenProperties
<1>4. call[t] = program[t][n]
  BY <1>0 DEF Pending
<1>5. PICK P, Q : P = EndedOf(calls, outcomes) /\ Q = EndedOf(calls, outcomes)'
  OBVIOUS
<1>6. /\ P[t] = {i \in DOMAIN Settled(t) : program[t][i] \in calls /\ Settled(t)[i] \in outcomes}
      /\ Q[t] = {i \in DOMAIN (Settled(t)') : program'[t][i] \in calls
                                               /\ Settled(t)'[i] \in outcomes}
  BY <1>5 DEF EndedOf
<1>7. \A u \in Threads \ {t} : Q[u] = P[u]
  BY <1>2, <1>5 DEF EndedOf
<1>8. n \notin P[t]
  BY <1>0, <1>1, <1>6
<1>9. IsFiniteSet(CallSet(P))
  BY <1>5 DEF Ended, EndedOf, CallSet
<1>10. CASE call[t] \in calls /\ r \in outcomes
  <2>1. Q[t] = P[t] \cup {n}
    BY <1>0, <1>1, <1>3, <1>4, <1>6, <1>10
  <2>2. /\ IsFiniteSet(CallSet(Q))
        /\ Cardinality(CallSet(Q)) = Cardinality(CallSet(P)) + 1
    BY <1>7, <1>8, <1>9, <2>1, OneMoreCall
  <2>3. Ended(calls, outcomes)' = CallSet(Q) /\ Ended(calls, outcomes) = CallSet(P)
    BY <1>5 DEF Ended, EndedOf, CallSet
  <2> QED
    BY <1>10, <2>2, <2>3
<1>11. CASE ~(call[t] \in calls /\ r \in outcomes)
  <2>1. Q[t] = P[t]
    BY <1>0, <1>1, <1>3, <1>4, <1>6, <1>11
  <2>2. CallSet(Q) = CallSet(P)
    BY <1>7, <2>1, SameCalls
  <2>3. Ended(calls, outcomes)' = CallSet(Q) /\ Ended(calls, outcomes) = CallSet(P)
    BY <1>5 DEF Ended, EndedOf, CallSet
  <2> QED
    BY <1>11, <2>2, <2>3
<1> QED
  BY <1>10, <1>11

\* Nothing ends where no result is settled.
LEMMA EndedQuiet ==
  ASSUME program' = program, \A u \in Threads : Settled(u)' = Settled(u),
         NEW calls, NEW outcomes
  PROVE  Ended(calls, outcomes)' = Ended(calls, outcomes)
<1>1. PICK P, Q : P = EndedOf(calls, outcomes) /\ Q = EndedOf(calls, outcomes)'
  OBVIOUS
<1>2. \A u \in Threads : Q[u] = P[u]
  BY <1>1 DEF EndedOf
<1>3. Ended(calls, outcomes)' = CallSet(Q) /\ Ended(calls, outcomes) = CallSet(P)
  BY <1>1 DEF Ended, EndedOf, CallSet
<1> QED
  BY <1>2, <1>3, SameCalls

LEMMA EndedInit ==
  ASSUME ClientInit, NEW calls, NEW outcomes
  PROVE  Ended(calls, outcomes) = {}
BY DEF ClientInit, Init, Ended, Settled

-----------------------------------------------------------------------------
(* No element is duplicated or invented, and none is lost but in failed pops. *)

\* The numbers of elements balance, for any set of values, and are numbers.
Balance(values) ==
  /\ IsFiniteSet(Accepted(values))
  /\ IsFiniteSet(Delivered(values))
  /\ IsFiniteSet(FailedPops)
  /\ Cardinality(Delivered(values)) + Cardinality(Held(values)) <= Cardinality(Accepted(values))
  /\ Cardinality(Accepted(values)) <=
       Cardinality(Delivered(values)) + Cardinality(Held(values)) + Cardinality(FailedPops)
  /\ "assign" \notin Throws =>
       Cardinality(Accepted(values)) = Cardinality(Delivered(values)) + Cardinality(Held(values))

LEMMA HeldLemma ==
  ASSUME NEW values
  PROVE  IsFiniteSet(Held(values)) /\ Cardinality(Held(values)) \in Nat
<1>1. IsFiniteSet(Slots)
  BY CapacityAssumption, FS_Interval DEF Slots
<1>2. IsFiniteSet(Held(values))
  BY <1>1, FS_Subset DEF Held
<1> QED
  BY <1>2, FS_CardinalityType

\* The numbers under Balance.
LEMMA BalanceNumbers ==
  ASSUME NEW values, Balance(values)
  PROVE  /\ Cardinality(Accepted(values)) \in Nat
         /\ Cardinality(Delivered(values)) \in Nat
         /\ Cardinality(Held(values)) \in Nat
         /\ Cardinality(FailedPops) \in Nat
BY HeldLemma, FS_CardinalityType DEF Balance

\* A result for a push that accepts one of the values, or for another call.
LEMMA AcceptedGets ==
  ASSUME TypeOK, ProgramInv, program' = program, NEW t \in Threads, NEW r \in Results,
         Pending(t), Gets(t, r), NEW values \in SUBSET Values, Balance(values)
  PROVE  IF /\ call[t].op \in PushOps /\ call[t].elem \in values
            /\ r \in {<<"void", Nil>>, <<"bool", TRUE>>}
           THEN /\ IsFiniteSet(Accepted(values)')
                /\ Cardinality(Accepted(values)') = Cardinality(Accepted(values)) + 1
           ELSE Accepted(values)' = Accepted(values)
<1>1. PICK C, R : C = [op : PushOps, elem : values] /\ R = {<<"void", Nil>>, <<"bool", TRUE>>}
  OBVIOUS
<1>2. /\ Accepted(values) = Ended(C, R)
      /\ Accepted(values)' = Ended(C, R)'
      /\ IsFiniteSet(Ended(C, R))
  BY <1>1 DEF Accepted, Balance
<1>3. call[t] \in C <=> call[t].op \in PushOps /\ call[t].elem \in values
  <2>1. Len(Settled(t)) + 1 \in 1 .. Len(program[t])
    BY SettledLemma, ProgramLemma DEF Pending
  <2>2. call[t] \in Calls
    BY <2>1, ProgramLemma DEF Pending
  <2> QED
    BY <1>1, <2>2 DEF Calls
<1>4. IF call[t] \in C /\ r \in R
        THEN /\ IsFiniteSet(Ended(C, R)')
             /\ Cardinality(Ended(C, R)') = Cardinality(Ended(C, R)) + 1
        ELSE Ended(C, R)' = Ended(C, R)
  BY <1>2, EndedGets, Zenon
<1>5. r \in R <=> r \in {<<"void", Nil>>, <<"bool", TRUE>>}
  BY <1>1
<1>6. CASE call[t] \in C /\ r \in R
  BY <1>2, <1>3, <1>4, <1>5, <1>6, Zenon
<1>7. CASE ~(call[t] \in C /\ r \in R)
  BY <1>2, <1>3, <1>4, <1>5, <1>7, Zenon
<1> QED
  BY <1>6, <1>7

\* A result that delivers one of the values, or another one.
LEMMA DeliveredGets ==
  ASSUME TypeOK, ProgramInv, program' = program, NEW t \in Threads, NEW r \in Results,
         Pending(t), Gets(t, r), NEW values \in SUBSET Values, Balance(values)
  PROVE  IF r \in {"element"} \X values
           THEN /\ IsFiniteSet(Delivered(values)')
                /\ Cardinality(Delivered(values)') = Cardinality(Delivered(values)) + 1
           ELSE Delivered(values)' = Delivered(values)
<1>1. PICK R : R = {"element"} \X values
  OBVIOUS
<1>2. /\ Delivered(values) = Ended(Calls, R)
      /\ Delivered(values)' = Ended(Calls, R)'
      /\ IsFiniteSet(Ended(Calls, R))
  BY <1>1 DEF Delivered, Balance
<1>3. call[t] \in Calls
  <2>1. Len(Settled(t)) + 1 \in 1 .. Len(program[t])
    BY SettledLemma, ProgramLemma DEF Pending
  <2> QED
    BY <2>1, ProgramLemma DEF Pending
<1>4. IF call[t] \in Calls /\ r \in R
        THEN /\ IsFiniteSet(Ended(Calls, R)')
             /\ Cardinality(Ended(Calls, R)') = Cardinality(Ended(Calls, R)) + 1
        ELSE Ended(Calls, R)' = Ended(Calls, R)
  BY <1>2, EndedGets, Zenon
<1>5. CASE r \in R
  BY <1>1, <1>2, <1>3, <1>4, <1>5, Zenon
<1>6. CASE r \notin R
  BY <1>1, <1>2, <1>4, <1>6, Zenon
<1> QED
  BY <1>5, <1>6

\* An exception that leaves a pop, or another result.
LEMMA FailedPopsGets ==
  ASSUME TypeOK, ProgramInv, program' = program, NEW t \in Threads, NEW r \in Results,
         Pending(t), Gets(t, r), IsFiniteSet(FailedPops)
  PROVE  IF call[t].op \in PopOps /\ r = Exception
           THEN /\ IsFiniteSet(FailedPops')
                /\ Cardinality(FailedPops') = Cardinality(FailedPops) + 1
           ELSE FailedPops' = FailedPops
<1>1. PICK C, R : C = [op : PopOps, elem : {Nil}] /\ R = {Exception}
  OBVIOUS
<1>2. /\ FailedPops = Ended(C, R)
      /\ FailedPops' = Ended(C, R)'
      /\ IsFiniteSet(Ended(C, R))
  BY <1>1 DEF FailedPops
<1>3. call[t] \in C <=> call[t].op \in PopOps
  <2>1. Len(Settled(t)) + 1 \in 1 .. Len(program[t])
    BY SettledLemma, ProgramLemma DEF Pending
  <2>2. call[t] \in Calls
    BY <2>1, ProgramLemma DEF Pending
  <2> QED
    BY <1>1, <2>2 DEF Calls, PushOps, PopOps
<1>4. IF call[t] \in C /\ r \in R
        THEN /\ IsFiniteSet(Ended(C, R)')
             /\ Cardinality(Ended(C, R)') = Cardinality(Ended(C, R)) + 1
        ELSE Ended(C, R)' = Ended(C, R)
  BY <1>2, EndedGets, Zenon
<1>5. r \in R <=> r = Exception
  BY <1>1
<1>6. CASE call[t] \in C /\ r \in R
  BY <1>2, <1>3, <1>4, <1>5, <1>6, Zenon
<1>7. CASE ~(call[t] \in C /\ r \in R)
  BY <1>2, <1>3, <1>4, <1>5, <1>7, Zenon
<1> QED
  BY <1>6, <1>7

\* The result of a push that was let through is no other result.
LEMMA PushResult ==
  ASSUME NEW r \in {<<"void", Nil>>, <<"bool", TRUE>>}
  PROVE  /\ r \in Results
         /\ r[1] # "element"
         /\ r # Exception
         /\ r # Refused
<1>1. CASE r = <<"void", Nil>>
  <2>1. r \in Results
    BY <1>1 DEF Results
  <2>2. r[1] # "element" /\ r # Exception /\ r # Refused
    BY <1>1 DEF Exception, Refused
  <2> QED
    BY <2>1, <2>2
<1>2. CASE r = <<"bool", TRUE>>
  <2>1. r \in Results
    BY <1>2 DEF Results
  <2>2. r[1] # "element" /\ r # Exception
    BY <1>2 DEF Exception
  <2>3. r # Refused
    BY <1>2 DEF Refused
  <2> QED
    BY <2>1, <2>2, <2>3
<1> QED
  BY <1>1, <1>2

LEMMA BalanceStep ==
  ASSUME ClientInv, program' = program, [ClientNext]_clientVars,
         NEW values \in SUBSET Values, Balance(values)
  PROVE  Balance(values)'
<1>0. TypeOK /\ ProgramInv /\ Nil \notin values
  BY NilAssumption DEF ClientInv, IInv
<1>1. /\ Cardinality(Accepted(values)) \in Nat /\ Cardinality(Delivered(values)) \in Nat
      /\ Cardinality(Held(values)) \in Nat /\ Cardinality(FailedPops) \in Nat
      /\ IsFiniteSet(Held(values))
  BY BalanceNumbers, HeldLemma
<1>2. CASE Quiet
  <2>1. Held(values)' = Held(values)
    BY <1>2 DEF Quiet, ring, Held
  <2>2. /\ Accepted(values)' = Accepted(values)
        /\ Delivered(values)' = Delivered(values)
        /\ FailedPops' = FailedPops
    BY <1>2, EndedQuiet DEF Quiet, Accepted, Delivered, FailedPops
  <2> QED
    BY <2>1, <2>2 DEF Balance
<1>3. ASSUME NEW t \in Threads, Pending(t), Answered(t)
      PROVE  Balance(values)'
  <2>1. PICK r \in Results : /\ Gets(t, r)
                             /\ r[1] # "element"
                             /\ call[t].op \in PushOps \cup PopOps => r \in {Refused, Exception}
    BY <1>3 DEF Answered
  <2>2. /\ r \notin {"element"} \X values
        /\ ~(call[t].op \in PushOps /\ r \in {<<"void", Nil>>, <<"bool", TRUE>>})
    BY <2>1, PushResult
  <2>3. Accepted(values)' = Accepted(values)
    BY <1>0, <1>3, <2>1, <2>2, AcceptedGets
  <2>4. Delivered(values)' = Delivered(values)
    BY <1>0, <1>3, <2>1, <2>2, DeliveredGets
  <2>5. Held(values)' = Held(values)
    BY <1>3 DEF Answered, Held
  <2>6. /\ IsFiniteSet(FailedPops') /\ Cardinality(FailedPops') \in Nat
        /\ Cardinality(FailedPops) <= Cardinality(FailedPops')
    <3>1. \/ /\ IsFiniteSet(FailedPops')
             /\ Cardinality(FailedPops') = Cardinality(FailedPops) + 1
          \/ FailedPops' = FailedPops
      BY <1>0, <1>3, <2>1, FailedPopsGets DEF Balance
    <3> QED
      BY <1>1, <3>1 DEF Balance
  <2> QED
    BY <1>1, <2>3, <2>4, <2>5, <2>6 DEF Balance
<1>4. ASSUME NEW t \in Threads, Pending(t), Put(t)
      PROVE  Balance(values)'
  <2>1. PICK r \in {<<"void", Nil>>, <<"bool", TRUE>>} : Gets(t, r)
    BY <1>4 DEF Put
  <2>2. r \in Results /\ r \notin {"element"} \X values /\ r # Exception
    BY <2>1, PushResult
  <2>3. call[t].op \in PushOps
    BY <1>4 DEF Put
  <2>4. Delivered(values)' = Delivered(values)
    BY <1>0, <1>4, <2>1, <2>2, DeliveredGets
  <2>5. FailedPops' = FailedPops
    BY <1>0, <1>4, <2>1, <2>2, FailedPopsGets DEF Balance
  <2>6. /\ to_buffer_index(m_size) \in Slots
        /\ \A i \in Slots :
             m_data'[i] = IF i = to_buffer_index(m_size) THEN call[t].elem ELSE m_data[i]
    BY <1>0, <1>4, PutLemma DEF Put
  <2>7. m_data[to_buffer_index(m_size)] = Nil
    BY <1>0, <1>4, <2>6, PutLemma DEF Put, ClientInv, NoStrayElement, TypeOK
  <2>8. CASE call[t].elem \in values
    <3>1. /\ IsFiniteSet(Accepted(values)')
          /\ Cardinality(Accepted(values)') = Cardinality(Accepted(values)) + 1
      BY <1>0, <1>4, <2>1, <2>2, <2>3, <2>8, AcceptedGets
    <3>2. Held(values)' = Held(values) \cup {to_buffer_index(m_size)}
      BY <2>6, <2>7, <2>8 DEF Held
    <3>3. to_buffer_index(m_size) \notin Held(values)
      BY <1>0, <2>7 DEF Held
    <3>4. Cardinality(Held(values)') = Cardinality(Held(values)) + 1
      BY <1>1, <3>2, <3>3, FS_AddElement, Zenon
    <3> QED
      BY <1>1, <2>4, <2>5, <3>1, <3>4 DEF Balance
  <2>9. CASE call[t].elem \notin values
    <3>1. Accepted(values)' = Accepted(values)
      BY <1>0, <1>4, <2>1, <2>2, <2>9, AcceptedGets
    <3>2. Held(values)' = Held(values)
      BY <1>0, <2>6, <2>7, <2>9 DEF Held
    <3> QED
      BY <2>4, <2>5, <3>1, <3>2 DEF Balance
  <2> QED
    BY <2>8, <2>9
\* A pop, delivered or lost, takes the first element out of the ring.
<1>5. ASSUME ~do_empty, do_pop
      PROVE  Cardinality(Held(values)') = IF m_data[m_first] \in values
                                            THEN Cardinality(Held(values)) - 1
                                            ELSE Cardinality(Held(values))
  <2>1. \A i \in Slots : m_data'[i] = IF i = m_first THEN Nil ELSE m_data[i]
    BY <1>0, <1>5, TookLemma
  <2>2. CASE m_data[m_first] \in values
    <3>1. Held(values)' = Held(values) \ {m_first} /\ m_first \in Held(values)
      BY <1>0, <2>1, <2>2 DEF Held, TypeOK
    <3>2. Cardinality(Held(values)') = Cardinality(Held(values)) - 1
      BY <1>1, <3>1, FS_RemoveElement, Zenon
    <3> QED
      BY <2>2, <3>2
  <2>3. CASE m_data[m_first] \notin values
    <3>1. Held(values)' = Held(values)
      BY <1>0, <2>1, <2>3 DEF Held
    <3> QED
      BY <2>3, <3>1
  <2> QED
    BY <2>2, <2>3
<1>6. ASSUME NEW t \in Threads, Pending(t), Took(t)
      PROVE  Balance(values)'
  <2>1. PICK r : r = <<"element", m_data[m_first]>>
    OBVIOUS
  <2>2. /\ Gets(t, r) /\ call[t].op \notin PushOps /\ m_data[m_first] \in Values \cup {Nil}
        /\ ~do_empty /\ do_pop
    BY <1>0, <1>6, <2>1 DEF Took, PushOps, PopOps, TypeOK
  <2>3. /\ r \in Results /\ r # Exception
        /\ r \in {"element"} \X values <=> m_data[m_first] \in values
    BY <2>1, <2>2 DEF Results, Exception
  <2>4. Accepted(values)' = Accepted(values)
    BY <1>0, <1>6, <2>2, <2>3, AcceptedGets
  <2>5. FailedPops' = FailedPops
    BY <1>0, <1>6, <2>2, <2>3, FailedPopsGets DEF Balance
  <2>6. CASE m_data[m_first] \in values
    <3>1. /\ IsFiniteSet(Delivered(values)')
          /\ Cardinality(Delivered(values)') = Cardinality(Delivered(values)) + 1
      BY <1>0, <1>6, <2>2, <2>3, <2>6, DeliveredGets
    <3>2. Cardinality(Held(values)') = Cardinality(Held(values)) - 1
      BY <1>5, <2>2, <2>6
    <3> QED
      BY <1>1, <2>4, <2>5, <3>1, <3>2 DEF Balance
  <2>7. CASE m_data[m_first] \notin values
    <3>1. Delivered(values)' = Delivered(values)
      BY <1>0, <1>6, <2>2, <2>3, <2>7, DeliveredGets
    <3>2. Cardinality(Held(values)') = Cardinality(Held(values))
      BY <1>5, <2>2, <2>7
    <3> QED
      BY <1>1, <2>4, <2>5, <3>1, <3>2 DEF Balance
  <2> QED
    BY <2>6, <2>7
<1>7. ASSUME NEW t \in Threads, Pending(t), Lost(t)
      PROVE  Balance(values)'
  <2>1. /\ Gets(t, Exception) /\ call[t].op \in PopOps /\ call[t].op \notin PushOps
        /\ "assign" \in Throws /\ ~do_empty /\ do_pop
    BY <1>7 DEF Lost, PushOps, PopOps
  <2>2. Exception \in Results /\ Exception \notin {"element"} \X values
    BY DEF Exception, Results
  <2>3. Accepted(values)' = Accepted(values)
    BY <1>0, <1>7, <2>1, <2>2, AcceptedGets
  <2>4. Delivered(values)' = Delivered(values)
    BY <1>0, <1>7, <2>1, <2>2, DeliveredGets
  <2>5. /\ IsFiniteSet(FailedPops')
        /\ Cardinality(FailedPops') = Cardinality(FailedPops) + 1
    BY <1>0, <1>7, <2>1, <2>2, FailedPopsGets DEF Balance
  <2>6. Cardinality(Held(values)') \in {Cardinality(Held(values)), Cardinality(Held(values)) - 1}
    BY <1>5, <2>1
  <2>7. Cardinality(Held(values)') \in Int
    BY <1>1, <2>6
  <2> QED
    BY <1>1, <2>1, <2>3, <2>4, <2>5, <2>6, <2>7 DEF Balance
<1> QED
  BY <1>2, <1>3, <1>4, <1>6, <1>7, StepLemma DEF ClientInv

Balanced == \A values \in SUBSET Values : Balance(values)

\* The balance of every set of values holds at every instant.
LEMMA BalanceInvariance == ClientSpec => []Balanced
<1>1. ClientInit => Balanced
  <2> SUFFICES ASSUME ClientInit, NEW values \in SUBSET Values
               PROVE  Balance(values)
    BY DEF Balanced
  <2>1. Accepted(values) = {} /\ Delivered(values) = {} /\ FailedPops = {}
    BY EndedInit DEF Accepted, Delivered, FailedPops
  <2>2. Held(values) = {}
    BY NilAssumption DEF ClientInit, Init, Held
  <2> QED
    BY <2>1, <2>2, FS_EmptySet DEF Balance
<1>2. ClientInv /\ Balanced /\ [ClientNext]_clientVars => Balanced'
  <2> SUFFICES ASSUME ClientInv, Balanced, [ClientNext]_clientVars, NEW values \in SUBSET Values
               PROVE  Balance(values)'
    BY DEF Balanced
  <2>1. program' = program
    BY DEF ClientNext, Advance, Issue, Inside, Collect, Disturb, clientVars
  <2>2. Balance(values)
    BY DEF Balanced
  <2> QED
    BY <2>1, <2>2, BalanceStep
<1> QED
  BY <1>1, <1>2, ClientInvariance, PTL DEF ClientSpec

\* However many tasks push and pop, whichever calls are refused, time out or
\* wake spuriously, and whatever throws: no element is duplicated or invented,
\* and each exception costs one element at most, and only if it leaves a pop.
THEOREM ElementsConserved == ClientSpec => []Conservation
<1>1. Balanced => Conservation
  <2> SUFFICES ASSUME Balanced
               PROVE  Conservation
    OBVIOUS
  <2>1. ASSUME NEW v \in Values
        PROVE  Cardinality(Delivered({v})) + Cardinality(Held({v})) <= Cardinality(Accepted({v}))
    BY <2>1 DEF Balanced, Balance
  <2>2. Cardinality(Accepted(Values)) <=
          Cardinality(Delivered(Values)) + Cardinality(Held(Values)) + Cardinality(FailedPops)
    BY DEF Balanced, Balance
  <2> QED
    BY <2>1, <2>2 DEF Conservation
<1> QED
  BY <1>1, BalanceInvariance, PTL

\* Of each value as many elements have been accepted as were delivered or are in
\* the ring.
ExactConservation == \A v \in Values :
  Cardinality(Accepted({v})) = Cardinality(Delivered({v})) + Cardinality(Held({v}))

\* The assignment in target = do_pop() is the only operation that can lose an
\* element: where it does not throw, none is lost, though constructors throw.
THEOREM OnlyAssignmentsLose ==
  ASSUME "assign" \notin Throws
  PROVE  ClientSpec => []ExactConservation
<1>1. Balanced => ExactConservation
  BY DEF Balanced, Balance, ExactConservation
<1> QED
  BY <1>1, BalanceInvariance, PTL

-----------------------------------------------------------------------------
(* What size() counts beside the elements. *)

\* An exception for a push, or another result.
LEMMA FailedPushesGets ==
  ASSUME TypeOK, ProgramInv, program' = program, NEW t \in Threads, NEW r \in Results,
         Pending(t), Gets(t, r), IsFiniteSet(FailedPushes)
  PROVE  IF call[t].op \in PushOps /\ r = Exception
           THEN /\ IsFiniteSet(FailedPushes')
                /\ Cardinality(FailedPushes') = Cardinality(FailedPushes) + 1
           ELSE FailedPushes' = FailedPushes
<1>1. PICK C, R : C = [op : PushOps, elem : Values] /\ R = {Exception}
  OBVIOUS
<1>2. /\ FailedPushes = Ended(C, R)
      /\ FailedPushes' = Ended(C, R)'
      /\ IsFiniteSet(Ended(C, R))
  BY <1>1 DEF FailedPushes
<1>3. call[t] \in C <=> call[t].op \in PushOps
  <2>1. Len(Settled(t)) + 1 \in 1 .. Len(program[t])
    BY SettledLemma, ProgramLemma DEF Pending
  <2>2. call[t] \in Calls
    BY <2>1, ProgramLemma DEF Pending
  <2> QED
    BY <1>1, <2>2 DEF Calls, PushOps, PopOps, Observers
<1>4. IF call[t] \in C /\ r \in R
        THEN /\ IsFiniteSet(Ended(C, R)')
             /\ Cardinality(Ended(C, R)') = Cardinality(Ended(C, R)) + 1
        ELSE Ended(C, R)' = Ended(C, R)
  BY <1>2, EndedGets, Zenon
<1>5. r \in R <=> r = Exception
  BY <1>1
<1>6. CASE call[t] \in C /\ r \in R
  BY <1>2, <1>3, <1>4, <1>5, <1>6, Zenon
<1>7. CASE ~(call[t] \in C /\ r \in R)
  BY <1>2, <1>3, <1>4, <1>5, <1>7, Zenon
<1> QED
  BY <1>6, <1>7

SizeInv == IsFiniteSet(FailedPushes) /\ SizeAccounted

\* A push adds one to both sides, an element or itself to those that failed; a
\* pop takes one off m_size, and off the elements if there was one in the slot.
LEMMA SizeStep ==
  ASSUME ClientInv, program' = program, [ClientNext]_clientVars, SizeInv
  PROVE  SizeInv'
<1>0. TypeOK /\ ProgramInv /\ m_size \in Nat /\ Nil \notin Values
  BY CapacityAssumption, NilAssumption DEF ClientInv, IInv, TypeOK
<1>1. /\ IsFiniteSet(FailedPushes) /\ Cardinality(FailedPushes) \in Nat
      /\ IsFiniteSet(Held(Values)) /\ Cardinality(Held(Values)) \in Nat
      /\ m_size <= Cardinality(Held(Values)) + Cardinality(FailedPushes)
  BY HeldLemma, FS_CardinalityType DEF SizeInv, SizeAccounted
<1>2. CASE Quiet
  <2>1. Held(Values)' = Held(Values) /\ m_size' = m_size
    BY <1>2 DEF Quiet, ring, Held
  <2>2. FailedPushes' = FailedPushes
    BY <1>2, EndedQuiet DEF Quiet, FailedPushes
  <2> QED
    BY <1>1, <2>1, <2>2 DEF SizeInv, SizeAccounted
<1>3. ASSUME NEW t \in Threads, Pending(t), Answered(t)
      PROVE  SizeInv'
  <2>1. PICK r \in Results :
          Gets(t, r) /\ (~(call[t].op \in PushOps /\ r = Exception) => m_size' = m_size)
    BY <1>3 DEF Answered
  <2>2. Held(Values)' = Held(Values) /\ m_size' \in {m_size, m_size + 1}
    BY <1>3 DEF Answered, Held
  <2>3. CASE call[t].op \in PushOps /\ r = Exception
    <3>1. /\ IsFiniteSet(FailedPushes')
          /\ Cardinality(FailedPushes') = Cardinality(FailedPushes) + 1
      BY <1>0, <1>1, <1>3, <2>1, <2>3, FailedPushesGets
    <3> QED
      BY <1>0, <1>1, <2>2, <3>1 DEF SizeInv, SizeAccounted
  <2>4. CASE ~(call[t].op \in PushOps /\ r = Exception)
    <3>1. FailedPushes' = FailedPushes
      BY <1>0, <1>1, <1>3, <2>1, <2>4, FailedPushesGets
    <3> QED
      BY <1>1, <2>1, <2>2, <2>4, <3>1 DEF SizeInv, SizeAccounted
  <2> QED
    BY <2>3, <2>4
<1>4. ASSUME NEW t \in Threads, Pending(t), Put(t)
      PROVE  SizeInv'
  <2>1. PICK r \in {<<"void", Nil>>, <<"bool", TRUE>>} : Gets(t, r)
    BY <1>4 DEF Put
  <2>2. r \in Results /\ r # Exception
    BY <2>1, PushResult
  <2>3. FailedPushes' = FailedPushes
    BY <1>0, <1>1, <1>4, <2>1, <2>2, FailedPushesGets
  <2>4. call[t].elem \in Values /\ m_size' = m_size + 1
    <3>1. Len(Settled(t)) + 1 \in 1 .. Len(program[t])
      BY <1>0, <1>4, SettledLemma, ProgramLemma DEF Pending
    <3>2. call[t] \in Calls /\ call[t].op \in PushOps
      BY <1>0, <1>4, <3>1, ProgramLemma DEF Pending, Put
    <3> QED
      BY <1>4, <3>2 DEF Calls, PushOps, PopOps, Observers, Put, do_push
  <2>5. /\ to_buffer_index(m_size) \in Slots
        /\ \A i \in Slots :
             m_data'[i] = IF i = to_buffer_index(m_size) THEN call[t].elem ELSE m_data[i]
    BY <1>0, <1>4, PutLemma DEF Put
  <2>6. m_data[to_buffer_index(m_size)] = Nil
    BY <1>0, <1>4, <2>5, PutLemma DEF Put, ClientInv, NoStrayElement, TypeOK
  <2>7. Held(Values)' = Held(Values) \cup {to_buffer_index(m_size)}
    BY <2>4, <2>5, <2>6 DEF Held
  <2>8. to_buffer_index(m_size) \notin Held(Values)
    BY <1>0, <2>6 DEF Held
  <2>9. Cardinality(Held(Values)') = Cardinality(Held(Values)) + 1
    BY <1>1, <2>7, <2>8, FS_AddElement, Zenon
  <2> QED
    BY <1>0, <1>1, <2>3, <2>4, <2>9 DEF SizeInv, SizeAccounted
<1>5. ASSUME NEW t \in Threads, Pending(t), Took(t) \/ Lost(t)
      PROVE  SizeInv'
  <2>1. PICK r \in Results : Gets(t, r)
    <3>1. m_data[m_first] \in Values \cup {Nil}
      BY <1>0 DEF TypeOK
    <3>2. <<"element", m_data[m_first]>> \in Results /\ Exception \in Results
      BY <3>1 DEF Results, Exception
    <3> QED
      BY <1>5, <3>2 DEF Took, Lost
  <2>2. call[t].op \notin PushOps /\ ~do_empty /\ do_pop
    BY <1>5 DEF Took, Lost, PushOps, PopOps
  <2>3. FailedPushes' = FailedPushes
    BY <1>0, <1>1, <1>5, <2>1, <2>2, FailedPushesGets
  <2>4. \A i \in Slots : m_data'[i] = IF i = m_first THEN Nil ELSE m_data[i]
    BY <1>0, <2>2, TookLemma
  <2>5. m_size' = m_size - 1
    BY <2>2 DEF do_pop
  <2>6. CASE m_data[m_first] \in Values
    <3>1. Held(Values)' = Held(Values) \ {m_first} /\ m_first \in Held(Values)
      BY <1>0, <2>4, <2>6 DEF Held, TypeOK
    <3>2. Cardinality(Held(Values)') = Cardinality(Held(Values)) - 1
      BY <1>1, <3>1, FS_RemoveElement, Zenon
    <3> QED
      BY <1>0, <1>1, <2>3, <2>5, <3>2 DEF SizeInv, SizeAccounted
  <2>7. CASE m_data[m_first] \notin Values
    <3>1. Held(Values)' = Held(Values)
      BY <1>0, <2>4, <2>7 DEF Held
    <3> QED
      BY <1>0, <1>1, <2>3, <2>5, <3>1 DEF SizeInv, SizeAccounted
  <2> QED
    BY <2>6, <2>7
<1> QED
  BY <1>2, <1>3, <1>4, <1>5, StepLemma DEF ClientInv

\* However many calls came in between, size() never exceeds the number of
\* elements in the ring by more than the number of pushes that threw.
THEOREM OnlyFailedPushesOvercount == ClientSpec => []SizeAccounted
<1>1. ClientInit => SizeInv
  <2> SUFFICES ASSUME ClientInit
               PROVE  SizeInv
    OBVIOUS
  <2>1. FailedPushes = {} /\ m_size = 0
    BY EndedInit DEF FailedPushes, ClientInit, Init
  <2> QED
    BY <2>1, HeldLemma, FS_EmptySet DEF SizeInv, SizeAccounted
<1>2. ClientInv /\ SizeInv /\ [ClientNext]_clientVars => SizeInv'
  <2> SUFFICES ASSUME ClientInv, SizeInv, [ClientNext]_clientVars
               PROVE  SizeInv'
    OBVIOUS
  <2>1. program' = program
    BY DEF ClientNext, Advance, Issue, Inside, Collect, Disturb, clientVars
  <2> QED
    BY <2>1, SizeStep
<1>3. SizeInv => SizeAccounted
  BY DEF SizeInv
<1> QED
  BY <1>1, <1>2, <1>3, ClientInvariance, PTL DEF ClientSpec

-----------------------------------------------------------------------------
(* One producer's elements arrive in order. *)

\* The i-th call of t pushes v, in whatever way.
Pushes(t, i, v) == /\ i \in 1 .. Len(program[t])
                   /\ program[t][i].op \in PushOps
                   /\ program[t][i].elem = v

\* No element is pushed by two calls; otherwise it would not say which of them
\* a pop of it answers.
DistinctElements == \A p \in Programs : \A t, u \in Threads :
  \A i \in 1 .. Len(p[t]), j \in 1 .. Len(p[u]) :
    /\ p[t][i].op \in PushOps
    /\ p[u][j].op \in PushOps
    /\ p[t][i].elem = p[u][j].elem
    => t = u /\ i = j

InRing(v) == \E i \in Slots : m_data[i] = v
Popped(v) == \E t \in Threads : \E i \in 1 .. Len(Settled(t)) : Settled(t)[i] = <<"element", v>>

\* What is in the ring, or was popped, was pushed by a call that has its result.
Origin == \A v \in Values : InRing(v) \/ Popped(v) =>
  \E t \in Threads : \E i \in 1 .. Len(Settled(t)) : Pushes(t, i, v)

\* In the ring, the elements of one task are in the order of its calls.
RingOrder == \A i, j \in Slots :
  m_data[i] \in Values /\ m_data[j] \in Values /\ PushedBefore(m_data[i], m_data[j])
    => Offset(i) < Offset(j)

\* What a task pushed before an element that was popped is no longer there.
NoneBehind == \A v, w \in Values : Popped(v) /\ PushedBefore(w, v) => ~InRing(w)

OrderInv == Origin /\ RingOrder /\ NoneBehind /\ ProducerOrder

LEMMA PushedBeforeLemma ==
  ASSUME ProgramInv, NEW v \in Values, NEW w \in Values, PushedBefore(v, w)
  PROVE  \E t \in Threads : \E i, j \in 1 .. Len(program[t]) :
           i < j /\ Pushes(t, i, v) /\ Pushes(t, j, w)
<1>1. PICK t \in Threads : \E i, j \in DOMAIN program[t] :
        /\ i < j
        /\ program[t][i] = [op |-> program[t][i].op, elem |-> v]
        /\ program[t][j] = [op |-> program[t][j].op, elem |-> w]
  BY DEF PushedBefore
<1>2. program[t] \in Seq(Calls)
  BY ProgramLemma
<1>3. DOMAIN program[t] = 1 .. Len(program[t])
  BY <1>2, LenProperties
<1>4. PICK i, j \in 1 .. Len(program[t]) :
        /\ i < j
        /\ program[t][i] = [op |-> program[t][i].op, elem |-> v]
        /\ program[t][j] = [op |-> program[t][j].op, elem |-> w]
  BY <1>1, <1>3
<1>5. program[t][i].elem = v /\ program[t][j].elem = w
  BY <1>4
<1>6. program[t][i] \in Calls /\ program[t][j] \in Calls
  BY ProgramLemma
<1>7. program[t][i].op \in PushOps /\ program[t][j].op \in PushOps
  BY <1>5, <1>6, NilAssumption DEF Calls
<1> QED
  BY <1>4, <1>5, <1>7 DEF Pushes

\* An element about to be pushed is new, and nothing its task pushes after it
\* has been pushed yet.
LEMMA FreshLemma ==
  ASSUME DistinctElements, TypeOK, ProgramInv, Origin,
         NEW t \in Threads, Pending(t), call[t].op \in PushOps,
         NEW x \in Values, call[t].elem = x
  PROVE  /\ ~InRing(x) /\ ~Popped(x)
         /\ \A v \in Values : PushedBefore(x, v) => ~InRing(v) /\ ~Popped(v)
<1>0. Len(Settled(t)) \in Nat /\ Len(program[t]) \in Nat
  BY SettledLemma, ProgramLemma
<1>1. PICK n : n = Len(Settled(t)) + 1
  OBVIOUS
<1>2. n \in 1 .. Len(program[t]) /\ Pushes(t, n, x)
  BY <1>0, <1>1 DEF Pending, Pushes
<1>3. ASSUME NEW u \in Threads, NEW k, Pushes(u, k, x)
      PROVE  u = t /\ k = n
  BY <1>2, <1>3 DEF DistinctElements, ProgramInv, Pushes
<1>4. ~InRing(x) /\ ~Popped(x)
  <2> SUFFICES ASSUME InRing(x) \/ Popped(x)
               PROVE  FALSE
    OBVIOUS
  <2>1. PICK u \in Threads : \E i \in 1 .. Len(Settled(u)) : Pushes(u, i, x)
    BY DEF Origin
  <2>2. PICK i \in 1 .. Len(Settled(u)) : Pushes(u, i, x)
    BY <2>1
  <2> QED
    BY <1>0, <1>1, <1>3, <2>2
<1>5. ASSUME NEW v \in Values, PushedBefore(x, v), InRing(v) \/ Popped(v)
      PROVE  FALSE
  <2>1. PICK u \in Threads : \E i \in 1 .. Len(Settled(u)) : Pushes(u, i, v)
    BY <1>5 DEF Origin
  <2>2. PICK i \in 1 .. Len(Settled(u)) : Pushes(u, i, v)
    BY <2>1
  <2>3. PICK q \in Threads : \E k, m \in 1 .. Len(program[q]) :
          k < m /\ Pushes(q, k, x) /\ Pushes(q, m, v)
    BY <1>5, PushedBeforeLemma
  <2>4. PICK k, m \in 1 .. Len(program[q]) : k < m /\ Pushes(q, k, x) /\ Pushes(q, m, v)
    BY <2>3
  <2>5. q = t /\ k = n
    BY <1>3, <2>4
  <2>6. u = q /\ i = m
    <3>1. program \in Programs /\ DistinctElements
      BY DEF ProgramInv
    <3>2. \A r \in 1 .. Len(program[u]), m2 \in 1 .. Len(program[q]) :
            Pushes(u, r, v) /\ Pushes(q, m2, v) => u = q /\ r = m2
      BY <3>1 DEF DistinctElements, Pushes
    <3>3. i \in 1 .. Len(program[u]) /\ m \in 1 .. Len(program[q])
      BY <2>2, <2>4 DEF Pushes
    <3> QED
      BY <2>2, <2>4, <3>2, <3>3
  <2> QED
    BY <1>0, <1>1, <2>2, <2>4, <2>5, <2>6
<1> QED
  BY <1>4, <1>5

LEMMA NotBeforeItself ==
  ASSUME DistinctElements, ProgramInv, NEW v \in Values
  PROVE  ~PushedBefore(v, v)
<1> SUFFICES ASSUME PushedBefore(v, v)
             PROVE  FALSE
  OBVIOUS
<1>1. PICK t \in Threads : \E i, j \in 1 .. Len(program[t]) :
        i < j /\ Pushes(t, i, v) /\ Pushes(t, j, v)
  BY PushedBeforeLemma
<1>2. PICK i, j \in 1 .. Len(program[t]) : i < j /\ Pushes(t, i, v) /\ Pushes(t, j, v)
  BY <1>1
<1>3. i = j
  BY <1>2 DEF DistinctElements, ProgramInv, Pushes
<1> QED
  BY <1>2, <1>3, ProgramLemma

\* Where t gets r, the elements popped are those popped before and r's.
LEMMA PoppedLemma ==
  ASSUME TypeOK, ProgramInv, NEW t \in Threads, NEW r \in Results, Gets(t, r), NEW v
  PROVE  /\ Popped(v)' <=> Popped(v) \/ r = <<"element", v>>
         /\ Len(Settled(t)') = Len(Settled(t)) + 1
         /\ \A u \in Threads : 1 .. Len(Settled(u)) \subseteq 1 .. Len(Settled(u)')
<1>1. \A u \in Threads : Settled(u) \in Seq(Results) /\ Len(Settled(u)) \in Nat
  BY SettledLemma
<1>2. /\ Len(Append(Settled(t), r)) = Len(Settled(t)) + 1
      /\ \A i \in 1 .. Len(Settled(t)) : Append(Settled(t), r)[i] = Settled(t)[i]
      /\ Append(Settled(t), r)[Len(Settled(t)) + 1] = r
  BY <1>1, AppendProperties
<1>3. /\ Settled(t)' = Append(Settled(t), r)
      /\ \A u \in Threads \ {t} : Settled(u)' = Settled(u)
  BY DEF Gets
<1>4. Len(Settled(t)') = Len(Settled(t)) + 1
  BY <1>2, <1>3
<1>5. \A u \in Threads : /\ 1 .. Len(Settled(u)) \subseteq 1 .. Len(Settled(u)')
                         /\ \A i \in 1 .. Len(Settled(u)) : Settled(u)'[i] = Settled(u)[i]
  BY <1>1, <1>2, <1>3
<1>6. Settled(t)'[Len(Settled(t)) + 1] = r
  BY <1>2, <1>3
<1>7. ASSUME Popped(v)'
      PROVE  Popped(v) \/ r = <<"element", v>>
  <2>1. PICK u \in Threads : \E i \in 1 .. Len(Settled(u)') : Settled(u)'[i] = <<"element", v>>
    BY <1>7 DEF Popped
  <2>2. PICK i \in 1 .. Len(Settled(u)') : Settled(u)'[i] = <<"element", v>>
    BY <2>1
  <2>3. i \in 1 .. Len(Settled(u)) \/ (u = t /\ i = Len(Settled(t)) + 1)
    BY <1>1, <1>3, <1>4, <2>2
  <2> QED
    BY <1>5, <1>6, <2>2, <2>3 DEF Popped
<1>8. ASSUME Popped(v)
      PROVE  Popped(v)'
  BY <1>5, <1>8 DEF Popped
<1>9. ASSUME r = <<"element", v>>
      PROVE  Popped(v)'
  <2>1. Len(Settled(t)) + 1 \in 1 .. Len(Settled(t)')
    BY <1>1, <1>4
  <2> QED
    BY <1>6, <1>9, <2>1 DEF Popped
<1> QED
  BY <1>4, <1>5, <1>7, <1>8, <1>9

LEMMA SameOrder ==
  ASSUME program' = program
  PROVE  /\ \A v, w : PushedBefore(v, w)' <=> PushedBefore(v, w)
         /\ \A u, i, v : Pushes(u, i, v)' <=> Pushes(u, i, v)
BY DEF PushedBefore, Pushes

\* Pops of t that went before stay in order, and a new one is in order if
\* nothing its task pushes later was popped.
LEMMA ProducerOrderStep ==
  ASSUME TypeOK, ProgramInv, program' = program, ProducerOrder,
         NEW t \in Threads, NEW r \in Results, Gets(t, r),
         \A y \in Values : r = <<"element", y>> =>
           \A v \in Values : PushedBefore(y, v) => ~Popped(v)
  PROVE  ProducerOrder'
<1>0. \A u \in Threads : /\ Settled(u) \in Seq(Results) /\ Len(Settled(u)) \in Nat
                         /\ DOMAIN Settled(u) = 1 .. Len(Settled(u))
  BY SettledLemma
<1>1. /\ Append(Settled(t), r) \in Seq(Results)
      /\ Len(Append(Settled(t), r)) = Len(Settled(t)) + 1
      /\ \A i \in 1 .. Len(Settled(t)) : Append(Settled(t), r)[i] = Settled(t)[i]
      /\ Append(Settled(t), r)[Len(Settled(t)) + 1] = r
  BY <1>0, AppendProperties
<1>2. /\ Settled(t)' = Append(Settled(t), r)
      /\ \A u \in Threads \ {t} : Settled(u)' = Settled(u)
  BY DEF Gets
<1>3. DOMAIN (Settled(t)') = 1 .. Len(Settled(t)) + 1
  BY <1>1, <1>2, LenProperties
<1> SUFFICES ASSUME NEW u \in Threads, NEW i \in DOMAIN (Settled(u)'), NEW j \in DOMAIN (Settled(u)'),
                    NEW v \in Values, NEW w \in Values,
                    i < j, Settled(u)'[i] = <<"element", v>>, Settled(u)'[j] = <<"element", w>>
             PROVE  ~PushedBefore(w, v)
  BY SameOrder DEF ProducerOrder
<1>4. CASE u # t
  <2>1. Settled(u)' = Settled(u)
    BY <1>2, <1>4
  <2> QED
    BY <2>1 DEF ProducerOrder
<1>5. CASE u = t /\ j \in 1 .. Len(Settled(t))
  <2>1. i \in 1 .. Len(Settled(t)) /\ i \in DOMAIN Settled(t) /\ j \in DOMAIN Settled(t)
    BY <1>0, <1>3, <1>5
  <2>2. Settled(t)[i] = <<"element", v>> /\ Settled(t)[j] = <<"element", w>>
    BY <1>1, <1>2, <1>5, <2>1
  <2> QED
    BY <2>1, <2>2 DEF ProducerOrder
<1>6. CASE u = t /\ j \notin 1 .. Len(Settled(t))
  <2>1. j = Len(Settled(t)) + 1 /\ i \in 1 .. Len(Settled(t))
    BY <1>0, <1>3, <1>6
  <2>2. r = <<"element", w>> /\ Settled(t)[i] = <<"element", v>>
    BY <1>1, <1>2, <1>6, <2>1
  <2>3. Popped(v)
    BY <2>1, <2>2 DEF Popped
  <2> QED
    BY <2>2, <2>3
<1> QED
  BY <1>4, <1>5, <1>6

\* A result that is no element, with the elements in the ring as before.
LEMMA OrderAnswered ==
  ASSUME ClientInv, OrderInv, program' = program, NEW t \in Threads, Answered(t)
  PROVE  OrderInv'
<1>0. TypeOK /\ ProgramInv
  BY DEF ClientInv, IInv
<1>1. PICK r \in Results : Gets(t, r) /\ r[1] # "element"
  BY DEF Answered
<1>2. \A v : r # <<"element", v>>
  BY <1>1
<1>3. m_first' = m_first /\ m_data' = m_data
  BY DEF Answered
<1>4. \A v \in Values : /\ InRing(v)' <=> InRing(v)
                        /\ Popped(v)' <=> Popped(v)
  BY <1>0, <1>1, <1>2, <1>3, PoppedLemma DEF InRing
<1>5. \A u \in Threads : 1 .. Len(Settled(u)) \subseteq 1 .. Len(Settled(u)')
  BY <1>0, <1>1, PoppedLemma
<1>6. Origin'
  BY <1>4, <1>5, SameOrder DEF OrderInv, Origin
<1>7. RingOrder'
  BY <1>3, SameOrder DEF OrderInv, RingOrder, Offset
<1>8. NoneBehind'
  BY <1>4, SameOrder DEF OrderInv, NoneBehind
<1>9. ProducerOrder'
  BY <1>0, <1>1, <1>2, ProducerOrderStep DEF OrderInv
<1> QED
  BY <1>6, <1>7, <1>8, <1>9 DEF OrderInv

\* A pop, delivered or lost: the element was the first, so nothing of its task
\* is left that was pushed before it.
LEMMA OrderPopped ==
  ASSUME ClientInv, OrderInv, program' = program,
         NEW t \in Threads, ~do_empty, do_pop,
         NEW r \in Results, Gets(t, r),
         \A v \in Values : r = <<"element", v>> => v = m_data[m_first]
  PROVE  OrderInv'
<1>0. TypeOK /\ ProgramInv /\ Origin /\ RingOrder /\ NoneBehind /\ ProducerOrder
  BY DEF ClientInv, IInv, OrderInv
<1>1. /\ m_first \in Slots
      /\ \A i \in Slots : /\ Offset(i)' = IF i = m_first THEN Capacity - 1 ELSE Offset(i) - 1
                          /\ m_data'[i] = IF i = m_first THEN Nil ELSE m_data[i]
  BY <1>0, TookLemma DEF TypeOK
<1>2. \A i \in Slots : m_data'[i] \in Values => i # m_first /\ m_data'[i] = m_data[i]
  BY <1>1, NilAssumption
<1>3. \A v \in Values : InRing(v)' => InRing(v)
  BY <1>2 DEF InRing
<1>4. \A v \in Values : Popped(v)' => Popped(v) \/ v = m_data[m_first]
  BY <1>0, PoppedLemma
<1>5. \A u \in Threads : 1 .. Len(Settled(u)) \subseteq 1 .. Len(Settled(u)')
  BY <1>0, PoppedLemma
<1>6. \A v \in Values : v = m_data[m_first] => InRing(v)
  BY <1>1 DEF InRing
<1>7. Origin'
  BY <1>0, <1>3, <1>4, <1>5, <1>6, SameOrder DEF Origin
<1>8. RingOrder'
  <2> SUFFICES ASSUME NEW i \in Slots, NEW j \in Slots, m_data'[i] \in Values,
                      m_data'[j] \in Values, PushedBefore(m_data[i], m_data[j])
               PROVE  Offset(i)' < Offset(j)'
    BY <1>2, SameOrder DEF RingOrder
  <2>1. Offset(i) < Offset(j)
    BY <1>0, <1>2 DEF RingOrder
  <2>2. Offset(i)' = Offset(i) - 1 /\ Offset(j)' = Offset(j) - 1
    BY <1>1, <1>2
  <2>3. Offset(i) \in Int /\ Offset(j) \in Int
    BY <1>0, OffsetLemma
  <2> QED
    BY <2>1, <2>2, <2>3
<1>9. NoneBehind'
  <2> SUFFICES ASSUME NEW v \in Values, NEW w \in Values, Popped(v)', PushedBefore(w, v),
                      InRing(w)'
               PROVE  FALSE
    BY SameOrder DEF NoneBehind
  <2>1. CASE Popped(v)
    BY <1>0, <1>3, <2>1 DEF NoneBehind
  <2>2. CASE v = m_data[m_first]
    <3>1. PICK i \in Slots : m_data'[i] = w
      BY DEF InRing
    <3>2. i # m_first /\ m_data[i] = w
      BY <1>2, <3>1
    <3>3. Offset(i) < Offset(m_first)
      BY <1>0, <1>1, <2>2, <3>2 DEF RingOrder
    <3>4. Offset(m_first) = 0 /\ Offset(i) \in 0 .. Capacity - 1
      BY <1>0, <1>1, OffsetLemma
    <3> QED
      BY <3>3, <3>4
  <2> QED
    BY <1>4, <2>1, <2>2
<1>10. ProducerOrder'
  <2>1. ASSUME NEW y \in Values, r = <<"element", y>>, NEW v \in Values, PushedBefore(y, v)
        PROVE  ~Popped(v)
    BY <1>0, <1>6, <2>1 DEF NoneBehind
  <2> QED
    BY <1>0, <2>1, ProducerOrderStep
<1> QED
  BY <1>7, <1>8, <1>9, <1>10 DEF OrderInv

\* A push puts the element last, and all that its task pushed before it was
\* pushed earlier.
LEMMA OrderPut ==
  ASSUME DistinctElements, ClientInv, OrderInv, program' = program,
         NEW t \in Threads, Pending(t), Put(t)
  PROVE  OrderInv'
<1>0. TypeOK /\ ProgramInv /\ Origin /\ RingOrder /\ NoneBehind /\ ProducerOrder
  BY DEF ClientInv, IInv, OrderInv
<1>1. PICK r \in {<<"void", Nil>>, <<"bool", TRUE>>} : Gets(t, r)
  BY DEF Put
<1>2. r \in Results /\ \A v : r # <<"element", v>>
  <2>1. /\ <<"void", Nil>> \in Results /\ \A v : <<"void", Nil>> # <<"element", v>>
        /\ <<"bool", TRUE>> \in Results
    BY DEF Results
  <2>2. \A v : <<"bool", TRUE>> # <<"element", v>>
    OBVIOUS
  <2> QED
    BY <2>1, <2>2
<1>3. PICK x, s : x = call[t].elem /\ s = to_buffer_index(m_size)
  OBVIOUS
<1>4. call[t].op \in PushOps /\ ~do_full /\ do_push(x)
  BY <1>3 DEF Put
<1>5. x \in Values
  <2>1. program[t][Len(Settled(t)) + 1] \in Calls
    BY <1>0, SettledLemma, ProgramLemma DEF Pending
  <2> QED
    BY <1>3, <1>4, <2>1, CallsLemma DEF Pending
<1>6. /\ s \in Slots
      /\ \A i \in Slots : /\ Offset(i)' = Offset(i)
                          /\ Offset(i) = m_size <=> i = s
                          /\ m_data'[i] = IF i = s THEN x ELSE m_data[i]
  BY <1>0, <1>3, <1>4, PutLemma
<1>7. /\ ~InRing(x) /\ ~Popped(x)
      /\ \A v \in Values : PushedBefore(x, v) => ~InRing(v) /\ ~Popped(v)
  BY <1>0, <1>3, <1>4, <1>5, FreshLemma
<1>8. \A v \in Values : Popped(v)' <=> Popped(v)
  BY <1>0, <1>1, <1>2, PoppedLemma
<1>9. \A v \in Values : InRing(v)' => InRing(v) \/ v = x
  BY <1>6 DEF InRing
<1>10. /\ \A u \in Threads : 1 .. Len(Settled(u)) \subseteq 1 .. Len(Settled(u)')
       /\ Len(Settled(t)') = Len(Settled(t)) + 1
  BY <1>0, <1>1, <1>2, PoppedLemma
<1>11. Origin'
  <2>1. /\ Len(Settled(t)) + 1 \in 1 .. Len(Settled(t)')
        /\ Pushes(t, Len(Settled(t)) + 1, x)
    BY <1>0, <1>3, <1>4, <1>10, SettledLemma, ProgramLemma DEF Pending, Pushes
  <2> SUFFICES ASSUME NEW v \in Values, (InRing(v) \/ Popped(v))'
               PROVE  \E u \in Threads : \E i \in 1 .. Len(Settled(u)') : Pushes(u, i, v)
    BY SameOrder DEF Origin
  <2>2. CASE v = x
    BY <2>1, <2>2
  <2>3. CASE v # x
    BY <1>0, <1>8, <1>9, <1>10, <2>3 DEF Origin
  <2> QED
    BY <2>2, <2>3
<1>12. RingOrder'
  <2> SUFFICES ASSUME NEW i \in Slots, NEW j \in Slots, m_data'[i] \in Values,
                      m_data'[j] \in Values, PushedBefore(m_data'[i], m_data'[j])
               PROVE  Offset(i) < Offset(j)
    BY <1>6, SameOrder DEF RingOrder
  <2>1. CASE i # s /\ j # s
    BY <1>0, <1>6, <2>1 DEF RingOrder
  <2>2. CASE i # s /\ j = s
    <3>1. m_data[i] # Nil /\ Offset(j) = m_size
      BY <1>6, <2>2, NilAssumption
    <3> QED
      BY <3>1 DEF ClientInv, NoStrayElement
  <2>3. CASE i = s /\ j # s
    <3>1. m_data'[i] = x /\ m_data'[j] = m_data[j]
      BY <1>6, <2>3
    <3>2. InRing(m_data[j])
      BY DEF InRing
    <3> QED
      BY <1>7, <3>1, <3>2
  <2>4. CASE i = s /\ j = s
    BY <1>0, <1>5, <1>6, <2>4, NotBeforeItself
  <2> QED
    BY <2>1, <2>2, <2>3, <2>4
<1>13. NoneBehind'
  BY <1>0, <1>7, <1>8, <1>9, SameOrder DEF NoneBehind
<1>14. ProducerOrder'
  BY <1>0, <1>1, <1>2, ProducerOrderStep
<1> QED
  BY <1>11, <1>12, <1>13, <1>14 DEF OrderInv

LEMMA OrderStep ==
  ASSUME DistinctElements, ClientInv, OrderInv, [ClientNext]_clientVars
  PROVE  OrderInv'
<1>0. program' = program
  BY DEF ClientNext, Advance, Issue, Inside, Collect, Disturb, clientVars
<1>1. CASE Quiet
  <2>1. /\ m_first' = m_first /\ m_data' = m_data
        /\ \A u \in Threads : Settled(u)' = Settled(u)
    BY <1>1 DEF Quiet, ring
  <2>2. \A v : (InRing(v)' <=> InRing(v)) /\ (Popped(v)' <=> Popped(v))
    BY <2>1 DEF InRing, Popped
  <2>3. Origin'
    BY <1>0, <2>1, <2>2, SameOrder DEF OrderInv, Origin
  <2>4. RingOrder'
    BY <1>0, <2>1, SameOrder DEF OrderInv, RingOrder, Offset
  <2>5. NoneBehind'
    BY <1>0, <2>2, SameOrder DEF OrderInv, NoneBehind
  <2>6. ProducerOrder'
    BY <1>0, <2>1, SameOrder DEF OrderInv, ProducerOrder
  <2> QED
    BY <2>3, <2>4, <2>5, <2>6 DEF OrderInv
<1>2. ASSUME NEW t \in Threads, Took(t)
      PROVE  OrderInv'
  <2>1. /\ ~do_empty /\ do_pop
        /\ Gets(t, <<"element", m_data[m_first]>>)
    BY <1>2 DEF Took
  <2>2. m_data[m_first] \in Values \cup {Nil}
    BY DEF ClientInv, IInv, TypeOK
  <2>3. <<"element", m_data[m_first]>> \in Results
    BY <2>2 DEF Results
  <2>4. \A v \in Values : <<"element", m_data[m_first]>> = <<"element", v>> => v = m_data[m_first]
    OBVIOUS
  <2> QED
    BY <1>0, <2>1, <2>3, <2>4, OrderPopped
<1>3. ASSUME NEW t \in Threads, Lost(t)
      PROVE  OrderInv'
  <2>1. ~do_empty /\ do_pop /\ Gets(t, Exception)
    BY <1>3 DEF Lost
  <2>2. Exception \in Results /\ \A v : Exception # <<"element", v>>
    BY DEF Exception, Results
  <2> QED
    BY <1>0, <2>1, <2>2, OrderPopped
<1> QED
  BY <1>0, <1>1, <1>2, <1>3, StepLemma, OrderAnswered, OrderPut DEF ClientInv

\* What any consumer gets from one producer arrives in the order in which it
\* was pushed, however many producers and consumers there are, whichever calls
\* are refused or time out, and whatever element operations throw.
THEOREM ProducersInOrder ==
  ASSUME DistinctElements
  PROVE  ClientSpec => []ProducerOrder
<1>1. ClientInit => OrderInv
  <2> SUFFICES ASSUME ClientInit
               PROVE  OrderInv
    OBVIOUS
  <2>1. /\ \A t \in Threads : Settled(t) = <<>>
        /\ \A i \in Slots : m_data[i] = Nil
    BY DEF ClientInit, Init, Settled
  <2>2. \A t \in Threads : Len(Settled(t)) = 0 /\ DOMAIN Settled(t) = {}
    BY <2>1
  <2>3. \A v \in Values : ~InRing(v) /\ ~Popped(v)
    BY <2>1, <2>2, NilAssumption DEF InRing, Popped
  <2> QED
    BY <2>1, <2>2, <2>3, NilAssumption DEF OrderInv, Origin, RingOrder, NoneBehind, ProducerOrder
<1>2. ClientInv /\ OrderInv /\ [ClientNext]_clientVars => OrderInv'
  BY OrderStep
<1> QED
  BY <1>1, <1>2, ClientInvariance, PTL DEF ClientSpec, OrderInv

-----------------------------------------------------------------------------
(* What exceptions cost: one wakeup each. *)

\* What t gets is one more result; the others stay where they were.
LEMMA GetsExtends ==
  ASSUME TypeOK, ProgramInv, program' = program, NEW t \in Threads, NEW r,
         Pending(t), Gets(t, r), NEW u \in Threads, NEW i \in DOMAIN (Settled(u)')
  PROVE  \/ i \in DOMAIN Settled(u) /\ Settled(u)'[i] = Settled(u)[i]
         \/ u = t /\ program'[u][i] = call[t] /\ Settled(u)'[i] = r
<1>1. CASE u # t
  <2>1. Settled(u)' = Settled(u)
    BY <1>1 DEF Gets
  <2> QED
    BY <2>1
<1>2. CASE u = t
  <2>1. /\ Settled(t) \in Seq(Results) /\ Len(Settled(t)) \in Nat
        /\ DOMAIN Settled(t) = 1 .. Len(Settled(t))
    BY SettledLemma
  <2>2. Settled(t)' = Append(Settled(t), r)
    BY DEF Gets
  <2>3. /\ DOMAIN Append(Settled(t), r) = 1 .. Len(Settled(t)) + 1
        /\ \A j \in 1 .. Len(Settled(t)) : Append(Settled(t), r)[j] = Settled(t)[j]
        /\ Append(Settled(t), r)[Len(Settled(t)) + 1] = r
    BY <2>1
  <2>4. i \in 1 .. Len(Settled(t)) \/ i = Len(Settled(t)) + 1
    BY <1>2, <2>1, <2>2, <2>3
  <2> QED
    BY <1>2, <2>1, <2>2, <2>3, <2>4 DEF Pending
<1> QED
  BY <1>1, <1>2

LEMMA FailedGets ==
  ASSUME TypeOK, ProgramInv, program' = program, NEW t \in Threads, NEW r \in Results,
         Pending(t), Gets(t, r), IsFiniteSet(Failed)
  PROVE  IF r = Exception
           THEN /\ IsFiniteSet(Failed')
                /\ Cardinality(Failed') = Cardinality(Failed) + 1
           ELSE Failed' = Failed
<1>1. PICK R : R = {Exception}
  OBVIOUS
<1>2. /\ Failed = Ended(Calls, R)
      /\ Failed' = Ended(Calls, R)'
      /\ IsFiniteSet(Ended(Calls, R))
  BY <1>1 DEF Failed
<1>3. call[t] \in Calls
  <2>1. Len(Settled(t)) + 1 \in 1 .. Len(program[t])
    BY SettledLemma, ProgramLemma DEF Pending
  <2> QED
    BY <2>1, ProgramLemma DEF Pending
<1>4. IF call[t] \in Calls /\ r \in R
        THEN /\ IsFiniteSet(Ended(Calls, R)')
             /\ Cardinality(Ended(Calls, R)') = Cardinality(Ended(Calls, R)) + 1
        ELSE Ended(Calls, R)' = Ended(Calls, R)
  BY <1>2, EndedGets, Zenon
<1>5. r \in R <=> r = Exception
  BY <1>1
<1>6. CASE r \in R
  BY <1>2, <1>3, <1>4, <1>5, <1>6, Zenon
<1>7. CASE r \notin R
  BY <1>2, <1>4, <1>5, <1>7, Zenon
<1> QED
  BY <1>6, <1>7

\* Every step that settles a result is a step of StepLemma.
LEMMA StepGets ==
  ASSUME IInv, ProgramInv, [ClientNext]_clientVars
  PROVE  Quiet \/ \E t \in Threads : \E r \in Results : Pending(t) /\ Gets(t, r)
<1>1. ASSUME NEW t \in Threads, Pending(t), Answered(t) \/ Put(t) \/ Took(t) \/ Lost(t)
      PROVE  \E r \in Results : Gets(t, r)
  <2>1. CASE Answered(t)
    BY <2>1 DEF Answered
  <2>2. CASE Put(t)
    <3>1. PICK r \in {<<"void", Nil>>, <<"bool", TRUE>>} : Gets(t, r)
      BY <2>2 DEF Put
    <3> QED
      BY <3>1, PushResult
  <2>3. CASE Took(t)
    <3>1. m_data[m_first] \in Values \cup {Nil}
      BY DEF IInv, TypeOK
    <3>2. <<"element", m_data[m_first]>> \in Results
      BY <3>1 DEF Results
    <3> QED
      BY <2>3, <3>2 DEF Took
  <2>4. CASE Lost(t)
    BY <2>4 DEF Lost, Results
  <2> QED
    BY <1>1, <2>1, <2>2, <2>3, <2>4
<1> QED
  BY <1>1, StepLemma

\* A call that has failed has failed for good.
LEMMA FailedGrows ==
  ASSUME IInv, ProgramInv, program' = program, [ClientNext]_clientVars, IsFiniteSet(Failed)
  PROVE  /\ IsFiniteSet(Failed')
         /\ Cardinality(Failed) \in Nat /\ Cardinality(Failed') \in Nat
         /\ Cardinality(Failed) <= Cardinality(Failed')
<1>0. Cardinality(Failed) \in Nat
  BY FS_CardinalityType
<1>1. CASE Quiet
  <2>1. Failed' = Failed
    BY <1>1, EndedQuiet DEF Quiet, Failed
  <2> QED
    BY <1>0, <2>1
<1>2. ASSUME NEW t \in Threads, NEW r \in Results, Pending(t), Gets(t, r)
      PROVE  \/ IsFiniteSet(Failed') /\ Cardinality(Failed') = Cardinality(Failed) + 1
             \/ Failed' = Failed
  BY <1>2, FailedGets DEF IInv
<1> QED
  BY <1>0, <1>1, <1>2, StepGets

LEMMA ServedWeaken ==
  ASSUME IInv', NEW k \in Nat, NEW n \in Nat, k <= n,
         ElementsServedBut(k)', SpaceServedBut(k)'
  PROVE  ElementsServedBut(n)' /\ SpaceServedBut(n)'
<1>1. \A ops : OnTheWay(ops)' \subseteq Threads /\ Announcing(ops)' \subseteq Threads
  BY DEF OnTheWay, Announcing
<1>2. \A ops : Cardinality(OnTheWay(ops)') \in Nat /\ Cardinality(Announcing(ops)') \in Nat
  BY <1>1, CardinalityKept
<1>3. m_size' \in Nat /\ Capacity \in Nat
  BY CapacityAssumption DEF IInv, TypeOK
<1>4. ElementsServedBut(n)'
  BY <1>2, <1>3 DEF ElementsServedBut
<1>5. SpaceServedBut(n)'
  BY <1>2, <1>3 DEF SpaceServedBut
<1> QED
  BY <1>4, <1>5

LEMMA ThrowGets ==
  ASSUME IInv, ProgramInv, [ClientNext]_clientVars, NEW t \in Threads, Throw(t)
  PROVE  Pending(t) /\ Gets(t, Exception) /\ Exception \in Results
<1>1. /\ pc[t] = "apply" /\ pc' = [pc EXCEPT ![t] = "unlock"]
      /\ Goto(t, "unlock") /\ Return(t, Exception)
  BY DEF Throw, PushThrows, PopThrows, AssignThrows, Unwind, Goto
<1>2. ASSUME NEW u \in Threads, Collect(u)
      PROVE  FALSE
  <2>1. pc[u] = "unlock" /\ pc' = [pc EXCEPT ![u] = "idle"]
    BY <1>2 DEF Collect, Unlock, Goto
  <2> QED
    BY <1>1, <2>1 DEF IInv, TypeOK
<1>3. UNCHANGED results
  BY <1>2 DEF ClientNext, Advance, Issue, Inside, Disturb, clientVars
<1> QED
  BY <1>1, <1>3, GetsLemma, PendingLemma DEF Results

LEMMA WakeupsStep ==
  ASSUME IInv, IInv', ProgramInv, program' = program, [ClientNext]_clientVars,
         IsFiniteSet(Failed), WakeupsAccounted
  PROVE  WakeupsAccounted'
<1>0. /\ Cardinality(Failed) \in Nat /\ Cardinality(Failed') \in Nat
      /\ Cardinality(Failed) <= Cardinality(Failed')
  BY FailedGrows
<1>1. PICK k \in Nat : k = Cardinality(Failed)
  BY <1>0
<1>2. PICK n \in Nat : n = Cardinality(Failed')
  BY <1>0
<1>3. ElementsServedBut(k) /\ SpaceServedBut(k)
  BY <1>1 DEF WakeupsAccounted
<1>4. [Next]_vars
  BY NextLemma
<1>5. CASE \A t \in Threads : ~Throw(t)
  <2>1. ElementsServedBut(k)' /\ SpaceServedBut(k)'
    BY <1>3, <1>4, <1>5, ElementsStep, SpaceStep
  <2>2. ElementsServedBut(n)' /\ SpaceServedBut(n)'
    BY <1>0, <1>1, <1>2, <2>1, ServedWeaken
  <2> QED
    BY <1>2, <2>2 DEF WakeupsAccounted, ElementsServedBut, SpaceServedBut
<1>6. ASSUME NEW t \in Threads, Throw(t)
      PROVE  WakeupsAccounted'
  <2>1. ElementsServedBut(k + 1)' /\ SpaceServedBut(k + 1)'
    BY <1>3, <1>6, ThrowStep
  <2>2. Cardinality(Failed') = Cardinality(Failed) + 1
    BY <1>6, ThrowGets, FailedGets DEF IInv
  <2>3. n = k + 1
    BY <1>1, <1>2, <2>2
  <2> QED
    BY <1>2, <2>1, <2>3 DEF WakeupsAccounted, ElementsServedBut, SpaceServedBut
<1> QED
  BY <1>5, <1>6

FailuresInv == IsFiniteSet(Failed) /\ WakeupsAccounted

LEMMA FailuresInvariance == ClientSpec => []FailuresInv
<1>1. ClientInit => FailuresInv
  <2> SUFFICES ASSUME ClientInit
               PROVE  FailuresInv
    OBVIOUS
  <2>1. Failed = {}
    BY EndedInit DEF Failed
  <2>2. m_hasElements = {} /\ m_hasSpace = {}
    BY DEF ClientInit, Init
  <2> QED
    BY <2>1, <2>2, FS_EmptySet
       DEF FailuresInv, WakeupsAccounted, ElementsServedBut, SpaceServedBut
<1>2. ClientInv /\ ClientInv' /\ FailuresInv /\ [ClientNext]_clientVars => FailuresInv'
  <2> SUFFICES ASSUME ClientInv, ClientInv', FailuresInv, [ClientNext]_clientVars
               PROVE  FailuresInv'
    OBVIOUS
  <2>1. program' = program
    BY DEF ClientNext, Advance, Issue, Inside, Collect, Disturb, clientVars
  <2>2. IInv /\ IInv' /\ ProgramInv /\ IsFiniteSet(Failed) /\ WakeupsAccounted
    BY DEF ClientInv, FailuresInv
  <2>3. IsFiniteSet(Failed')
    BY <2>1, <2>2, FailedGrows
  <2>4. WakeupsAccounted'
    BY <2>1, <2>2, WakeupsStep
  <2> QED
    BY <2>3, <2>4 DEF FailuresInv
<1> QED
  BY <1>1, <1>2, ClientInvariance, PTL DEF ClientSpec

\* A thread stays blocked in pop (push) beside no more elements (free slots)
\* that nobody is on the way to than calls have ended with an exception,
\* whichever of the element's operations threw it.
THEOREM ExceptionsCostOneWakeup == ClientSpec => []WakeupsAccounted
BY FailuresInvariance, PTL DEF FailuresInv

-----------------------------------------------------------------------------
(***************************************************************************)
(* The tasks never all wait for each other.  If none can move, nobody is   *)
(* on the way to an element or to a slot, so by the accounted wakeups all  *)
(* of them sleep on one side: in pop, and the ring is empty, or in push,   *)
(* and it is full.  What was accepted was then delivered, but for what the *)
(* ring holds, and the programs would have to contain fewer pushes (pops)  *)
(* than they do.                                                           *)
(***************************************************************************)

ElementsFromPops == \A t \in Threads : \A i \in DOMAIN Settled(t) :
  Settled(t)[i][1] = "element" => program[t][i].op \in PopOps

FullWindow == \A i \in Slots : Offset(i) < m_size => m_data[i] # Nil

\* Calls without a deadline push and pop.
BlockingServed == \A t \in Threads : \A i \in DOMAIN Settled(t) :
  /\ program[t][i].op = "push" => Settled(t)[i] \in {<<"void", Nil>>, <<"bool", TRUE>>}
  /\ program[t][i].op = "pop" => Settled(t)[i] \in {"element"} \X Values

\* What holds until a call fails.
SoundInv == ElementsFromPops /\ (Failed = {} => FullWindow /\ BlockingServed)

LEMMA ElementsFromPopsStep ==
  ASSUME IInv, ProgramInv, program' = program, ElementsFromPops, NEW t \in Threads,
         NEW r \in Results, Pending(t), Gets(t, r),
         r[1] = "element" => call[t].op \in PopOps
  PROVE  ElementsFromPops'
<1> SUFFICES ASSUME NEW u \in Threads, NEW i \in DOMAIN (Settled(u)'),
                    Settled(u)'[i][1] = "element"
             PROVE  program[u][i].op \in PopOps
  BY DEF ElementsFromPops
<1>1. \/ i \in DOMAIN Settled(u) /\ Settled(u)'[i] = Settled(u)[i]
      \/ u = t /\ program'[u][i] = call[t] /\ Settled(u)'[i] = r
  BY GetsExtends DEF IInv
<1> QED
  BY <1>1 DEF ElementsFromPops

LEMMA BlockingServedStep ==
  ASSUME IInv, ProgramInv, program' = program, BlockingServed, NEW t \in Threads,
         NEW r \in Results, Pending(t), Gets(t, r),
         call[t].op = "push" => r \in {<<"void", Nil>>, <<"bool", TRUE>>},
         call[t].op = "pop" => r \in {"element"} \X Values
  PROVE  BlockingServed'
<1> SUFFICES ASSUME NEW u \in Threads, NEW i \in DOMAIN (Settled(u)')
             PROVE  /\ program[u][i].op = "push" =>
                         Settled(u)'[i] \in {<<"void", Nil>>, <<"bool", TRUE>>}
                    /\ program[u][i].op = "pop" => Settled(u)'[i] \in {"element"} \X Values
  BY DEF BlockingServed
<1>1. \/ i \in DOMAIN Settled(u) /\ Settled(u)'[i] = Settled(u)[i]
      \/ u = t /\ program'[u][i] = call[t] /\ Settled(u)'[i] = r
  BY GetsExtends DEF IInv
<1> QED
  BY <1>1 DEF BlockingServed

LEMMA SoundStep ==
  ASSUME ClientInv, program' = program, [ClientNext]_clientVars, IsFiniteSet(Failed), SoundInv
  PROVE  SoundInv'
<1>0. /\ TypeOK /\ IInv /\ ProgramInv /\ ElementsFromPops
      /\ m_size \in 0 .. Capacity /\ m_first \in Slots /\ Capacity \in Nat \ {0}
  BY CapacityAssumption DEF ClientInv, IInv, TypeOK, SoundInv
<1>1. CASE Quiet
  <2>1. Failed' = Failed
    BY <1>1, EndedQuiet DEF Quiet, Failed
  <2>2. ElementsFromPops'
    BY <1>0, <1>1 DEF ElementsFromPops, Quiet
  <2>3. BlockingServed => BlockingServed'
    BY <1>1 DEF BlockingServed, Quiet
  <2>4. FullWindow => FullWindow'
    BY <1>1 DEF FullWindow, Quiet, ring, Offset
  <2> QED
    BY <2>1, <2>2, <2>3, <2>4 DEF SoundInv
<1>2. ASSUME NEW t \in Threads, Pending(t), NEW r \in Results, Gets(t, r)
      PROVE  /\ Failed' = {} => Failed = {} /\ r # Exception
             /\ Failed = {} => FullWindow /\ BlockingServed
  <2>1. \/ r = Exception /\ IsFiniteSet(Failed')
             /\ Cardinality(Failed') = Cardinality(Failed) + 1
        \/ r # Exception /\ Failed' = Failed
    BY <1>0, <1>2, FailedGets
  <2>2. Cardinality(Failed) \in Nat
    BY FS_CardinalityType
  <2>3. ASSUME Failed' = {}
        PROVE  Failed = {} /\ r # Exception
    <3>1. Cardinality(Failed') = 0
      BY <2>3, FS_EmptySet
    <3> QED
      BY <2>1, <2>2, <2>3, <3>1
  <2> QED
    BY <2>3 DEF SoundInv
<1>3. ASSUME NEW t \in Threads, Pending(t), Answered(t)
      PROVE  SoundInv'
  <2>1. PICK r \in Results : /\ Gets(t, r)
                             /\ r[1] # "element"
                             /\ call[t].op \in {"push", "pop"} => r = Exception
                             /\ r # Exception => m_size' = m_size
    BY <1>3 DEF Answered
  <2>2. ElementsFromPops'
    BY <1>0, <1>3, <2>1, ElementsFromPopsStep
  <2>3. ASSUME Failed' = {}
        PROVE  FullWindow' /\ BlockingServed'
    <3>1. Failed = {} /\ r # Exception /\ FullWindow /\ BlockingServed
      BY <1>2, <1>3, <2>1, <2>3
    <3>2. FullWindow'
      BY <1>3, <2>1, <3>1 DEF FullWindow, Answered, Offset
    <3>3. BlockingServed'
      BY <1>0, <1>3, <2>1, <3>1, BlockingServedStep
    <3> QED
      BY <3>2, <3>3
  <2> QED
    BY <2>2, <2>3 DEF SoundInv
<1>4. ASSUME NEW t \in Threads, Pending(t), Put(t)
      PROVE  SoundInv'
  <2>1. PICK r \in {<<"void", Nil>>, <<"bool", TRUE>>} : Gets(t, r)
    BY <1>4 DEF Put
  <2>2. r \in Results /\ r[1] # "element"
    BY PushResult
  <2>3. call[t].op \in PushOps /\ ~do_full /\ do_push(call[t].elem)
    BY <1>4 DEF Put
  <2>4. ElementsFromPops'
    BY <1>0, <1>4, <2>1, <2>2, ElementsFromPopsStep
  <2>5. ASSUME Failed' = {}
        PROVE  FullWindow' /\ BlockingServed'
    <3>1. FullWindow /\ BlockingServed
      BY <1>2, <1>4, <2>1, <2>2, <2>5
    <3>2. call[t].elem # Nil
      <4>1. Len(Settled(t)) + 1 \in 1 .. Len(program[t])
        BY <1>0, <1>4, SettledLemma, ProgramLemma DEF Pending
      <4>2. call[t] \in Calls
        BY <1>0, <1>4, <4>1, ProgramLemma DEF Pending
      <4> QED
        BY <2>3, <4>2, CallsLemma, NilAssumption
    <3>3. /\ m_size' = m_size + 1
          /\ \A i \in Slots :
               /\ Offset(i)' = Offset(i)
               /\ Offset(i) = m_size <=> i = to_buffer_index(m_size)
               /\ m_data'[i] = IF i = to_buffer_index(m_size) THEN call[t].elem ELSE m_data[i]
      BY <1>0, <2>3, PutLemma
    <3>4. FullWindow'
      <4> SUFFICES ASSUME NEW i \in Slots, Offset(i) < m_size + 1
                   PROVE  m_data'[i] # Nil
        BY <3>3 DEF FullWindow
      <4>1. Offset(i) < m_size \/ Offset(i) = m_size
        BY <1>0, OffsetLemma
      <4> QED
        BY <3>1, <3>2, <3>3, <4>1 DEF FullWindow
    <3>5. BlockingServed'
      BY <1>0, <1>4, <2>1, <2>2, <2>3, <3>1, BlockingServedStep DEF PushOps
    <3> QED
      BY <3>4, <3>5
  <2> QED
    BY <2>4, <2>5 DEF SoundInv
<1>5. ASSUME NEW t \in Threads, Pending(t), Took(t)
      PROVE  SoundInv'
  <2>1. PICK r : r = <<"element", m_data[m_first]>>
    OBVIOUS
  <2>2. /\ Gets(t, r) /\ call[t].op \in PopOps /\ ~do_empty /\ do_pop
        /\ m_data[m_first] \in Values \cup {Nil}
    BY <1>0, <1>5, <2>1 DEF Took, TypeOK
  <2>3. r \in Results
    BY <2>1, <2>2 DEF Results
  <2>4. ElementsFromPops'
    BY <1>0, <1>5, <2>2, <2>3, ElementsFromPopsStep
  <2>5. ASSUME Failed' = {}
        PROVE  FullWindow' /\ BlockingServed'
    <3>1. FullWindow /\ BlockingServed
      BY <1>2, <1>5, <2>2, <2>3, <2>5
    <3>2. m_data[m_first] # Nil
      <4>1. Offset(m_first) = 0
        BY <1>0, OffsetLemma
      <4> QED
        BY <1>0, <2>2, <3>1, <4>1 DEF FullWindow, do_empty
    <3>3. r \in {"element"} \X Values
      BY <2>1, <2>2, <3>2
    <3>4. /\ m_size' = m_size - 1
          /\ \A i \in Slots :
               /\ Offset(i)' = IF i = m_first THEN Capacity - 1 ELSE Offset(i) - 1
               /\ m_data'[i] = IF i = m_first THEN Nil ELSE m_data[i]
      BY <1>0, <2>2, TookLemma
    <3>5. FullWindow'
      <4> SUFFICES ASSUME NEW i \in Slots, Offset(i)' < m_size - 1
                   PROVE  m_data'[i] # Nil
        BY <3>4 DEF FullWindow
      <4>1. i # m_first
        BY <1>0, <3>4
      <4>2. Offset(i) < m_size
        BY <1>0, <3>4, <4>1, OffsetLemma
      <4> QED
        BY <3>1, <3>4, <4>1, <4>2 DEF FullWindow
    <3>6. BlockingServed'
      BY <1>0, <1>5, <2>2, <2>3, <3>1, <3>3, BlockingServedStep DEF PopOps
    <3> QED
      BY <3>5, <3>6
  <2> QED
    BY <2>4, <2>5 DEF SoundInv
<1>6. ASSUME NEW t \in Threads, Pending(t), Lost(t)
      PROVE  SoundInv'
  <2>1. Gets(t, Exception) /\ Exception \in Results /\ Exception[1] # "element"
    BY <1>6 DEF Lost, Exception, Results
  <2>2. ElementsFromPops'
    BY <1>0, <1>6, <2>1, ElementsFromPopsStep
  <2>3. Failed' # {}
    BY <1>2, <1>6, <2>1
  <2> QED
    BY <2>2, <2>3 DEF SoundInv
<1> QED
  BY <1>0, <1>1, <1>3, <1>4, <1>5, <1>6, StepLemma

-----------------------------------------------------------------------------
(* The calls of the programs, counted. *)

LEMMA CallsFinite ==
  ASSUME NEW tasks \in Programs, NEW ops
  PROVE  IsFiniteSet(CallsTo(tasks, ops))
<1>1. PICK f : f = [t \in Threads |-> {t} \X {i \in DOMAIN tasks[t] : tasks[t][i].op \in ops}]
  OBVIOUS
<1>2. PICK S : S = {{t} \X {i \in DOMAIN tasks[t] : tasks[t][i].op \in ops} : t \in Threads}
  OBVIOUS
<1>3. f \in Surjection(Threads, S)
  BY <1>1, <1>2 DEF Surjection
<1>4. IsFiniteSet(S)
  BY <1>3, ThreadsAssumption, FS_Surjection
<1>5. ASSUME NEW T \in S
      PROVE  IsFiniteSet(T)
  <2>1. PICK t \in Threads : T = {t} \X {i \in DOMAIN tasks[t] : tasks[t][i].op \in ops}
    BY <1>2
  <2>2. tasks[t] \in Seq(Calls)
    BY ProgramAssumption
  <2>3. PICK n \in Nat : DOMAIN tasks[t] = 1 .. n
    BY <2>2, LenProperties
  <2>4. IsFiniteSet(1 .. n)
    BY FS_Interval
  <2>5. IsFiniteSet({i \in DOMAIN tasks[t] : tasks[t][i].op \in ops})
    BY <2>3, <2>4, FS_Subset
  <2>6. IsFiniteSet({t})
    BY FS_Singleton
  <2> QED
    BY <2>1, <2>5, <2>6, FS_Product
<1>6. IsFiniteSet(UNION S)
  BY <1>4, <1>5, FS_UNION
<1> QED
  BY <1>2, <1>6 DEF CallsTo

LEMMA InCallsTo ==
  ASSUME NEW tasks, NEW ops, NEW t \in Threads, NEW i \in DOMAIN tasks[t],
         tasks[t][i].op \in ops
  PROVE  <<t, i>> \in CallsTo(tasks, ops)
<1>1. <<t, i>> \in {t} \X {j \in DOMAIN tasks[t] : tasks[t][j].op \in ops}
  OBVIOUS
<1> QED
  BY <1>1 DEF CallsTo

LEMMA InAhead ==
  ASSUME NEW tasks, NEW op, NEW blocker, NEW e \in Ahead(tasks, op, blocker)
  PROVE  \E t \in Threads : \E i \in DOMAIN tasks[t] :
           /\ e = <<t, i>>
           /\ tasks[t][i].op = op
           /\ \A j \in DOMAIN tasks[t] : j < i => tasks[t][j].op # blocker
<1>1. PICK t \in Threads : e \in {t} \X {i \in DOMAIN tasks[t] :
                                /\ tasks[t][i].op = op
                                /\ \A j \in DOMAIN tasks[t] : j < i => tasks[t][j].op # blocker}
  BY DEF Ahead
<1> QED
  BY <1>1

\* A task without a running call has results for those before its next one,
\* and its next one is the call it waits in.
LEMMA SleepersResults ==
  ASSUME IInv, ProgramInv, NEW t \in Threads,
         (pc[t] = "idle" /\ Done(t)) \/ pc[t] = "waiting"
  PROVE  /\ Settled(t) = results[t]
         /\ DOMAIN Settled(t) = 1 .. Len(results[t])
         /\ DOMAIN program[t] = 1 .. Len(program[t])
         /\ Len(results[t]) \in Nat /\ Len(program[t]) \in Nat
         /\ \/ pc[t] = "idle" /\ Len(results[t]) = Len(program[t])
            \/ /\ pc[t] = "waiting"
               /\ Len(results[t]) + 1 \in DOMAIN program[t]
               /\ call[t] = program[t][Len(results[t]) + 1]
<1>1. Settled(t) = results[t]
  BY DEF Settled
<1>2. program[t] \in Seq(Calls) /\ Len(program[t]) \in Nat
  BY ProgramLemma
<1>3. DOMAIN program[t] = 1 .. Len(program[t])
  BY <1>2, LenProperties
<1>4. DOMAIN Settled(t) = 1 .. Len(results[t]) /\ Len(results[t]) \in Nat
  BY <1>1, SettledLemma DEF IInv
<1>5. \/ pc[t] = "idle" /\ Len(results[t]) = Len(program[t])
      \/ /\ pc[t] = "waiting"
         /\ Len(results[t]) < Len(program[t])
         /\ call[t] = program[t][Len(results[t]) + 1]
  BY DEF ProgramInv, Done
<1> QED
  BY <1>1, <1>2, <1>3, <1>4, <1>5

\* Where every task has finished or sleeps in blocker, a call that follows no
\* call of blocker has its result.
LEMMA AheadEnded ==
  ASSUME IInv, ProgramInv, NEW op, NEW blocker, op # blocker,
         \A t \in Threads : \/ pc[t] = "idle" /\ Done(t)
                            \/ pc[t] = "waiting" /\ call[t].op = blocker,
         NEW e \in Ahead(program, op, blocker)
  PROVE  \E t \in Threads : \E i \in DOMAIN Settled(t) :
           e = <<t, i>> /\ i \in DOMAIN program[t] /\ program[t][i].op = op
<1>0. PICK t \in Threads : \E i \in DOMAIN program[t] :
        /\ e = <<t, i>> /\ program[t][i].op = op
        /\ \A j \in DOMAIN program[t] : j < i => program[t][j].op # blocker
  BY InAhead
<1>1. PICK i \in DOMAIN program[t] :
        /\ e = <<t, i>> /\ program[t][i].op = op
        /\ \A j \in DOMAIN program[t] : j < i => program[t][j].op # blocker
  BY <1>0
<1>2. /\ DOMAIN Settled(t) = 1 .. Len(results[t])
      /\ DOMAIN program[t] = 1 .. Len(program[t])
      /\ Len(results[t]) \in Nat /\ Len(program[t]) \in Nat
      /\ \/ pc[t] = "idle" /\ Len(results[t]) = Len(program[t])
         \/ /\ pc[t] = "waiting"
            /\ Len(results[t]) + 1 \in DOMAIN program[t]
            /\ call[t] = program[t][Len(results[t]) + 1]
  BY SleepersResults
<1>3. CASE pc[t] = "idle"
  BY <1>1, <1>2, <1>3
<1>4. CASE pc[t] = "waiting"
  <2>1. PICK n : n = Len(results[t]) + 1
    OBVIOUS
  <2>2. n \in DOMAIN program[t] /\ program[t][n].op = blocker
    BY <1>2, <1>4, <2>1
  <2>3. i # n /\ ~(n < i)
    BY <1>1, <2>2
  <2> QED
    BY <1>1, <1>2, <2>1, <2>3
<1> QED
  BY <1>2, <1>3, <1>4

\* The call a task waits in has no result yet.
LEMMA WaitingUnsettled ==
  ASSUME IInv, ProgramInv, NEW t \in Threads, pc[t] = "waiting"
  PROVE  /\ Len(results[t]) + 1 \in DOMAIN program[t]
         /\ call[t] = program[t][Len(results[t]) + 1]
         /\ Len(results[t]) + 1 \notin DOMAIN Settled(t)
<1>1. /\ DOMAIN Settled(t) = 1 .. Len(results[t])
      /\ Len(results[t]) \in Nat
      /\ Len(results[t]) + 1 \in DOMAIN program[t]
      /\ call[t] = program[t][Len(results[t]) + 1]
  BY SleepersResults
<1> QED
  BY <1>1

\* A set of ended calls to some functions that misses one of them is smaller.
LEMMA OneMissing ==
  ASSUME NEW S, NEW T, NEW e \in T, IsFiniteSet(T), S \subseteq T, e \notin S
  PROVE  Cardinality(S) \in Nat /\ Cardinality(T) \in Nat /\ Cardinality(S) < Cardinality(T)
<1>1. IsFiniteSet(S) /\ Cardinality(S) <= Cardinality(T)
  BY FS_Subset
<1>2. Cardinality(S) # Cardinality(T)
  BY FS_Subset
<1> QED
  BY <1>1, <1>2, FS_CardinalityType

\* Only calls of the programs end.
LEMMA EndedInProgram ==
  ASSUME IInv, ProgramInv, NEW t \in Threads
  PROVE  DOMAIN Settled(t) \subseteq DOMAIN program[t]
<1>1. /\ results[t] \in Seq(Results) /\ Len(results[t]) \in Nat
      /\ program[t] \in Seq(Calls) /\ Len(program[t]) \in Nat
  BY ProgramLemma
<1>2. /\ DOMAIN program[t] = 1 .. Len(program[t])
      /\ DOMAIN Settled(t) = 1 .. Len(Settled(t))
  BY <1>1, SettledLemma, LenProperties DEF IInv
<1>3. Len(Settled(t)) <= Len(program[t])
  <2>1. CASE pc[t] \in {"notify", "unlock"}
    <3>1. Len(results[t]) < Len(program[t])
      BY <2>1 DEF ProgramInv
    <3>2. Len(Append(results[t], ret[t])) = Len(results[t]) + 1
      BY <1>1, AppendProperties DEF IInv, TypeOK
    <3> QED
      BY <1>1, <2>1, <3>1, <3>2 DEF Settled
  <2>2. CASE pc[t] \notin {"notify", "unlock"}
    BY <2>2 DEF ProgramInv, Settled
  <2> QED
    BY <2>1, <2>2
<1> QED
  BY <1>1, <1>2, <1>3, SettledLemma DEF IInv

LEMMA FailedPopsFailed == FailedPops \subseteq Failed
<1> SUFFICES ASSUME NEW e \in FailedPops
             PROVE  e \in Failed
  OBVIOUS
<1>1. PICK C, R : C = [op : PopOps, elem : {Nil}] /\ R = {Exception}
  OBVIOUS
<1>2. C \subseteq Calls
  BY <1>1 DEF Calls
<1>3. e \in Ended(C, R)
  BY <1>1 DEF FailedPops
<1>4. PICK t \in Threads : \E i \in DOMAIN Settled(t) :
        e = <<t, i>> /\ program[t][i] \in C /\ Settled(t)[i] \in R
  BY <1>3, InEnded
<1>5. e \in Ended(Calls, R)
  BY <1>2, <1>4, InEnded
<1> QED
  BY <1>1, <1>5 DEF Failed

-----------------------------------------------------------------------------
(* A state in which nobody can move. *)

AllStuck == \A t \in Threads : ~CanMove(t)

LEMMA StuckPlaces ==
  ASSUME IInv, AllStuck
  PROVE  \A t \in Threads : \/ pc[t] = "idle" /\ Done(t)
                            \/ pc[t] = "waiting" /\ call[t].op \in {"push", "pop"}
<1>1. m_mutex = Nil
  <2> SUFFICES ASSUME m_mutex \in Threads
               PROVE  FALSE
    BY DEF IInv, TypeOK
  <2>1. pc[m_mutex] \in Critical
    BY DEF IInv, MutexOwner
  <2> QED
    BY <2>1 DEF AllStuck, CanMove
<1> SUFFICES ASSUME NEW t \in Threads
             PROVE  \/ pc[t] = "idle" /\ Done(t)
                    \/ pc[t] = "waiting" /\ call[t].op \in {"push", "pop"}
  OBVIOUS
<1>2. pc[t] \in Places /\ ~CanMove(t)
  BY DEF IInv, TypeOK, AllStuck
<1>3. CASE pc[t] = "waiting"
  <2>1. call[t].op \in WaitOps /\ t \notin expired
    BY <1>3 DEF IInv, PlaceInv
  <2> QED
    BY <1>2, <1>3, <2>1 DEF CanMove, WaitOps
<1>4. CASE pc[t] # "waiting"
  BY <1>1, <1>2, <1>4 DEF Places, CanMove
<1> QED
  BY <1>3, <1>4

LEMMA StuckSides ==
  ASSUME IInv, AllStuck, FailuresInv, Failed = {}
  PROVE  /\ m_hasElements # {} => m_size = 0
         /\ m_hasSpace # {} => m_size = Capacity
<1>1. \A ops : OnTheWay(ops) = {} /\ Announcing(ops) = {}
  BY StuckPlaces DEF OnTheWay, Announcing
<1>2. Cardinality({}) = 0
  BY FS_EmptySet
<1>3. ElementsServedBut(0) /\ SpaceServedBut(0)
  BY <1>2 DEF FailuresInv, WakeupsAccounted
<1>4. m_size \in 0 .. Capacity /\ Capacity \in Nat
  BY CapacityAssumption DEF IInv, TypeOK
<1>5. m_hasElements # {} => m_size <= 0
  BY <1>1, <1>2, <1>3, <1>4 DEF ElementsServedBut
<1>6. m_hasSpace # {} => Capacity - m_size <= 0
  BY <1>1, <1>2, <1>3, <1>4 DEF SpaceServedBut
<1> QED
  BY <1>4, <1>5, <1>6

\* With a task asleep in pop, all the tasks that have not finished are.
LEMMA StuckInPop ==
  ASSUME ClientInv, Balanced, SoundInv, FailuresInv, Served(program), AllStuck, Failed = {},
         NEW s \in Threads, pc[s] = "waiting", call[s].op = "pop"
  PROVE  FALSE
<1>0. IInv /\ ProgramInv /\ ElementsFromPops /\ BlockingServed /\ program \in Programs
  BY DEF ClientInv, SoundInv, ProgramInv
<1>1. s \in m_hasElements
  BY <1>0 DEF IInv, PlaceInv, PopOps
<1>2. m_size = 0
  BY <1>0, <1>1, StuckSides
<1>3. \A t \in Threads : \/ pc[t] = "idle" /\ Done(t)
                         \/ pc[t] = "waiting" /\ call[t].op = "pop"
  <2> SUFFICES ASSUME NEW t \in Threads, pc[t] = "waiting", call[t].op = "push"
               PROVE  FALSE
    BY <1>0, StuckPlaces
  <2>1. t \in m_hasSpace
    BY <1>0 DEF IInv, PlaceInv, PushOps
  <2> QED
    BY <1>0, <1>2, <2>1, StuckSides, CapacityAssumption
<1>4. Ahead(program, "push", "pop") \subseteq Accepted(Values)
  <2> SUFFICES ASSUME NEW e \in Ahead(program, "push", "pop")
               PROVE  e \in Accepted(Values)
    OBVIOUS
  <2>1. PICK t \in Threads : \E i \in DOMAIN Settled(t) :
          e = <<t, i>> /\ i \in DOMAIN program[t] /\ program[t][i].op = "push"
    BY <1>0, <1>3, "push" # "pop", AheadEnded
  <2>2. PICK i \in DOMAIN Settled(t) :
          e = <<t, i>> /\ i \in DOMAIN program[t] /\ program[t][i].op = "push"
    BY <2>1
  <2>4. Settled(t)[i] \in {<<"void", Nil>>, <<"bool", TRUE>>}
    BY <1>0, <2>2 DEF BlockingServed
  <2>5. program[t][i] \in [op : PushOps, elem : Values]
    <3>1. program[t] \in Seq(Calls)
      BY <1>0, ProgramLemma
    <3>2. program[t][i] \in Calls
      BY <2>2, <3>1
    <3> QED
      BY <2>2, <3>2 DEF Calls, PushOps, PopOps, Observers
  <2> QED
    BY <2>2, <2>4, <2>5, InEnded DEF Accepted
<1>5. PICK n : n = Len(results[s]) + 1
  OBVIOUS
<1>6. n \in DOMAIN program[s] /\ program[s][n].op = "pop" /\ n \notin DOMAIN Settled(s)
  BY <1>0, <1>5, WaitingUnsettled
<1>7. /\ <<s, n>> \in CallsTo(program, PopOps)
      /\ <<s, n>> \in CallsTo(program, {"pop"})
  BY <1>6, InCallsTo DEF PopOps
<1>8. /\ Delivered(Values) \subseteq CallsTo(program, PopOps)
      /\ <<s, n>> \notin Delivered(Values)
  <2>1. ASSUME NEW e \in Delivered(Values)
        PROVE  e \in CallsTo(program, PopOps) /\ e # <<s, n>>
    <3>0. PICK t \in Threads : \E i \in DOMAIN Settled(t) :
            e = <<t, i>> /\ Settled(t)[i] \in {"element"} \X Values
      BY InEnded DEF Delivered
    <3>1. PICK i \in DOMAIN Settled(t) :
            e = <<t, i>> /\ Settled(t)[i] \in {"element"} \X Values
      BY <3>0
    <3>2. program[t][i].op \in PopOps
      BY <1>0, <3>1 DEF ElementsFromPops
    <3>3. i \in DOMAIN program[t]
      BY <1>0, EndedInProgram
    <3>4. e \in CallsTo(program, PopOps)
      BY <3>1, <3>2, <3>3, InCallsTo
    <3> QED
      BY <1>6, <3>1, <3>4
  <2> QED
    BY <2>1
<1>9. Held(Values) = {}
  <2>1. \A i \in Slots : m_data[i] = Nil
    BY <1>0, <1>2, OffsetLemma DEF ClientInv, NoStrayElement, IInv
  <2> QED
    BY <2>1, NilAssumption DEF Held
<1>10. FailedPops = {}
  BY FailedPopsFailed
<1>11. /\ IsFiniteSet(Accepted(Values))
       /\ Cardinality(Accepted(Values)) <=
            Cardinality(Delivered(Values)) + Cardinality(Held(Values)) + Cardinality(FailedPops)
  BY DEF Balanced, Balance
<1>12. Cardinality(Accepted(Values)) <= Cardinality(Delivered(Values))
  <2>1. Cardinality(Held(Values)) = 0 /\ Cardinality(FailedPops) = 0
    BY <1>9, <1>10, FS_EmptySet
  <2>2. Cardinality(Delivered(Values)) \in Nat /\ Cardinality(Accepted(Values)) \in Nat
    BY BalanceNumbers DEF Balanced
  <2> QED
    BY <1>11, <2>1, <2>2
<1>13. /\ Cardinality(Ahead(program, "push", "pop")) <= Cardinality(Accepted(Values))
       /\ Cardinality(Ahead(program, "push", "pop")) \in Nat
       /\ Cardinality(Accepted(Values)) \in Nat
  <2>1. IsFiniteSet(Ahead(program, "push", "pop"))
    BY <1>4, <1>11, FS_Subset
  <2> QED
    BY <1>4, <1>11, <2>1, FS_Subset, FS_CardinalityType
<1>14. /\ Cardinality(Delivered(Values)) \in Nat
       /\ Cardinality(CallsTo(program, PopOps)) \in Nat
       /\ Cardinality(Delivered(Values)) < Cardinality(CallsTo(program, PopOps))
  BY <1>0, <1>7, <1>8, CallsFinite, OneMissing
<1>15. Cardinality(CallsTo(program, PopOps)) <= Cardinality(Ahead(program, "push", "pop"))
  BY <1>7 DEF Served
<1> QED
  BY <1>12, <1>13, <1>14, <1>15

\* With a task asleep in push, all the tasks that have not finished are.
LEMMA StuckInPush ==
  ASSUME ClientInv, Balanced, SoundInv, FailuresInv, Served(program), AllStuck, Failed = {},
         NEW s \in Threads, pc[s] = "waiting", call[s].op = "push"
  PROVE  FALSE
<1>0. IInv /\ ProgramInv /\ BlockingServed /\ program \in Programs
  BY DEF ClientInv, SoundInv, ProgramInv
<1>1. s \in m_hasSpace
  BY <1>0 DEF IInv, PlaceInv, PushOps
<1>2. m_size = Capacity
  BY <1>0, <1>1, StuckSides
<1>3. \A t \in Threads : \/ pc[t] = "idle" /\ Done(t)
                         \/ pc[t] = "waiting" /\ call[t].op = "push"
  <2> SUFFICES ASSUME NEW t \in Threads, pc[t] = "waiting", call[t].op = "pop"
               PROVE  FALSE
    BY <1>0, StuckPlaces
  <2>1. t \in m_hasElements
    BY <1>0 DEF IInv, PlaceInv, PopOps
  <2> QED
    BY <1>0, <1>2, <2>1, StuckSides, CapacityAssumption
<1>4. Ahead(program, "pop", "push") \subseteq Delivered(Values)
  <2> SUFFICES ASSUME NEW e \in Ahead(program, "pop", "push")
               PROVE  e \in Delivered(Values)
    OBVIOUS
  <2>1. PICK t \in Threads : \E i \in DOMAIN Settled(t) :
          e = <<t, i>> /\ i \in DOMAIN program[t] /\ program[t][i].op = "pop"
    BY <1>0, <1>3, "push" # "pop", AheadEnded
  <2>2. PICK i \in DOMAIN Settled(t) :
          e = <<t, i>> /\ i \in DOMAIN program[t] /\ program[t][i].op = "pop"
    BY <2>1
  <2>3. Settled(t)[i] \in {"element"} \X Values
    BY <1>0, <2>2 DEF BlockingServed
  <2>4. program[t][i] \in Calls
    <3>1. program[t] \in Seq(Calls)
      BY <1>0, ProgramLemma
    <3> QED
      BY <2>2, <3>1
  <2> QED
    BY <2>2, <2>3, <2>4, InEnded DEF Delivered
<1>5. PICK n : n = Len(results[s]) + 1
  OBVIOUS
<1>6. n \in DOMAIN program[s] /\ program[s][n].op = "push" /\ n \notin DOMAIN Settled(s)
  BY <1>0, <1>5, WaitingUnsettled
<1>7. /\ <<s, n>> \in CallsTo(program, PushOps)
      /\ <<s, n>> \in CallsTo(program, {"push"})
  BY <1>6, InCallsTo DEF PushOps
<1>8. /\ Accepted(Values) \subseteq CallsTo(program, PushOps)
      /\ <<s, n>> \notin Accepted(Values)
  <2>1. ASSUME NEW e \in Accepted(Values)
        PROVE  e \in CallsTo(program, PushOps) /\ e # <<s, n>>
    <3>1. PICK C, R : C = [op : PushOps, elem : Values] /\ R = {<<"void", Nil>>, <<"bool", TRUE>>}
      OBVIOUS
    <3>2. e \in Ended(C, R)
      BY <3>1 DEF Accepted
    <3>3. PICK t \in Threads : \E i \in DOMAIN Settled(t) :
            e = <<t, i>> /\ program[t][i] \in C /\ Settled(t)[i] \in R
      BY <3>2, InEnded
    <3>4. PICK i \in DOMAIN Settled(t) : e = <<t, i>> /\ program[t][i] \in C
      BY <3>3
    <3>5. program[t][i] \in [op : PushOps, elem : Values]
      BY <3>1, <3>4
    <3>6. i \in DOMAIN program[t] /\ program[t][i].op \in PushOps
      BY <1>0, <3>4, <3>5, EndedInProgram
    <3>7. e \in CallsTo(program, PushOps)
      BY <3>4, <3>6, InCallsTo
    <3> QED
      BY <1>6, <3>4, <3>7
  <2> QED
    BY <2>1
<1>9. Cardinality(Held(Values)) = Capacity
  <2>1. \A i \in Slots : m_data[i] \in Values
    <3> SUFFICES ASSUME NEW i \in Slots
                 PROVE  m_data[i] # Nil
      BY <1>0 DEF IInv, TypeOK
    <3>1. Offset(i) < m_size
      BY <1>0, <1>2, OffsetLemma, CapacityAssumption DEF IInv
    <3> QED
      BY <3>1 DEF SoundInv, FullWindow
  <2>2. Held(Values) = 0 .. Capacity - 1
    BY <2>1 DEF Held, Slots
  <2> QED
    BY <2>2, FS_Interval, CapacityAssumption
<1>10. /\ IsFiniteSet(Delivered(Values))
       /\ Cardinality(Delivered(Values)) + Cardinality(Held(Values))
            <= Cardinality(Accepted(Values))
  BY DEF Balanced, Balance
<1>11. /\ Cardinality(Ahead(program, "pop", "push")) <= Cardinality(Delivered(Values))
       /\ Cardinality(Ahead(program, "pop", "push")) \in Nat
       /\ Cardinality(Delivered(Values)) \in Nat
  <2>1. IsFiniteSet(Ahead(program, "pop", "push"))
    BY <1>4, <1>10, FS_Subset
  <2> QED
    BY <1>4, <1>10, <2>1, FS_Subset, FS_CardinalityType
<1>12. /\ Cardinality(Accepted(Values)) \in Nat
       /\ Cardinality(CallsTo(program, PushOps)) \in Nat
       /\ Cardinality(Accepted(Values)) < Cardinality(CallsTo(program, PushOps))
  BY <1>0, <1>7, <1>8, CallsFinite, OneMissing
<1>13. Cardinality(CallsTo(program, PushOps)) <=
         Cardinality(Ahead(program, "pop", "push")) + Capacity
  BY <1>7 DEF Served
<1> QED
  BY <1>9, <1>10, <1>11, <1>12, <1>13, CapacityAssumption

LEMMA SoundInvariance == ClientSpec => []SoundInv
<1>1. ClientInit => SoundInv
  <2> SUFFICES ASSUME ClientInit
               PROVE  SoundInv
    OBVIOUS
  <2>1. \A t \in Threads : DOMAIN Settled(t) = {}
    BY DEF ClientInit, Init, Settled
  <2>2. m_size = 0 /\ TypeOK
    BY ClientInitInv DEF ClientInit, Init, ClientInv, IInv
  <2>3. FullWindow
    BY <2>2, OffsetLemma DEF FullWindow
  <2> QED
    BY <2>1, <2>3 DEF SoundInv, ElementsFromPops, BlockingServed
<1>2. ClientInv /\ FailuresInv /\ SoundInv /\ [ClientNext]_clientVars => SoundInv'
  <2> SUFFICES ASSUME ClientInv, FailuresInv, SoundInv, [ClientNext]_clientVars
               PROVE  SoundInv'
    OBVIOUS
  <2>1. program' = program
    BY DEF ClientNext, Advance, Issue, Inside, Collect, Disturb, clientVars
  <2> QED
    BY <2>1, SoundStep DEF FailuresInv
<1> QED
  BY <1>1, <1>2, ClientInvariance, FailuresInvariance, PTL DEF ClientSpec

\* Where the programs are served, the tasks never all wait for each other: not
\* on m_mutex, not in pop beside an element, not in push beside a free slot,
\* and not some of them in pop and the others in push.
THEOREM TasksNeverAllBlocked ==
  ASSUME \A tasks \in Programs : Served(tasks)
  PROVE  ClientSpec => []NeverAllBlocked
<1>1. ClientInv /\ Balanced /\ FailuresInv /\ SoundInv => NeverAllBlocked
  <2> SUFFICES ASSUME ClientInv, Balanced, FailuresInv, SoundInv, Failed = {}, AllStuck
               PROVE  AllDone
    BY DEF NeverAllBlocked, AllStuck
  <2>1. IInv /\ Served(program)
    BY DEF ClientInv, ProgramInv
  <2>2. \A t \in Threads : pc[t] = "idle" /\ Done(t)
    BY <2>1, StuckPlaces, StuckInPop, StuckInPush
  <2> QED
    BY <2>2 DEF AllDone
<1> QED
  BY <1>1, ClientInvariance, BalanceInvariance, FailuresInvariance, SoundInvariance, PTL

=============================================================================
