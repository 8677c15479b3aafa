----------------------------- MODULE Http_proofs -----------------------------
(***************************************************************************)
(* Proofs about the HTTP server: its pool of threads, for any set of       *)
(* workers and of connections and any ring size; its route table, for any  *)
(* routes, in any order, and any requests.                                 *)
(***************************************************************************)
EXTENDS HttpPool, Mux, RingLemmas, FiniteSetTheorems, SequenceTheorems

----------------------------------------------------------------------------
(* The inductive invariant, in parts *)

\* The steps between taking pool->mu and giving it up.
Critical == {"check", "put", "grow", "signal", "unlock", "read", "advance"}

\* The holder of the mutex is the thread inside its critical section.
MutexInv == \A t \in Threads : mu = t <=> pc[t] \in Critical

\* What a thread knows of the ring between two of its steps.
HeldInv ==
    /\ pc[acceptor] \in Owning => conn[acceptor] \in Conns
    /\ pc[acceptor] = "grow" => queue[Slot(len)] = conn[acceptor]
    /\ \A w \in Workers : pc[w] = "advance" => conn[w] = queue[head]
    /\ \A w \in Workers : pc[w] \in Serving => conn[w] \in Conns
    /\ \A i \in 0..(len - 1) : queue[Slot(i)] \in Conns

IInv == TypeOK /\ MutexInv /\ RingBounds /\ HeldInv

----------------------------------------------------------------------------
\* What condvar_signal may do to the threads' steps.
LEMMA SignalEffect ==
    ASSUME TypeOK, NEW t \in Threads, NEW S \in SUBSET Threads,
           pc[t] = "signal", SignalAndGoto(t, S, "unlock")
    PROVE  /\ pc' \in [Threads -> AcceptorSteps \union WorkerSteps]
           /\ pc'[t] = "unlock"
           /\ \A u \in Threads \ {t} :
                pc'[u] = pc[u] \/ (u \in S /\ pc[u] = "wait" /\ pc'[u] = "relock")
<1> USE DEF TypeOK, AcceptorSteps, WorkerSteps
<1>1. CASE Waiting(S) = {}
  BY <1>1 DEF SignalAndGoto
<1>2. CASE Waiting(S) # {}
  <2>1. PICK w \in Waiting(S) : pc' = [pc EXCEPT ![t] = "unlock", ![w] = "relock"]
    BY <1>2 DEF SignalAndGoto
  <2>2. w \in Threads /\ w \in S /\ pc[w] = "wait" /\ w # t
    BY <2>1 DEF Waiting
  <2> QED BY <2>1, <2>2
<1> QED BY <1>1, <1>2

\* The pool starts inside the inductive invariant.
LEMMA InitIInv == Init => IInv
<1> SUFFICES ASSUME Init PROVE IInv
  OBVIOUS
<1> USE PoolAssumption DEF Init, Threads, Slots
<1>1. TypeOK
  BY DEF TypeOK, AcceptorSteps, WorkerSteps
<1>2. MutexInv
  BY DEF MutexInv, Critical
<1>3. RingBounds
  BY DEF RingBounds
<1>4. HeldInv
  BY DEF HeldInv, Owning, Serving
<1> QED BY <1>1, <1>2, <1>3, <1>4 DEF IInv

\* No step leaves the types.
LEMMA NextTypeOK == IInv /\ [Next]_vars => TypeOK'
<1> SUFFICES ASSUME IInv, [Next]_vars PROVE TypeOK'
  OBVIOUS
<1> USE PoolAssumption DEF IInv, TypeOK, Threads, Slots, AcceptorSteps, WorkerSteps,
        Goto, Acquire, Release, RingBounds, HeldInv
<1>1. ASSUME NEW c \in Conns, Accept(c) PROVE TypeOK'
  BY <1>1 DEF Accept
<1>2. CASE AcceptorFull
  BY <1>2 DEF AcceptorFull
<1>3. CASE AcceptorRoom
  BY <1>3 DEF AcceptorRoom
<1>4. CASE Put
  BY <1>4 DEF Put, Slot, Owning
<1>5. CASE Grow
  BY <1>5 DEF Grow
<1>6. CASE SignalNotEmpty
  <2>1. SignalAndGoto(acceptor, Workers, "unlock") /\ pc[acceptor] = "signal"
    BY <1>6 DEF SignalNotEmpty
  <2>2. /\ pc' \in [Threads -> AcceptorSteps \union WorkerSteps]
        /\ pc'[acceptor] = "unlock"
        /\ \A u \in Threads \ {acceptor} :
             pc'[u] = pc[u] \/ (u \in Workers /\ pc[u] = "wait" /\ pc'[u] = "relock")
    BY <2>1, SignalEffect
  <2> QED BY <1>6, <2>2 DEF SignalNotEmpty
<1>7. CASE AcceptorUnlock
  BY <1>7 DEF AcceptorUnlock
<1>8. ASSUME NEW t \in Threads, Lock(t) PROVE TypeOK'
  BY <1>8 DEF Lock
<1>81. ASSUME NEW t \in Threads, Relock(t) PROVE TypeOK'
  BY <1>81 DEF Relock
<1>82. ASSUME NEW t \in Threads, SpuriousWakeup(t) PROVE TypeOK'
  BY <1>82 DEF SpuriousWakeup
<1>9. ASSUME NEW w \in Workers, WorkerEmpty(w) \/ WorkerWork(w) PROVE TypeOK'
  <2>1. CASE WorkerEmpty(w)
    BY <2>1 DEF WorkerEmpty
  <2>2. CASE WorkerWork(w)
    BY <2>2 DEF WorkerWork
  <2> QED BY <1>9, <2>1, <2>2
<1>10. ASSUME NEW w \in Workers, Read(w) PROVE TypeOK'
  BY <1>10 DEF Read
<1>11. ASSUME NEW w \in Workers, Advance(w) PROVE TypeOK'
  BY <1>11 DEF Advance
<1>12. ASSUME NEW w \in Workers, SignalNotFull(w) PROVE TypeOK'
  <2>1. SignalAndGoto(w, {acceptor}, "unlock") /\ pc[w] = "signal"
    BY <1>12 DEF SignalNotFull
  <2>2. /\ pc' \in [Threads -> AcceptorSteps \union WorkerSteps]
        /\ pc'[w] = "unlock"
        /\ \A u \in Threads \ {w} :
             pc'[u] = pc[u] \/ (u \in {acceptor} /\ pc[u] = "wait" /\ pc'[u] = "relock")
    BY <2>1, SignalEffect
  <2> QED BY <1>12, <2>2 DEF SignalNotFull
<1>13. ASSUME NEW w \in Workers, WorkerUnlock(w) \/ Alloc(w) \/ Recv(w) PROVE TypeOK'
  BY <1>13 DEF WorkerUnlock, Alloc, Recv
<1>14. ASSUME NEW w \in Workers, Respond(w) PROVE TypeOK'
  BY <1>14 DEF Respond, Serving
<1>15. ASSUME NEW w \in Workers, Close(w) PROVE TypeOK'
  BY <1>15 DEF Close, Serving
<1>16. CASE UNCHANGED vars
  BY <1>16 DEF vars
<1> QED BY <1>1, <1>2, <1>3, <1>4, <1>5, <1>6, <1>7, <1>8, <1>81, <1>82, <1>9, <1>10, <1>11,
           <1>12, <1>13, <1>14, <1>15, <1>16 DEF Next, AcceptorStep, WorkerStep

\* Only the holder of the mutex takes a critical step or gives the mutex up.
LEMMA NextMutexInv == IInv /\ [Next]_vars => MutexInv'
<1> SUFFICES ASSUME IInv, [Next]_vars PROVE MutexInv'
  OBVIOUS
<1> USE PoolAssumption DEF IInv, TypeOK, MutexInv, Critical, Threads,
        AcceptorSteps, WorkerSteps, Goto, Acquire, Release
<1>1. ASSUME NEW c \in Conns, Accept(c) PROVE MutexInv'
  BY <1>1 DEF Accept
<1>2. CASE AcceptorFull
  BY <1>2 DEF AcceptorFull
<1>3. CASE AcceptorRoom
  BY <1>3 DEF AcceptorRoom
<1>4. CASE Put \/ Grow
  BY <1>4 DEF Put, Grow
<1>5. CASE SignalNotEmpty
  <2>1. SignalAndGoto(acceptor, Workers, "unlock") /\ pc[acceptor] = "signal"
    BY <1>5 DEF SignalNotEmpty
  <2>2. /\ pc' \in [Threads -> AcceptorSteps \union WorkerSteps]
        /\ pc'[acceptor] = "unlock"
        /\ \A u \in Threads \ {acceptor} :
             pc'[u] = pc[u] \/ (u \in Workers /\ pc[u] = "wait" /\ pc'[u] = "relock")
    BY <2>1, SignalEffect
  <2> QED BY <1>5, <2>1, <2>2 DEF SignalNotEmpty
<1>6. CASE AcceptorUnlock
  BY <1>6 DEF AcceptorUnlock
<1>7. ASSUME NEW t \in Threads, Lock(t) PROVE MutexInv'
  BY <1>7 DEF Lock
<1>8. ASSUME NEW t \in Threads, Relock(t) PROVE MutexInv'
  BY <1>8 DEF Relock
<1>9. ASSUME NEW t \in Threads, SpuriousWakeup(t) PROVE MutexInv'
  BY <1>9 DEF SpuriousWakeup
<1>10. ASSUME NEW w \in Workers, WorkerEmpty(w) PROVE MutexInv'
  BY <1>10 DEF WorkerEmpty
<1>11. ASSUME NEW w \in Workers, WorkerWork(w) \/ Read(w) \/ Advance(w) PROVE MutexInv'
  BY <1>11 DEF WorkerWork, Read, Advance
<1>12. ASSUME NEW w \in Workers, SignalNotFull(w) PROVE MutexInv'
  <2>1. SignalAndGoto(w, {acceptor}, "unlock") /\ pc[w] = "signal"
    BY <1>12 DEF SignalNotFull
  <2>2. /\ pc' \in [Threads -> AcceptorSteps \union WorkerSteps]
        /\ pc'[w] = "unlock"
        /\ \A u \in Threads \ {w} :
             pc'[u] = pc[u] \/ (u \in {acceptor} /\ pc[u] = "wait" /\ pc'[u] = "relock")
    BY <2>1, SignalEffect
  <2> QED BY <1>12, <2>1, <2>2 DEF SignalNotFull
<1>13. ASSUME NEW w \in Workers, WorkerUnlock(w) PROVE MutexInv'
  BY <1>13 DEF WorkerUnlock
<1>14. ASSUME NEW w \in Workers, Alloc(w) \/ Recv(w) \/ Respond(w) \/ Close(w) PROVE MutexInv'
  BY <1>14 DEF Alloc, Recv, Respond, Close
<1>15. CASE UNCHANGED vars
  BY <1>15 DEF vars
<1> QED BY <1>1, <1>2, <1>3, <1>4, <1>5, <1>6, <1>7, <1>8, <1>9, <1>10, <1>11,
           <1>12, <1>13, <1>14, <1>15 DEF Next, AcceptorStep, WorkerStep

\* The ring does not change under a thread that has tested it and holds the mutex.
LEMMA NextRingBounds == IInv /\ [Next]_vars => RingBounds'
<1> SUFFICES ASSUME IInv, [Next]_vars PROVE RingBounds'
  OBVIOUS
<1> USE PoolAssumption DEF IInv, TypeOK, MutexInv, RingBounds, Critical, Threads, Slots,
        AcceptorSteps, WorkerSteps, Goto, Acquire, Release
<1>1. ASSUME NEW c \in Conns, Accept(c) PROVE RingBounds'
  BY <1>1 DEF Accept
<1>2. CASE AcceptorFull
  BY <1>2 DEF AcceptorFull
<1>3. CASE AcceptorRoom
  BY <1>3 DEF AcceptorRoom
<1>4. CASE Put \/ Grow
  BY <1>4 DEF Put, Grow
<1>5. CASE SignalNotEmpty
  <2>1. SignalAndGoto(acceptor, Workers, "unlock") /\ pc[acceptor] = "signal"
    BY <1>5 DEF SignalNotEmpty
  <2>2. /\ pc' \in [Threads -> AcceptorSteps \union WorkerSteps]
        /\ pc'[acceptor] = "unlock"
        /\ \A u \in Threads \ {acceptor} :
             pc'[u] = pc[u] \/ (u \in Workers /\ pc[u] = "wait" /\ pc'[u] = "relock")
    BY <2>1, SignalEffect
  <2> QED BY <1>5, <2>1, <2>2 DEF SignalNotEmpty
<1>6. CASE AcceptorUnlock
  BY <1>6 DEF AcceptorUnlock
<1>7. ASSUME NEW t \in Threads, Lock(t) PROVE RingBounds'
  BY <1>7 DEF Lock
<1>8. ASSUME NEW t \in Threads, Relock(t) PROVE RingBounds'
  BY <1>8 DEF Relock
<1>9. ASSUME NEW t \in Threads, SpuriousWakeup(t) PROVE RingBounds'
  BY <1>9 DEF SpuriousWakeup
<1>10. ASSUME NEW w \in Workers, WorkerEmpty(w) PROVE RingBounds'
  BY <1>10 DEF WorkerEmpty
<1>11. ASSUME NEW w \in Workers, WorkerWork(w) \/ Read(w) \/ Advance(w) PROVE RingBounds'
  BY <1>11 DEF WorkerWork, Read, Advance
<1>12. ASSUME NEW w \in Workers, SignalNotFull(w) PROVE RingBounds'
  <2>1. SignalAndGoto(w, {acceptor}, "unlock") /\ pc[w] = "signal"
    BY <1>12 DEF SignalNotFull
  <2>2. /\ pc' \in [Threads -> AcceptorSteps \union WorkerSteps]
        /\ pc'[w] = "unlock"
        /\ \A u \in Threads \ {w} :
             pc'[u] = pc[u] \/ (u \in {acceptor} /\ pc[u] = "wait" /\ pc'[u] = "relock")
    BY <2>1, SignalEffect
  <2> QED BY <1>12, <2>1, <2>2 DEF SignalNotFull
<1>13. ASSUME NEW w \in Workers, WorkerUnlock(w) PROVE RingBounds'
  BY <1>13 DEF WorkerUnlock
<1>14. ASSUME NEW w \in Workers, Alloc(w) \/ Recv(w) \/ Respond(w) \/ Close(w) PROVE RingBounds'
  BY <1>14 DEF Alloc, Recv, Respond, Close
<1>15. CASE UNCHANGED vars
  BY <1>15 DEF vars
<1> QED BY <1>1, <1>2, <1>3, <1>4, <1>5, <1>6, <1>7, <1>8, <1>9, <1>10, <1>11,
           <1>12, <1>13, <1>14, <1>15 DEF Next, AcceptorStep, WorkerStep

\* What a thread learned of the ring stays true until its next step.
LEMMA NextHeldInv == IInv /\ [Next]_vars => HeldInv'
<1> SUFFICES ASSUME IInv, [Next]_vars PROVE HeldInv'
  OBVIOUS
<1> USE PoolAssumption DEF IInv, TypeOK, MutexInv, RingBounds, HeldInv, Critical, Threads,
        Slots, AcceptorSteps, WorkerSteps, Goto, Acquire, Release, Owning, Serving
<1>1. ASSUME NEW c \in Conns, Accept(c) PROVE HeldInv'
  BY <1>1 DEF Accept, Slot
<1>2. CASE AcceptorFull
  BY <1>2 DEF AcceptorFull, Slot
<1>3. CASE AcceptorRoom
  BY <1>3 DEF AcceptorRoom, Slot
<1>4. CASE Put
  <2>1. /\ pc[acceptor] = "put" /\ pc' = [pc EXCEPT ![acceptor] = "grow"]
        /\ queue' = [queue EXCEPT ![Slot(len)] = conn[acceptor]]
        /\ len < Cap /\ UNCHANGED <<head, len, mu, conn>>
    BY <1>4 DEF Put
  <2>2. Slot(len) \in Slots /\ \A i \in 0..(len - 1) : Slot(i) \in Slots /\ Slot(i) # Slot(len)
    <3>1. Slot(len) \in Slots
      BY SlotIsSlot DEF Slot
    <3>2. ASSUME NEW i \in 0..(len - 1) PROVE Slot(i) \in Slots /\ Slot(i) # Slot(len)
      <4>1. i \in 0..(Cap - 1) /\ len \in 0..(Cap - 1) /\ head \in 0..(Cap - 1) /\ i # len
        BY <2>1
      <4>2. Slot(i) # Slot(len)
        BY <4>1, SlotInjective DEF Slot
      <4> QED BY <4>1, <4>2, SlotIsSlot DEF Slot
    <3> QED BY <3>1, <3>2
  <2>3. (\A i \in 0..(len - 1) : queue[Slot(i)] \in Conns)'
    BY <2>1, <2>2 DEF Slot
  <2>4. \A w \in Workers : pc[w] # "advance"
    BY <2>1
  <2> QED BY <2>1, <2>2, <2>3, <2>4 DEF Slot
<1>5. CASE Grow
  <2>1. /\ pc[acceptor] = "grow" /\ pc' = [pc EXCEPT ![acceptor] = "signal"]
        /\ len' = len + 1 /\ conn' = [conn EXCEPT ![acceptor] = None]
        /\ UNCHANGED <<queue, head, mu>>
    BY <1>5 DEF Grow
  <2>2. ASSUME NEW i \in 0..(len' - 1) PROVE queue[Slot(i)] \in Conns
    <3>1. i = len \/ i \in 0..(len - 1)
      BY <2>1
    <3> QED BY <2>1, <3>1
  <2>3. (\A i \in 0..(len - 1) : queue[Slot(i)] \in Conns)'
    BY <2>1, <2>2 DEF Slot
  <2> QED BY <2>1, <2>3
<1>6. CASE SignalNotEmpty
  <2>1. SignalAndGoto(acceptor, Workers, "unlock") /\ pc[acceptor] = "signal"
    BY <1>6 DEF SignalNotEmpty, Slot
  <2>2. /\ pc' \in [Threads -> AcceptorSteps \union WorkerSteps]
        /\ pc'[acceptor] = "unlock"
        /\ \A u \in Threads \ {acceptor} :
             pc'[u] = pc[u] \/ (u \in Workers /\ pc[u] = "wait" /\ pc'[u] = "relock")
    BY <2>1, SignalEffect
  <2> QED BY <1>6, <2>1, <2>2 DEF SignalNotEmpty, Slot
<1>7. CASE AcceptorUnlock
  BY <1>7 DEF AcceptorUnlock, Slot
<1>8. ASSUME NEW t \in Threads, Lock(t) PROVE HeldInv'
  BY <1>8 DEF Lock, Slot
<1>9. ASSUME NEW t \in Threads, Relock(t) PROVE HeldInv'
  BY <1>9 DEF Relock, Slot
<1>10. ASSUME NEW t \in Threads, SpuriousWakeup(t) PROVE HeldInv'
  BY <1>10 DEF SpuriousWakeup, Slot
<1>11. ASSUME NEW w \in Workers, WorkerEmpty(w) \/ WorkerWork(w) PROVE HeldInv'
  <2>1. CASE WorkerEmpty(w)
    BY <2>1 DEF WorkerEmpty, Slot
  <2>2. CASE WorkerWork(w)
    BY <2>2 DEF WorkerWork, Slot
  <2> QED BY <1>11, <2>1, <2>2
<1>12. ASSUME NEW w \in Workers, Read(w) PROVE HeldInv'
  BY <1>12 DEF Read, Slot
<1>13. ASSUME NEW w \in Workers, Advance(w) PROVE HeldInv'
  <2>1. /\ pc[w] = "advance" /\ pc' = [pc EXCEPT ![w] = "signal"]
        /\ head' = (head + 1) % Cap /\ len' = len - 1
        /\ UNCHANGED <<queue, mu, conn>>
    BY <1>13 DEF Advance
  <2>2. head = Slot(0) /\ len > 0
    BY <2>1, SlotIsSlot DEF Slot
  <2>3. queue[head] \in Conns
    BY <2>2
  <2>4. ASSUME NEW i \in 0..(len' - 1) PROVE queue[(head' + i) % Cap] = queue[Slot(i + 1)]
    <3>1. i \in 0..(Cap - 1) /\ head \in 0..(Cap - 1) /\ Cap \in Nat \ {0}
      BY <2>1
    <3>2. (((head + 1) % Cap) + i) % Cap = (head + (i + 1)) % Cap
      BY ONLY <3>1, SlotShift
    <3> QED BY <2>1, <3>2 DEF Slot
  <2>5. (\A i \in 0..(len - 1) : queue[Slot(i)] \in Conns)'
    <3> SUFFICES ASSUME NEW i \in 0..(len' - 1)
                 PROVE  queue'[(head' + i) % Cap] \in Conns
      BY DEF Slot
    <3>1. i + 1 \in 0..(len - 1)
      BY <2>1
    <3>2. queue[Slot(i + 1)] \in Conns
      BY <3>1
    <3> QED BY <2>1, <2>4, <3>2
  <2>6. pc[acceptor] # "grow"
    BY <2>1
  <2> QED BY <2>1, <2>3, <2>5, <2>6
<1>14. ASSUME NEW w \in Workers, SignalNotFull(w) PROVE HeldInv'
  <2>1. SignalAndGoto(w, {acceptor}, "unlock") /\ pc[w] = "signal"
    BY <1>14 DEF SignalNotFull, Slot
  <2>2. /\ pc' \in [Threads -> AcceptorSteps \union WorkerSteps]
        /\ pc'[w] = "unlock"
        /\ \A u \in Threads \ {w} :
             pc'[u] = pc[u] \/ (u \in {acceptor} /\ pc[u] = "wait" /\ pc'[u] = "relock")
    BY <2>1, SignalEffect
  <2> QED BY <1>14, <2>1, <2>2 DEF SignalNotFull, Slot
<1>15. ASSUME NEW w \in Workers, WorkerUnlock(w) \/ Alloc(w) \/ Recv(w) PROVE HeldInv'
  <2>1. CASE WorkerUnlock(w)
    BY <2>1 DEF WorkerUnlock, Slot
  <2>2. CASE Alloc(w)
    BY <2>2 DEF Alloc, Slot
  <2>3. CASE Recv(w)
    BY <2>3 DEF Recv, Slot
  <2> QED BY <1>15, <2>1, <2>2, <2>3
<1>16. ASSUME NEW w \in Workers, Respond(w) \/ Close(w) PROVE HeldInv'
  <2>1. CASE Respond(w)
    BY <2>1 DEF Respond, Slot
  <2>2. CASE Close(w)
    BY <2>2 DEF Close, Slot
  <2> QED BY <1>16, <2>1, <2>2
<1>17. CASE UNCHANGED vars
  BY <1>17 DEF vars, Slot
<1> QED BY <1>1, <1>2, <1>3, <1>4, <1>5, <1>6, <1>7, <1>8, <1>9, <1>10, <1>11, <1>12,
           <1>13, <1>14, <1>15, <1>16, <1>17 DEF Next, AcceptorStep, WorkerStep

\* The strengthened invariant holds throughout.
LEMMA InductiveInvariant == Spec => []IInv
<1>1. IInv /\ [Next]_vars => IInv'
  BY NextTypeOK, NextMutexInv, NextRingBounds, NextHeldInv DEF IInv
<1> QED BY InitIInv, <1>1, PTL DEF Spec

----------------------------------------------------------------------------
\* The server's variables keep their types: head stays a slot of the ring and
\* len never leaves 0..Cap, however the threads interleave.
THEOREM TypeCorrect == Spec => []TypeOK
<1>1. IInv => TypeOK
  BY DEF IInv
<1> QED BY InductiveInvariant, <1>1, PTL

\* Nothing is read from an empty ring and nothing is written to a full one: len is
\* not 0 where a worker reads a slot or moves the head behind it, and below the
\* capacity where the acceptor fills a slot or counts it.
THEOREM RingNeverOverruns == Spec => []RingBounds
<1>1. IInv => RingBounds
  BY DEF IInv
<1> QED BY InductiveInvariant, <1>1, PTL

----------------------------------------------------------------------------
(* The acceptor is woken *)

\* No step strands the acceptor.
LEMMA NextAcceptorAwake == IInv /\ AcceptorAwake /\ [Next]_vars => AcceptorAwake'
<1> SUFFICES ASSUME IInv, AcceptorAwake, [Next]_vars, pc'[acceptor] = "wait"
             PROVE  (len = Cap \/ \E w \in Workers : pc[w] = "signal")'
  BY DEF AcceptorAwake
<1> USE PoolAssumption DEF IInv, TypeOK, MutexInv, Critical, Threads,
        AcceptorSteps, WorkerSteps, Goto, Acquire, Release, AcceptorAwake
<1>1. ASSUME NEW c \in Conns, Accept(c) PROVE FALSE
  BY <1>1 DEF Accept
<1>2. CASE AcceptorFull
  BY <1>2 DEF AcceptorFull
<1>3. CASE AcceptorRoom \/ Put \/ Grow \/ AcceptorUnlock
  BY <1>3 DEF AcceptorRoom, Put, Grow, AcceptorUnlock
<1>4. CASE SignalNotEmpty
  BY <1>4, SignalEffect DEF SignalNotEmpty
<1>5. ASSUME NEW t \in Threads, Lock(t) \/ Relock(t) \/ SpuriousWakeup(t)
      PROVE  (len = Cap \/ \E w \in Workers : pc[w] = "signal")'
  BY <1>5 DEF Lock, Relock, SpuriousWakeup
<1>6. ASSUME NEW w \in Workers, WorkerEmpty(w) \/ WorkerWork(w) \/ Read(w)
      PROVE  (len = Cap \/ \E v \in Workers : pc[v] = "signal")'
  BY <1>6 DEF WorkerEmpty, WorkerWork, Read
<1>7. ASSUME NEW w \in Workers, Advance(w)
      PROVE  (len = Cap \/ \E v \in Workers : pc[v] = "signal")'
  BY <1>7 DEF Advance
<1>8. ASSUME NEW w \in Workers, SignalNotFull(w) PROVE FALSE
  <2>1. pc[acceptor] = "wait" => pc'[acceptor] = "relock"
    BY <1>8 DEF SignalNotFull, SignalAndGoto, Waiting
  <2>2. pc'[acceptor] = pc[acceptor] \/ pc'[acceptor] = "relock"
    BY <1>8 DEF SignalNotFull, SignalAndGoto, Waiting
  <2> QED BY <2>1, <2>2
<1>9. ASSUME NEW w \in Workers, WorkerUnlock(w) \/ Alloc(w) \/ Recv(w) \/ Respond(w) \/ Close(w)
      PROVE  (len = Cap \/ \E v \in Workers : pc[v] = "signal")'
  BY <1>9 DEF WorkerUnlock, Alloc, Recv, Respond, Close
<1>10. CASE UNCHANGED vars
  BY <1>10 DEF vars
<1> QED BY <1>1, <1>2, <1>3, <1>4, <1>5, <1>6, <1>7, <1>8, <1>9, <1>10
        DEF Next, AcceptorStep, WorkerStep

\* The acceptor never sleeps beside a ring with room in it, unless the worker
\* that made the room still has to signal not_full.
THEOREM AcceptorIsWoken == Spec => []AcceptorAwake
<1>1. Init => AcceptorAwake
  BY PoolAssumption DEF Init, AcceptorAwake, Threads
<1> QED BY <1>1, InductiveInvariant, NextAcceptorAwake, PTL DEF Spec

----------------------------------------------------------------------------
(* Every accepted connection is in one place *)

\* A step that moves no connection: the ring is untouched and every thread
\* owns what it owned.
LEMMA NothingMoves ==
    ASSUME OnePlace, UNCHANGED <<queue, head, len, accepted, closes>>,
           \A t \in Threads, c \in Conns : Owns(t, c)' <=> Owns(t, c)
    PROVE  OnePlace'
BY DEF OnePlace, Waits, Slot

\* No step puts a connection in two places.
LEMMA NextOnePlace == IInv /\ OnePlace /\ [Next]_vars => OnePlace'
<1> SUFFICES ASSUME IInv, OnePlace, [Next]_vars PROVE OnePlace'
  OBVIOUS
<1> USE PoolAssumption DEF IInv, TypeOK, MutexInv, RingBounds, HeldInv, Critical, Threads,
        Slots, AcceptorSteps, WorkerSteps, Goto, Acquire, Release, Owning, Serving
<1>1. ASSUME NEW c \in Conns, Accept(c) PROVE OnePlace'
  <2>1. /\ c \notin accepted /\ accepted' = accepted \union {c}
        /\ pc' = [pc EXCEPT ![acceptor] = "lock"] /\ pc[acceptor] = "accept"
        /\ conn' = [conn EXCEPT ![acceptor] = c]
        /\ UNCHANGED <<queue, head, len, closes>>
    BY <1>1 DEF Accept
  <2>2. ~Waits(c) /\ closes[c] = 0 /\ \A t \in Threads : ~Owns(t, c)
    BY <2>1 DEF OnePlace
  <2>3. \A d \in Conns : Waits(d)' <=> Waits(d)
    BY <2>1 DEF Waits, Slot
  <2>4. \A t \in Threads, d \in Conns : Owns(t, d)' <=> Owns(t, d) \/ (t = acceptor /\ d = c)
    BY <2>1 DEF Owns
  <2>5. \A i, j \in 0..(len' - 1) : queue'[Slot(i)'] = queue'[Slot(j)'] => i = j
    BY <2>1 DEF OnePlace, Slot
  <2> QED BY <2>1, <2>2, <2>3, <2>4, <2>5 DEF OnePlace
<1>2. CASE AcceptorFull \/ AcceptorRoom \/ AcceptorUnlock
  <2>1. \A t \in Threads, c \in Conns : Owns(t, c)' <=> Owns(t, c)
    <3>1. CASE AcceptorFull
      BY <3>1 DEF AcceptorFull, Owns
    <3>2. CASE AcceptorRoom
      BY <3>2 DEF AcceptorRoom, Owns
    <3>3. CASE AcceptorUnlock
      BY <3>3 DEF AcceptorUnlock, Owns
    <3> QED BY <1>2, <3>1, <3>2, <3>3
  <2> QED BY <1>2, <2>1, NothingMoves DEF AcceptorFull, AcceptorRoom, AcceptorUnlock
<1>3. CASE Put
  <2>1. /\ pc[acceptor] = "put" /\ pc' = [pc EXCEPT ![acceptor] = "grow"]
        /\ queue' = [queue EXCEPT ![Slot(len)] = conn[acceptor]]
        /\ len < Cap /\ UNCHANGED <<head, len, mu, conn, accepted, closes>>
    BY <1>3 DEF Put
  <2>2. ASSUME NEW i \in 0..(len - 1) PROVE queue'[Slot(i)] = queue[Slot(i)]
    <3>1. i \in 0..(Cap - 1) /\ len \in 0..(Cap - 1) /\ head \in 0..(Cap - 1) /\ i # len
      BY <2>1
    <3>2. Slot(i) # Slot(len)
      BY <3>1, SlotInjective DEF Slot
    <3> QED BY <2>1, <3>1, <3>2, SlotIsSlot DEF Slot
  <2>3. \A t \in Threads, c \in Conns : Owns(t, c)' <=> Owns(t, c)
    BY <2>1 DEF Owns
  <2>4. \A i \in 0..(len - 1) : Slot(i)' = Slot(i)
    BY <2>1 DEF Slot
  <2>5. \A c \in Conns : Waits(c)' <=> Waits(c)
    BY <2>1, <2>2, <2>4 DEF Waits
  <2> QED BY <2>1, <2>2, <2>3, <2>4, <2>5 DEF OnePlace
<1>4. CASE Grow
  <2>1. /\ pc[acceptor] = "grow" /\ pc' = [pc EXCEPT ![acceptor] = "signal"]
        /\ len' = len + 1 /\ conn' = [conn EXCEPT ![acceptor] = None]
        /\ UNCHANGED <<queue, head, mu, accepted, closes>>
    BY <1>4 DEF Grow
  <2> DEFINE a == conn[acceptor]
  <2>2. a \in Conns /\ Owns(acceptor, a) /\ queue[Slot(len)] = a
    BY <2>1 DEF Owns
  <2>3. ~Waits(a) /\ closes[a] = 0 /\ \A t \in Workers : ~Owns(t, a)
    BY <2>2 DEF OnePlace
  <2>4. \A i \in 0..len : Slot(i)' = Slot(i)
    BY <2>1 DEF Slot
  <2>5. \A c \in Conns : Waits(c)' <=> Waits(c) \/ c = a
    BY <2>1, <2>2, <2>4 DEF Waits
  <2>6. \A t \in Threads, c \in Conns : Owns(t, c)' <=> Owns(t, c) /\ t # acceptor
    BY <2>1 DEF Owns
  <2>7. \A c \in Conns : Owns(acceptor, c) => c = a
    BY DEF Owns
  <2>8. ASSUME NEW i \in 0..(len' - 1), NEW j \in 0..(len' - 1),
               queue[Slot(i)] = queue[Slot(j)]
        PROVE  i = j
    <3>1. (i = len \/ i \in 0..(len - 1)) /\ (j = len \/ j \in 0..(len - 1))
      BY <2>1
    <3> QED BY <2>2, <2>3, <2>8, <3>1 DEF Waits, OnePlace
  <2>9. \A i, j \in 0..(len' - 1) : queue'[Slot(i)'] = queue'[Slot(j)'] => i = j
    BY <2>1, <2>4, <2>8
  <2> QED BY <2>1, <2>2, <2>3, <2>5, <2>6, <2>7, <2>9 DEF OnePlace
<1>5. CASE SignalNotEmpty
  <2>1. SignalAndGoto(acceptor, Workers, "unlock") /\ pc[acceptor] = "signal"
    BY <1>5 DEF SignalNotEmpty
  <2>2. /\ pc' \in [Threads -> AcceptorSteps \union WorkerSteps]
        /\ pc'[acceptor] = "unlock"
        /\ \A u \in Threads \ {acceptor} :
             pc'[u] = pc[u] \/ (u \in Workers /\ pc[u] = "wait" /\ pc'[u] = "relock")
    BY <2>1, SignalEffect
  <2>3. \A t \in Threads, c \in Conns : Owns(t, c)' <=> Owns(t, c)
    BY <1>5, <2>1, <2>2 DEF SignalNotEmpty, Owns
  <2> QED BY <1>5, <2>3, NothingMoves DEF SignalNotEmpty
<1>6. ASSUME NEW u \in Threads, Lock(u) \/ Relock(u) \/ SpuriousWakeup(u) PROVE OnePlace'
  <2>1. \A t \in Threads, c \in Conns : Owns(t, c)' <=> Owns(t, c)
    <3>1. CASE Lock(u)
      BY <3>1 DEF Lock, Owns
    <3>2. CASE Relock(u)
      BY <3>2 DEF Relock, Owns
    <3>3. CASE SpuriousWakeup(u)
      BY <3>3 DEF SpuriousWakeup, Owns
    <3> QED BY <1>6, <3>1, <3>2, <3>3
  <2> QED BY <1>6, <2>1, NothingMoves DEF Lock, Relock, SpuriousWakeup
<1>7. ASSUME NEW w \in Workers, WorkerEmpty(w) \/ WorkerWork(w) \/ Read(w) PROVE OnePlace'
  <2>1. \A t \in Threads, c \in Conns : Owns(t, c)' <=> Owns(t, c)
    BY <1>7 DEF WorkerEmpty, WorkerWork, Read, Owns
  <2> QED BY <1>7, <2>1, NothingMoves DEF WorkerEmpty, WorkerWork, Read
<1>8. ASSUME NEW w \in Workers, Advance(w) PROVE OnePlace'
  <2>1. /\ pc[w] = "advance" /\ pc' = [pc EXCEPT ![w] = "signal"]
        /\ head' = (head + 1) % Cap /\ len' = len - 1 /\ len > 0
        /\ conn[w] = queue[head]
        /\ UNCHANGED <<queue, mu, conn, accepted, closes>>
    BY <1>8 DEF Advance
  <2> DEFINE a == conn[w]
  <2>2. Slot(0) = head /\ queue[Slot(0)] = a
    BY <2>1, SlotIsSlot DEF Slot
  <2>3. a \in Conns /\ Waits(a)
    BY <2>1, <2>2 DEF Waits
  <2>4. ASSUME NEW i \in 0..(len' - 1) PROVE Slot(i)' = Slot(i + 1) /\ i + 1 \in 0..(len - 1)
    <3>1. i \in 0..(Cap - 1) /\ i + 1 \in 0..(len - 1)
      BY <2>1
    <3> QED BY <2>1, <3>1, SlotShift DEF Slot
  <2>5. closes[a] = 0 /\ \A t \in Threads : ~Owns(t, a)
    BY <2>3 DEF OnePlace
  <2>6. \A t \in Threads, c \in Conns : Owns(t, c)' <=> Owns(t, c) \/ (t = w /\ c = a)
    BY <2>1 DEF Owns
  <2>7. ASSUME NEW c \in Conns PROVE Waits(c)' <=> Waits(c) /\ c # a
    <3>1. ASSUME Waits(c)' PROVE Waits(c) /\ c # a
      <4>1. PICK i \in 0..(len' - 1) : queue[Slot(i)'] = c
        BY <2>1, <3>1 DEF Waits
      <4>2. queue[Slot(i + 1)] = c /\ i + 1 \in 0..(len - 1) /\ i + 1 # 0 /\ 0 \in 0..(len - 1)
        BY <2>1, <2>4, <4>1
      <4> QED BY <2>2, <4>2 DEF Waits, OnePlace
    <3>2. ASSUME Waits(c), c # a PROVE Waits(c)'
      <4>1. PICK i \in 0..(len - 1) : queue[Slot(i)] = c
        BY <3>2 DEF Waits
      <4>2. i - 1 \in 0..(len' - 1) /\ (i - 1) + 1 = i
        BY <2>1, <2>2, <3>2, <4>1
      <4>3. Slot(i - 1)' = Slot(i)
        BY <2>4, <4>2
      <4> QED BY <2>1, <4>1, <4>2, <4>3 DEF Waits
    <3> QED BY <3>1, <3>2
  <2>8. ASSUME NEW i \in 0..(len' - 1), NEW j \in 0..(len' - 1),
               queue'[Slot(i)'] = queue'[Slot(j)']
        PROVE  i = j
    <3>1. queue[Slot(i + 1)] = queue[Slot(j + 1)] /\ i + 1 \in 0..(len - 1) /\ j + 1 \in 0..(len - 1)
      BY <2>1, <2>4, <2>8
    <3>2. i + 1 = j + 1
      BY <3>1 DEF OnePlace
    <3> QED BY <3>2
  <2>9. \A i, j \in 0..(len' - 1) : queue'[Slot(i)'] = queue'[Slot(j)'] => i = j
    BY <2>8
  <2>10. ASSUME NEW c \in Conns
         PROVE  /\ c \in accepted' <=>
                     (\E t \in Threads : Owns(t, c)') \/ Waits(c)' \/ closes'[c] = 1
                /\ \A t, u \in Threads : Owns(t, c)' /\ Owns(u, c)' => t = u
                /\ (\E t \in Threads : Owns(t, c)') => ~Waits(c)' /\ closes'[c] = 0
                /\ Waits(c)' => closes'[c] = 0
                /\ closes'[c] \in {0, 1}
    <3>1. CASE c = a
      <4>1. ~Waits(c)' /\ \A t \in Threads : Owns(t, c)' <=> t = w
        BY <3>1, <2>5, <2>6, <2>7
      <4> QED BY <3>1, <4>1, <2>1, <2>3, <2>5 DEF OnePlace
    <3>2. CASE c # a
      <4>1. (Waits(c)' <=> Waits(c)) /\ \A t \in Threads : Owns(t, c)' <=> Owns(t, c)
        BY <3>2, <2>6, <2>7
      <4> QED BY <4>1, <2>1 DEF OnePlace
    <3> QED BY <3>1, <3>2
  <2> QED BY <2>9, <2>10 DEF OnePlace
<1>9. ASSUME NEW w \in Workers, SignalNotFull(w) PROVE OnePlace'
  <2>1. SignalAndGoto(w, {acceptor}, "unlock") /\ pc[w] = "signal"
    BY <1>9 DEF SignalNotFull
  <2>2. /\ pc' \in [Threads -> AcceptorSteps \union WorkerSteps]
        /\ pc'[w] = "unlock"
        /\ \A u \in Threads \ {w} :
             pc'[u] = pc[u] \/ (u \in {acceptor} /\ pc[u] = "wait" /\ pc'[u] = "relock")
    BY <2>1, SignalEffect
  <2>3. \A t \in Threads, c \in Conns : Owns(t, c)' <=> Owns(t, c)
    BY <1>9, <2>1, <2>2 DEF SignalNotFull, Owns
  <2> QED BY <1>9, <2>3, NothingMoves DEF SignalNotFull
<1>10. ASSUME NEW w \in Workers, WorkerUnlock(w) \/ Alloc(w) \/ Recv(w) \/ Respond(w)
       PROVE  OnePlace'
  <2>1. \A t \in Threads, c \in Conns : Owns(t, c)' <=> Owns(t, c)
    <3>1. CASE WorkerUnlock(w)
      BY <3>1 DEF WorkerUnlock, Owns
    <3>2. CASE Alloc(w)
      BY <3>2 DEF Alloc, Owns
    <3>3. CASE Recv(w)
      BY <3>3 DEF Recv, Owns
    <3>4. CASE Respond(w)
      BY <3>4 DEF Respond, Owns
    <3> QED BY <1>10, <3>1, <3>2, <3>3, <3>4
  <2> QED BY <1>10, <2>1, NothingMoves DEF WorkerUnlock, Alloc, Recv, Respond
<1>11. ASSUME NEW w \in Workers, Close(w) PROVE OnePlace'
  <2>1. /\ pc[w] = "close" /\ pc' = [pc EXCEPT ![w] = "lock"]
        /\ closes' = [closes EXCEPT ![conn[w]] = @ + 1]
        /\ conn' = [conn EXCEPT ![w] = None]
        /\ UNCHANGED <<queue, head, len, accepted>>
    BY <1>11 DEF Close
  <2> DEFINE a == conn[w]
  <2>2. a \in Conns /\ Owns(w, a)
    BY <2>1 DEF Owns
  <2>3. ~Waits(a) /\ closes[a] = 0 /\ closes'[a] = 1 /\ \A t \in Threads \ {w} : ~Owns(t, a)
    BY <2>1, <2>2 DEF OnePlace
  <2>4. \A c \in Conns : Waits(c)' <=> Waits(c)
    BY <2>1 DEF Waits, Slot
  <2>5. \A t \in Threads, c \in Conns : Owns(t, c)' <=> Owns(t, c) /\ t # w
    BY <2>1 DEF Owns
  <2>6. \A c \in Conns : Owns(w, c) => c = a
    BY DEF Owns
  <2>7. \A c \in Conns \ {a} : closes'[c] = closes[c]
    BY <2>1
  <2>8. \A i, j \in 0..(len' - 1) : queue'[Slot(i)'] = queue'[Slot(j)'] => i = j
    BY <2>1 DEF OnePlace, Slot
  <2> QED BY <2>1, <2>2, <2>3, <2>4, <2>5, <2>6, <2>7, <2>8 DEF OnePlace
<1>12. CASE UNCHANGED vars
  BY <1>12 DEF vars, OnePlace, Waits, Slot, Owns
<1> QED BY <1>1, <1>2, <1>3, <1>4, <1>5, <1>6, <1>7, <1>8, <1>9, <1>10, <1>11, <1>12
        DEF Next, AcceptorStep, WorkerStep

\* No connection is lost, served by two workers or closed twice.
THEOREM ConnectionsConserved == Spec => []OnePlace
<1>1. Init => OnePlace
  BY PoolAssumption DEF Init, OnePlace, Owns, Waits, Threads, Owning, Serving
<1> QED BY <1>1, InductiveInvariant, NextOnePlace, PTL DEF Spec

\* A response is only ever written to a connection that has not been closed.
THEOREM NoUseAfterClose == Spec => UseBeforeClose
<1>1. IInv /\ OnePlace /\ [Next]_vars =>
        [\A c \in Conns : c \in answered' \ answered => closes[c] = 0]_vars
  <2> SUFFICES ASSUME IInv, OnePlace, Next, NEW c \in Conns, c \in answered' \ answered
               PROVE  closes[c] = 0
    OBVIOUS
  <2>1. PICK w \in Workers : Respond(w)
    BY DEF Next, AcceptorStep, WorkerStep, Accept, Lock, Relock, SpuriousWakeup,
           AcceptorFull, AcceptorRoom, Put, Grow, SignalNotEmpty, AcceptorUnlock,
           WorkerEmpty, WorkerWork, Read, Advance, SignalNotFull, WorkerUnlock,
           Alloc, Recv, Close
  <2>2. Owns(w, c)
    BY <2>1, PoolAssumption DEF Respond, Goto, Owns, Serving
  <2> QED BY <2>2 DEF OnePlace, Threads
<1> QED BY <1>1, InductiveInvariant, ConnectionsConserved, PTL DEF Spec, UseBeforeClose

----------------------------------------------------------------------------
(* No wakeup is lost on not_empty *)

\* The signals the acceptor still owes.
Owed == IF pc[acceptor] = "signal" THEN 1 ELSE 0

\* The threads on their way to a connection are finitely many.
LEMMA OnTheWayFinite == IsFiniteSet(OnTheWay) /\ Cardinality(OnTheWay) \in Nat
<1>1. OnTheWay \in SUBSET Workers /\ IsFiniteSet(Workers)
  BY PoolAssumption DEF OnTheWay
<1> QED BY <1>1, FS_Subset, FS_CardinalityType

\* One worker more, or one less, on the way.
LEMMA OnTheWayMoves ==
    ASSUME NEW w \in Workers
    PROVE  /\ w \notin OnTheWay /\ OnTheWay' = OnTheWay \union {w} =>
                Cardinality(OnTheWay') = Cardinality(OnTheWay) + 1
           /\ w \in OnTheWay /\ OnTheWay' = OnTheWay \ {w} =>
                Cardinality(OnTheWay') = Cardinality(OnTheWay) - 1
BY OnTheWayFinite, FS_AddElement, FS_RemoveElement

\* No step loses a wakeup.
LEMMA NextNoLostWakeup == IInv /\ NoLostWakeup /\ [Next]_vars => NoLostWakeup'
<1> SUFFICES ASSUME IInv, NoLostWakeup, [Next]_vars, Waiting(Workers)' # {}
             PROVE  len' <= Cardinality(OnTheWay') + Owed'
  BY DEF NoLostWakeup, Owed
<1> USE PoolAssumption, OnTheWayFinite DEF IInv, TypeOK, MutexInv, Critical, Threads,
        AcceptorSteps, WorkerSteps, Goto, Acquire, Release
<1>0. Waiting(Workers) # {} => len <= Cardinality(OnTheWay) + Owed
  BY DEF NoLostWakeup, Owed
<1>00. ASSUME len' = len, OnTheWay' = OnTheWay, Waiting(Workers)' = Waiting(Workers),
              Owed' = Owed
       PROVE  len' <= Cardinality(OnTheWay') + Owed'
  BY <1>0, <1>00
<1>1. ASSUME NEW c \in Conns, Accept(c) PROVE len' <= Cardinality(OnTheWay') + Owed'
  BY <1>00, <1>1 DEF Accept, OnTheWay, Waiting, Owed
<1>2. CASE AcceptorFull \/ AcceptorRoom \/ Put \/ AcceptorUnlock
  BY <1>00, <1>2 DEF AcceptorFull, AcceptorRoom, Put, AcceptorUnlock, OnTheWay, Waiting, Owed
<1>3. CASE Grow
  <2>1. len' = len + 1 /\ Owed = 0 /\ Owed' = 1
    BY <1>3 DEF Grow, Owed
  <2>2. OnTheWay' = OnTheWay /\ Waiting(Workers)' = Waiting(Workers)
    BY <1>3 DEF Grow, OnTheWay, Waiting
  <2> QED BY <1>0, <2>1, <2>2
<1>4. CASE SignalNotEmpty
  <2>1. /\ pc[acceptor] = "signal" /\ SignalAndGoto(acceptor, Workers, "unlock")
        /\ len' = len
    BY <1>4 DEF SignalNotEmpty
  <2>2. CASE Waiting(Workers) = {}
    <3>1. Waiting(Workers)' = {}
      BY <2>1, <2>2 DEF SignalAndGoto, Waiting
    <3> QED BY <3>1
  <2>3. CASE Waiting(Workers) # {}
    <3>1. PICK w \in Waiting(Workers) : pc' = [pc EXCEPT ![acceptor] = "unlock", ![w] = "relock"]
      BY <2>1, <2>3 DEF SignalAndGoto
    <3>2. w \in Workers /\ pc[w] = "wait"
      BY <3>1 DEF Waiting
    <3>3. w \notin OnTheWay /\ OnTheWay' = OnTheWay \union {w} /\ Owed = 1 /\ Owed' = 0
      BY <2>1, <3>1, <3>2 DEF OnTheWay, Owed
    <3>4. Cardinality(OnTheWay') = Cardinality(OnTheWay) + 1
      BY <3>2, <3>3, OnTheWayMoves
    <3> QED BY <1>0, <2>1, <2>3, <3>3, <3>4
  <2> QED BY <2>2, <2>3
<1>5. ASSUME NEW t \in Threads, Lock(t) \/ Relock(t)
      PROVE  len' <= Cardinality(OnTheWay') + Owed'
  BY <1>00, <1>5 DEF Lock, Relock, OnTheWay, Waiting, Owed
<1>6. CASE SpuriousWakeup(acceptor)
  BY <1>00, <1>6 DEF SpuriousWakeup, OnTheWay, Waiting, Owed
<1>7. ASSUME NEW w \in Workers, SpuriousWakeup(w)
      PROVE  len' <= Cardinality(OnTheWay') + Owed'
  <2>1. w \notin OnTheWay /\ OnTheWay' = OnTheWay \union {w} /\ len' = len
    BY <1>7 DEF SpuriousWakeup, OnTheWay
  <2>2. Waiting(Workers) # {} /\ Owed' = Owed
    BY <1>7 DEF SpuriousWakeup, Waiting, Owed
  <2>3. Cardinality(OnTheWay') = Cardinality(OnTheWay) + 1
    BY <2>1, OnTheWayMoves
  <2> QED BY <1>0, <2>1, <2>2, <2>3 DEF Owed
<1>8. ASSUME NEW w \in Workers, WorkerEmpty(w) PROVE len' <= Cardinality(OnTheWay') + Owed'
  <2>1. len' = 0 /\ OnTheWay' = OnTheWay \ {w} /\ w \in OnTheWay
    BY <1>8 DEF WorkerEmpty, OnTheWay
  <2>2. IsFiniteSet(OnTheWay') /\ Cardinality(OnTheWay') \in Nat
    BY <2>1, FS_RemoveElement, FS_CardinalityType
  <2> QED BY <2>1, <2>2 DEF Owed
<1>9. ASSUME NEW w \in Workers, WorkerWork(w) \/ Read(w)
      PROVE  len' <= Cardinality(OnTheWay') + Owed'
  BY <1>00, <1>9 DEF WorkerWork, Read, OnTheWay, Waiting, Owed
<1>10. ASSUME NEW w \in Workers, Advance(w) PROVE len' <= Cardinality(OnTheWay') + Owed'
  <2>1. len' = len - 1 /\ w \in OnTheWay /\ OnTheWay' = OnTheWay \ {w}
    BY <1>10 DEF Advance, OnTheWay
  <2>2. Waiting(Workers)' = Waiting(Workers) /\ Owed' = Owed
    BY <1>10 DEF Advance, Waiting, Owed
  <2>3. Cardinality(OnTheWay') = Cardinality(OnTheWay) - 1
    BY <2>1, OnTheWayMoves
  <2> QED BY <1>0, <2>1, <2>2, <2>3 DEF Owed
<1>11. ASSUME NEW w \in Workers, SignalNotFull(w) PROVE len' <= Cardinality(OnTheWay') + Owed'
  <2>1. SignalAndGoto(w, {acceptor}, "unlock") /\ pc[w] = "signal" /\ len' = len
    BY <1>11 DEF SignalNotFull
  <2>2. /\ pc' \in [Threads -> AcceptorSteps \union WorkerSteps]
        /\ pc'[w] = "unlock"
        /\ \A u \in Threads \ {w} :
             pc'[u] = pc[u] \/ (u \in {acceptor} /\ pc[u] = "wait" /\ pc'[u] = "relock")
    BY <2>1, SignalEffect
  <2>3. OnTheWay' = OnTheWay /\ Waiting(Workers)' = Waiting(Workers)
    BY <2>1, <2>2 DEF OnTheWay, Waiting
  <2>4. Owed' = Owed
    BY <2>1, <2>2 DEF Owed
  <2> QED BY <1>00, <2>1, <2>3, <2>4
<1>12. ASSUME NEW w \in Workers, WorkerUnlock(w) \/ Alloc(w) \/ Recv(w) \/ Respond(w)
       PROVE  len' <= Cardinality(OnTheWay') + Owed'
  BY <1>00, <1>12 DEF WorkerUnlock, Alloc, Recv, Respond, OnTheWay, Waiting, Owed
<1>13. ASSUME NEW w \in Workers, Close(w) PROVE len' <= Cardinality(OnTheWay') + Owed'
  <2>1. w \notin OnTheWay /\ OnTheWay' = OnTheWay \union {w} /\ len' = len
    BY <1>13 DEF Close, OnTheWay
  <2>2. Waiting(Workers)' = Waiting(Workers) /\ Owed' = Owed
    BY <1>13 DEF Close, Waiting, Owed
  <2>3. Cardinality(OnTheWay') = Cardinality(OnTheWay) + 1
    BY <2>1, OnTheWayMoves
  <2> QED BY <1>0, <2>1, <2>2, <2>3 DEF Owed
<1>14. CASE UNCHANGED vars
  BY <1>00, <1>14 DEF vars, OnTheWay, Waiting, Owed
<1> QED BY <1>1, <1>2, <1>3, <1>4, <1>5, <1>6, <1>7, <1>8, <1>9, <1>10, <1>11, <1>12,
           <1>13, <1>14 DEF Next, AcceptorStep, WorkerStep, Threads

\* No worker sleeps through a connection: each waiting connection has a worker
\* on the way, or the acceptor is about to signal.
THEOREM WakeupsAreNotLost == Spec => []NoLostWakeup
<1>1. Init => NoLostWakeup
  BY PoolAssumption, OnTheWayFinite DEF Init, NoLostWakeup, Waiting, Threads
<1> QED BY <1>1, InductiveInvariant, NextNoLostWakeup, PTL DEF Spec

----------------------------------------------------------------------------
(* The pool implements ConnQueue *)

\* The waiting line is a sequence of connections; its elements are the slots
\* from head on.
LEMMA LineIsSeq ==
    ASSUME IInv
    PROVE  /\ Line \in Seq(Conns)
           /\ Len(Line) = len
           /\ \A i \in 1..len : Line[i] = queue[Slot(i - 1)]
<1>1. len \in Nat
  BY PoolAssumption DEF IInv, TypeOK
<1>2. \A i \in 1..len : queue[Slot(i - 1)] \in Conns
  <2> SUFFICES ASSUME NEW i \in 1..len PROVE queue[Slot(i - 1)] \in Conns
    OBVIOUS
  <2>1. i - 1 \in 0..(len - 1)
    BY <1>1
  <2> QED BY <2>1 DEF IInv, HeldInv
<1> QED BY <1>1, <1>2 DEF Line

\* A step of the threads that moves no connection is no step of the queue.
LEMMA MapStutter ==
    ASSUME IInv, IInv', UNCHANGED <<head, len, accepted, closes>>,
           \A i \in 0..(len - 1) : queue'[Slot(i)] = queue[Slot(i)],
           \A t \in Threads, c \in Conns : Owns(t, c)' <=> Owns(t, c)
    PROVE  UNCHANGED <<Conns \ accepted, Arriving, Line, InService, Done>>
<1>1. Arriving' = Arriving /\ InService' = InService /\ Done' = Done
  BY DEF Arriving, InService, Done, Threads
<1>2. Line' = Line
  <2>1. len \in Nat
    BY PoolAssumption DEF IInv, TypeOK
  <2>2. \A i \in 1..len : queue'[Slot(i - 1)] = queue[Slot(i - 1)] /\ Slot(i - 1)' = Slot(i - 1)
    BY <2>1 DEF Slot
  <2> QED BY <2>1, <2>2 DEF Line
<1> QED BY <1>1, <1>2

\* A connection that joins the line joins it at the end.
LEMMA LineGrows ==
    ASSUME IInv, IInv', NEW c \in Conns, len' = len + 1, UNCHANGED <<queue, head>>,
           queue[Slot(len)] = c
    PROVE  Line' = Append(Line, c)
<1>1. len \in Nat
  BY PoolAssumption DEF IInv, TypeOK
<1>2. Line \in Seq(Conns) /\ Len(Line) = len /\ \A i \in 1..len : Line[i] = queue[Slot(i - 1)]
  BY LineIsSeq
<1>3. Line' = [i \in 1..(len + 1) |-> queue[Slot(i - 1)]]
  BY DEF Line, Slot
<1>4. \A i \in 1..(len + 1) : queue[Slot(i - 1)] = IF i = len + 1 THEN c ELSE Line[i]
  <2> SUFFICES ASSUME NEW i \in 1..(len + 1)
               PROVE  queue[Slot(i - 1)] = IF i = len + 1 THEN c ELSE Line[i]
    OBVIOUS
  <2>1. CASE i = len + 1
    <3>1. i - 1 = len
      BY <1>1, <2>1
    <3> QED BY <2>1, <3>1
  <2>2. CASE i # len + 1
    BY <1>1, <1>2, <2>2
  <2> QED BY <2>1, <2>2
<1>5. Line' \in Seq(Conns) /\ Len(Line') = len + 1 /\ \A i \in 1..(len + 1) : Line'[i] = IF i = len + 1 THEN c ELSE Line[i]
  <2>1. \A i \in 1..len : Line[i] \in Conns
    BY <1>2
  <2>2. \A i \in 1..(len + 1) : queue[Slot(i - 1)] \in Conns
    BY <1>1, <1>4, <2>1
  <2> QED BY <1>1, <1>3, <1>4, <2>2
<1>6. /\ Append(Line, c) \in Seq(Conns) /\ Len(Append(Line, c)) = len + 1
      /\ \A i \in 1..(len + 1) : Append(Line, c)[i] = IF i = len + 1 THEN c ELSE Line[i]
  BY <1>1, <1>2, AppendProperties
<1> QED BY <1>1, <1>5, <1>6, SeqEqual

\* The connection a worker takes is the one that has waited longest.
LEMMA LineShrinks ==
    ASSUME IInv, IInv', len > 0, len' = len - 1, head' = (head + 1) % Cap,
           UNCHANGED queue
    PROVE  Line # <<>> /\ Head(Line) = queue[head] /\ Line' = Tail(Line)
<1>1. len \in Nat /\ head \in 0..(Cap - 1) /\ len <= Cap
  BY PoolAssumption DEF IInv, TypeOK, Slots
<1>2. Line \in Seq(Conns) /\ Len(Line) = len /\ \A i \in 1..len : Line[i] = queue[Slot(i - 1)]
  BY LineIsSeq
<1>3. Slot(0) = head
  BY <1>1, PoolAssumption, SlotIsSlot DEF Slot
<1>4. Line # <<>> /\ Head(Line) = queue[head]
  <2>1. Line # <<>> /\ 1 \in 1..len
    BY <1>1, <1>2
  <2>2. Head(Line) = Line[1]
    BY <1>2, <2>1
  <2>3. Line[1] = queue[Slot(1 - 1)] /\ 1 - 1 = 0
    BY <1>2, <2>1
  <2> QED BY <1>3, <2>1, <2>2, <2>3
<1>5. Line' = [i \in 1..(len - 1) |-> queue[(head' + (i - 1)) % Cap]]
  BY DEF Line, Slot
<1>6. \A i \in 1..(len - 1) : queue[(head' + (i - 1)) % Cap] = Line[i + 1]
  <2> SUFFICES ASSUME NEW i \in 1..(len - 1)
               PROVE  queue[(head' + (i - 1)) % Cap] = Line[i + 1]
    OBVIOUS
  <2>1. i - 1 \in 0..(Cap - 1) /\ i + 1 \in 1..len /\ (i + 1) - 1 = (i - 1) + 1
    BY <1>1, PoolAssumption
  <2>2. (head' + (i - 1)) % Cap = Slot((i - 1) + 1)
    BY <1>1, <2>1, PoolAssumption, SlotShift DEF Slot
  <2> QED BY <1>2, <2>1, <2>2
<1>7. /\ Tail(Line) \in Seq(Conns) /\ Len(Tail(Line)) = len - 1
      /\ \A i \in 1..(len - 1) : Tail(Line)[i] = Line[i + 1]
  BY <1>2, <1>4, HeadTailProperties
<1>8. /\ Line' \in Seq(Conns) /\ Len(Line') = len - 1
      /\ \A i \in 1..(len - 1) : Line'[i] = Line[i + 1]
  <2>1. \A i \in 1..(len - 1) : Line[i + 1] \in Conns
    BY <1>1, <1>2
  <2>2. \A i \in 1..(len - 1) : queue[(head' + (i - 1)) % Cap] \in Conns
    BY <1>6, <2>1
  <2>3. Line' \in [1..(len - 1) -> Conns] /\ len - 1 \in Nat
    BY <1>1, <1>5, <2>2
  <2>4. Line' \in Seq(Conns) /\ Len(Line') = len - 1
    BY <2>3, FunctionIsSeq
  <2>5. \A i \in 1..(len - 1) : Line'[i] = Line[i + 1]
    BY <1>5, <1>6
  <2> QED BY <2>4, <2>5
<1> QED BY <1>4, <1>7, <1>8, SeqEqual

\* Each action of the server is the queue's action of the comment beside it, or
\* none.
LEMMA NextImplements ==
    ASSUME IInv, OnePlace, IInv', [Next]_vars
    PROVE  [Abstract!Next]_(Abstract!qvars)
<1> USE DEF Goto, Acquire, Release
<1>0. ASSUME UNCHANGED <<head, len, accepted, closes>>,
             \A i \in 0..(len - 1) : queue'[Slot(i)] = queue[Slot(i)],
             \A t \in Threads, c \in Conns : Owns(t, c)' <=> Owns(t, c)
      PROVE  UNCHANGED Abstract!qvars
  BY <1>0, MapStutter DEF Abstract!qvars
<1>00. ASSUME UNCHANGED <<queue, head, len, accepted, closes>>,
              \A t \in Threads, c \in Conns : Owns(t, c)' <=> Owns(t, c)
       PROVE  UNCHANGED Abstract!qvars
  BY <1>0, <1>00
<1> USE PoolAssumption DEF IInv, TypeOK, Threads, AcceptorSteps, WorkerSteps, Owning, Serving
\* Arrive(c)
<1>1. ASSUME NEW c \in Conns, Accept(c) PROVE Abstract!Arrive(c)
  <2>1. /\ c \notin accepted /\ accepted' = accepted \union {c}
        /\ pc' = [pc EXCEPT ![acceptor] = "lock"] /\ pc[acceptor] = "accept"
        /\ conn' = [conn EXCEPT ![acceptor] = c]
        /\ UNCHANGED <<queue, head, len, closes>>
    BY <1>1 DEF Accept
  <2>2. Arriving = {} /\ Arriving' = {c}
    BY <2>1 DEF Arriving, Owns
  <2>3. \A w \in Workers, d \in Conns : Owns(w, d)' <=> Owns(w, d)
    BY <2>1 DEF Owns
  <2>4. InService' = InService /\ Line' = Line /\ Done' = Done
    BY <2>1, <2>3 DEF InService, Line, Slot, Done
  <2>5. (Conns \ accepted)' = (Conns \ accepted) \ {c} /\ c \in Conns \ accepted
    BY <2>1
  <2> QED BY <2>2, <2>4, <2>5 DEF Abstract!Arrive
<1>2. CASE AcceptorFull \/ AcceptorRoom \/ AcceptorUnlock
  <2>1. \A t \in Threads, c \in Conns : Owns(t, c)' <=> Owns(t, c)
    BY <1>2 DEF AcceptorFull, AcceptorRoom, AcceptorUnlock, Owns
  <2> QED BY <1>00, <1>2, <2>1 DEF AcceptorFull, AcceptorRoom, AcceptorUnlock
<1>3. CASE Put
  <2>1. /\ pc[acceptor] = "put" /\ pc' = [pc EXCEPT ![acceptor] = "grow"]
        /\ queue' = [queue EXCEPT ![Slot(len)] = conn[acceptor]]
        /\ len < Cap /\ UNCHANGED <<head, len, mu, conn, accepted, closes>>
    BY <1>3 DEF Put, RingBounds
  <2>2. ASSUME NEW i \in 0..(len - 1) PROVE queue'[Slot(i)] = queue[Slot(i)]
    <3>1. i \in 0..(Cap - 1) /\ len \in 0..(Cap - 1) /\ head \in 0..(Cap - 1) /\ i # len
      BY <2>1 DEF Slots
    <3>2. Slot(i) # Slot(len)
      BY <3>1, SlotInjective DEF Slot
    <3>3. Slot(i) \in Slots
      BY <3>1, SlotIsSlot DEF Slot, Slots
    <3> QED BY <2>1, <3>2, <3>3
  <2>3. \A t \in Threads, c \in Conns : Owns(t, c)' <=> Owns(t, c)
    BY <2>1 DEF Owns
  <2> QED BY <1>0, <2>1, <2>2, <2>3
\* Join(conn[acceptor])
<1>4. CASE Grow
  <2> DEFINE a == conn[acceptor]
  <2>1. /\ pc[acceptor] = "grow" /\ pc' = [pc EXCEPT ![acceptor] = "signal"]
        /\ len' = len + 1 /\ conn' = [conn EXCEPT ![acceptor] = None]
        /\ len < Cap /\ a \in Conns /\ queue[Slot(len)] = a
        /\ UNCHANGED <<queue, head, accepted, closes>>
    BY <1>4 DEF Grow, RingBounds, HeldInv
  <2>2. Arriving = {a} /\ Arriving' = {}
    BY <2>1 DEF Arriving, Owns
  <2>3. \A w \in Workers, d \in Conns : Owns(w, d)' <=> Owns(w, d)
    BY <2>1 DEF Owns
  <2>4. InService' = InService /\ Done' = Done
    BY <2>1, <2>3 DEF InService, Done
  <2>5. Line' = Append(Line, a) /\ Len(Line) < Cap
    BY <2>1, LineIsSeq, LineGrows
  <2>6. Abstract!Join(a)
    BY <2>1, <2>2, <2>4, <2>5 DEF Abstract!Join
  <2> QED BY <2>1, <2>6 DEF Abstract!Next
<1>5. CASE SignalNotEmpty
  <2>1. SignalAndGoto(acceptor, Workers, "unlock") /\ pc[acceptor] = "signal"
    BY <1>5 DEF SignalNotEmpty
  <2>2. /\ pc' \in [Threads -> AcceptorSteps \union WorkerSteps]
        /\ pc'[acceptor] = "unlock"
        /\ \A u \in Threads \ {acceptor} :
             pc'[u] = pc[u] \/ (u \in Workers /\ pc[u] = "wait" /\ pc'[u] = "relock")
    BY <2>1, SignalEffect
  <2>3. \A t \in Threads, c \in Conns : Owns(t, c)' <=> Owns(t, c)
    BY <1>5, <2>1, <2>2 DEF SignalNotEmpty, Owns
  <2> QED BY <1>00, <1>5, <2>3 DEF SignalNotEmpty
<1>6. ASSUME NEW u \in Threads, Lock(u) \/ Relock(u) \/ SpuriousWakeup(u)
      PROVE  UNCHANGED Abstract!qvars
  <2>1. \A t \in Threads, c \in Conns : Owns(t, c)' <=> Owns(t, c)
    BY <1>6 DEF Lock, Relock, SpuriousWakeup, Owns
  <2> QED BY <1>00, <1>6, <2>1 DEF Lock, Relock, SpuriousWakeup
<1>7. ASSUME NEW w \in Workers, WorkerEmpty(w) \/ WorkerWork(w) \/ Read(w)
      PROVE  UNCHANGED Abstract!qvars
  <2>1. \A t \in Threads, c \in Conns : Owns(t, c)' <=> Owns(t, c)
    BY <1>7 DEF WorkerEmpty, WorkerWork, Read, Owns
  <2> QED BY <1>00, <1>7, <2>1 DEF WorkerEmpty, WorkerWork, Read
\* Serve
<1>8. ASSUME NEW w \in Workers, Advance(w) PROVE Abstract!Serve
  <2> DEFINE a == queue[head]
  <2>1. /\ pc[w] = "advance" /\ pc' = [pc EXCEPT ![w] = "signal"]
        /\ head' = (head + 1) % Cap /\ len' = len - 1 /\ len > 0
        /\ conn[w] = a
        /\ UNCHANGED <<queue, conn, accepted, closes>>
    BY <1>8 DEF Advance, RingBounds, HeldInv
  <2>2. Line # <<>> /\ Head(Line) = a /\ Line' = Tail(Line)
    BY <2>1, LineShrinks
  <2>3. a \in Conns
    <3>1. len \in Nat /\ head \in 0..(Cap - 1)
      BY DEF Slots
    <3>2. Slot(0) = head
      BY <3>1, SlotIsSlot DEF Slot
    <3>3. 0 \in 0..(len - 1)
      BY <2>1, <3>1
    <3> QED BY <3>2, <3>3 DEF HeldInv
  <2>4. \A t \in Threads, d \in Conns : Owns(t, d)' <=> Owns(t, d) \/ (t = w /\ d = a)
    BY <2>1 DEF Owns
  <2>5. InService' = InService \union {a} /\ Arriving' = Arriving
    BY <2>3, <2>4 DEF InService, Arriving
  <2>6. Done' = Done /\ (Conns \ accepted)' = Conns \ accepted
    BY <2>1 DEF Done
  <2> QED BY <2>2, <2>5, <2>6 DEF Abstract!Serve
<1>9. ASSUME NEW w \in Workers, SignalNotFull(w) PROVE UNCHANGED Abstract!qvars
  <2>1. SignalAndGoto(w, {acceptor}, "unlock") /\ pc[w] = "signal"
    BY <1>9 DEF SignalNotFull
  <2>2. /\ pc' \in [Threads -> AcceptorSteps \union WorkerSteps]
        /\ pc'[w] = "unlock"
        /\ \A u \in Threads \ {w} :
             pc'[u] = pc[u] \/ (u \in {acceptor} /\ pc[u] = "wait" /\ pc'[u] = "relock")
    BY <2>1, SignalEffect
  <2>3. \A t \in Threads, c \in Conns : Owns(t, c)' <=> Owns(t, c)
    BY <1>9, <2>1, <2>2 DEF SignalNotFull, Owns
  <2> QED BY <1>00, <1>9, <2>3 DEF SignalNotFull
<1>10. ASSUME NEW w \in Workers, WorkerUnlock(w) \/ Alloc(w) \/ Recv(w) \/ Respond(w)
       PROVE  UNCHANGED Abstract!qvars
  <2>1. \A t \in Threads, c \in Conns : Owns(t, c)' <=> Owns(t, c)
    BY <1>10 DEF WorkerUnlock, Alloc, Recv, Respond, Owns
  <2> QED BY <1>00, <1>10, <2>1 DEF WorkerUnlock, Alloc, Recv, Respond
\* Leave(conn[w])
<1>11. ASSUME NEW w \in Workers, Close(w) PROVE conn[w] \in Conns /\ Abstract!Leave(conn[w])
  <2> DEFINE a == conn[w]
  <2>1. /\ pc[w] = "close" /\ pc' = [pc EXCEPT ![w] = "lock"]
        /\ closes' = [closes EXCEPT ![a] = @ + 1]
        /\ conn' = [conn EXCEPT ![w] = None]
        /\ a \in Conns
        /\ UNCHANGED <<queue, head, len, accepted>>
    BY <1>11 DEF Close, HeldInv
  <2>2. Owns(w, a) /\ \A t \in Threads : Owns(t, a) => t = w
    <3>1. Owns(w, a)
      BY <2>1 DEF Owns
    <3> QED BY <2>1, <3>1 DEF OnePlace
  <2>3. \A t \in Threads, d \in Conns : Owns(t, d)' <=> Owns(t, d) /\ d # a
    <3>1. \A t \in Threads, d \in Conns : Owns(t, d)' <=> Owns(t, d) /\ t # w
      BY <2>1 DEF Owns
    <3>2. \A d \in Conns : Owns(w, d) => d = a
      BY DEF Owns
    <3> QED BY <2>2, <3>1, <3>2
  <2>4. a \in InService /\ InService' = InService \ {a} /\ Arriving' = Arriving
    <3>1. Arriving' = Arriving
      BY <2>1, <2>2, <2>3 DEF Arriving
    <3> QED BY <2>1, <2>2, <2>3, <3>1 DEF InService
  <2>5. Done' = Done \union {a}
    BY <2>1 DEF Done
  <2>6. Line' = Line /\ (Conns \ accepted)' = Conns \ accepted
    BY <2>1 DEF Line, Slot
  <2> QED BY <2>1, <2>4, <2>5, <2>6 DEF Abstract!Leave
<1>12. CASE UNCHANGED vars
  BY <1>12, <1>00 DEF vars, Owns
<1> QED BY <1>1, <1>2, <1>3, <1>4, <1>5, <1>6, <1>7, <1>8, <1>9, <1>10, <1>11, <1>12
        DEF Next, AcceptorStep, WorkerStep, Abstract!Next

\* Connections are served in the order they were accepted, from a line of at
\* most Cap, each by one worker, and each is closed once.
THEOREM PoolImplementsConnQueue == Spec => ImplementsConnQueue
<1>1. Init => Abstract!Init
  <2> SUFFICES ASSUME Init PROVE Abstract!Init
    OBVIOUS
  <2>1. Arriving = {} /\ InService = {} /\ Done = {}
    BY PoolAssumption DEF Init, Arriving, InService, Done, Owns, Owning, Serving, Threads
  <2>2. Line = <<>> /\ Conns \ accepted = Conns
    BY DEF Init, Line
  <2> QED BY <2>1, <2>2 DEF Abstract!Init
<1>2. IInv /\ OnePlace /\ IInv' /\ [Next]_vars => [Abstract!Next]_(Abstract!qvars)
  BY NextImplements
<1> QED BY <1>1, <1>2, InductiveInvariant, ConnectionsConserved, PTL
        DEF Spec, ImplementsConnQueue, Abstract!Spec

-----------------------------------------------------------------------------
(* The routes *)

MuxUsers == Users \union {NoUser}
RouteSet == [pattern : Patterns, method : Methods, kind : {"plain", "ctx"}, user : MuxUsers]

MuxTypeOK == table \in [routes : Seq(RouteSet), user : MuxUsers]

\* Every plain handler gets the user that was set last.
UsersCurrent ==
    \A i \in DOMAIN table.routes :
        table.routes[i].kind = "plain" => table.routes[i].user = table.user

MuxInv == MuxTypeOK /\ UsersCurrent

\* Adding a route keeps the invariant if a plain one has the mux's user.
LEMMA AddKeepsMux ==
    ASSUME MuxInv, NEW route \in RouteSet, table' = AddRoute(table, route),
           route.kind = "plain" => route.user = table.user
    PROVE  MuxInv'
<1> DEFINE s == table.routes
<1>1. s \in Seq(RouteSet) /\ table.user \in MuxUsers
  BY DEF MuxInv, MuxTypeOK
<1>2. table'.routes = Append(s, route) /\ table'.user = table.user
  BY DEF AddRoute
<1>3. Append(s, route) \in Seq(RouteSet) /\ Len(Append(s, route)) = Len(s) + 1
      /\ (\A i \in 1 .. Len(s) : Append(s, route)[i] = s[i])
      /\ Append(s, route)[Len(s) + 1] = route
  BY <1>1, AppendProperties
<1>4. MuxTypeOK'
  BY <1>1, <1>3 DEF MuxTypeOK, AddRoute
<1>5. UsersCurrent'
  <2> SUFFICES ASSUME NEW i \in 1 .. Len(s) + 1, Append(s, route)[i].kind = "plain"
               PROVE  Append(s, route)[i].user = table.user
    BY <1>2, <1>3, <1>1 DEF UsersCurrent
  <2>1. Len(s) \in Nat
    BY <1>1
  <2>2. CASE i = Len(s) + 1
    BY <1>3, <2>2
  <2>3. CASE i # Len(s) + 1
    <3>1. i \in 1 .. Len(s) /\ i \in DOMAIN table.routes
      BY <1>1, <2>1, <2>3
    <3> QED BY <1>3, <3>1 DEF MuxInv, UsersCurrent
  <2> QED BY <2>2, <2>3
<1> QED BY <1>4, <1>5 DEF MuxInv

LEMMA MuxInvHolds == MuxSpec => []MuxInv
<1>1. MuxInit => MuxInv
  BY DEF MuxInit, NewMux, MuxInv, MuxTypeOK, UsersCurrent, MuxUsers
<1>2. MuxInv /\ [MuxNext]_table => MuxInv'
  <2> SUFFICES ASSUME MuxInv, [MuxNext]_table PROVE MuxInv'
    OBVIOUS
  <2>0. table.user \in MuxUsers
    BY DEF MuxInv, MuxTypeOK
  <2>1. CASE MuxHandle
    <3>1. PICK pattern \in Patterns, method \in Methods :
              table' = AddRoute(table, Route(pattern, method, "plain", table.user))
      BY <2>1 DEF MuxHandle, Handle
    <3>2. Route(pattern, method, "plain", table.user) \in RouteSet
      BY <2>0 DEF Route, RouteSet
    <3>3. Route(pattern, method, "plain", table.user).user = table.user
      BY DEF Route
    <3> QED BY <3>1, <3>2, <3>3, AddKeepsMux
  <2>2. CASE MuxHandleCtx
    <3>1. PICK pattern \in Patterns, method \in Methods, user \in Users :
              table' = AddRoute(table, Route(pattern, method, "ctx", user))
      BY <2>2 DEF MuxHandleCtx, HandleCtx
    <3>2. Route(pattern, method, "ctx", user) \in RouteSet
      BY DEF Route, RouteSet, MuxUsers
    <3>3. Route(pattern, method, "ctx", user).kind # "plain"
      BY DEF Route
    <3> QED BY <3>1, <3>2, <3>3, AddKeepsMux
  <2>3. CASE MuxSetUser
    <3>1. PICK user \in Users : table' = SetUser(table, user)
      BY <2>3 DEF MuxSetUser
    <3> DEFINE s == table.routes
               With(r) == IF r.kind = "plain" THEN Route(r.pattern, r.method, "plain", user)
                          ELSE r
    <3>2. s \in Seq(RouteSet) /\ Len(s) \in Nat /\ DOMAIN s = 1 .. Len(s)
      BY DEF MuxInv, MuxTypeOK
    <3>3. \A r \in RouteSet : With(r) \in RouteSet /\ (With(r).kind = "plain" => With(r).user = user)
      BY DEF Route, RouteSet, MuxUsers
    <3>4. table' = [routes |-> [i \in 1 .. Len(s) |-> With(s[i])], user |-> user]
      BY <3>1, <3>2 DEF SetUser
    <3>5. \A i \in 1 .. Len(s) : s[i] \in RouteSet
      BY <3>2
    <3> HIDE DEF With
    <3>6. [i \in 1 .. Len(s) |-> With(s[i])] \in Seq(RouteSet)
      BY <3>2, <3>3, <3>5
    <3>7. MuxTypeOK'
      BY <3>4, <3>6 DEF MuxTypeOK, MuxUsers
    <3>8. UsersCurrent'
      BY <3>3, <3>4, <3>5 DEF UsersCurrent
    <3> QED BY <3>7, <3>8 DEF MuxInv
  <2>4. CASE UNCHANGED table
    BY <2>4 DEF MuxInv, MuxTypeOK, UsersCurrent
  <2> QED BY <2>1, <2>2, <2>3, <2>4 DEF MuxNext
<1> QED BY <1>1, <1>2, PTL DEF MuxSpec

-----------------------------------------------------------------------------
(* Matching *)

\* The routes a request may get, and what kind of match each is.
May(mux, method) == {i \in DOMAIN mux.routes : Admits(mux.routes[i], method)}
Exactly(mux, path, method) == {i \in May(mux, method) : mux.routes[i].pattern = path}
Prefixes(mux, path, method) ==
    {i \in May(mux, method) : Covers(mux.routes[i].pattern, path)}
CatchAlls(mux) == {i \in DOMAIN mux.routes : mux.routes[i].pattern = Anything}

\* What the loop of _http_match holds behind the first k routes.
LoopInv(mux, path, method, k, held) ==
    /\ held.at \in 0 .. k
    /\ held.exact => /\ held.at \in Exactly(mux, path, method)
                     /\ \A j \in Exactly(mux, path, method) : held.at <= j
    /\ ~held.exact => /\ \A j \in Exactly(mux, path, method) : j > k
                      /\ held.at # 0 => held.at \in Prefixes(mux, path, method)
                      /\ \A j \in Prefixes(mux, path, method) :
                             j <= k => /\ held.at # 0
                                       /\ Len(mux.routes[j].pattern)
                                              <= Len(mux.routes[held.at].pattern)

IsMux(mux) ==
    /\ mux.routes \in Seq(RouteSet)
    /\ \A i \in DOMAIN mux.routes : mux.routes[i].pattern \in Texts

\* A route of the loop.
LEMMA VisitHolds ==
    ASSUME NEW mux, IsMux(mux), NEW path, NEW method, NEW k \in Nat, k + 1 <= Len(mux.routes),
           NEW held, held \in [at : 0 .. Len(mux.routes), exact : BOOLEAN],
           LoopInv(mux, path, method, k, held)
    PROVE  LET next == Visit(mux, path, method, k + 1, held)
           IN  /\ next \in [at : 0 .. Len(mux.routes), exact : BOOLEAN]
               /\ LoopInv(mux, path, method, k + 1, next)
<1> DEFINE i == k + 1
           r == mux.routes[i]
           next == Visit(mux, path, method, i, held)
           E == Exactly(mux, path, method)
           P == Prefixes(mux, path, method)
           n == Len(mux.routes)
           L(j) == Len(mux.routes[j].pattern)
<1>0. n \in Nat /\ i \in DOMAIN mux.routes /\ DOMAIN mux.routes = 1 .. n
      /\ \A j \in 1 .. n : L(j) \in Nat
  BY DEF IsMux, Texts
<1>1. E \subseteq 1 .. n /\ P \subseteq 1 .. n
  BY <1>0 DEF Exactly, Prefixes, May
<1>2. i \in E <=> Admits(r, method) /\ r.pattern = path
  BY <1>0 DEF Exactly, May
<1>3. i \in P <=> Admits(r, method) /\ Covers(r.pattern, path)
  BY <1>0 DEF Prefixes, May
<1>4. held.at \in 0 .. n /\ held.at \in 0 .. k /\ held.exact \in BOOLEAN
  BY DEF LoopInv
<1>5. /\ held.exact => held.at \in E /\ \A j \in E : held.at <= j
      /\ ~held.exact => /\ \A j \in E : j > k
                        /\ held.at # 0 => held.at \in P
                        /\ \A j \in P : j <= k => held.at # 0 /\ L(j) <= L(held.at)
  BY DEF LoopInv
<1>6. ASSUME NEW v, v \in [at : 0 .. n, exact : BOOLEAN],
             v.at <= i,
             v.exact => v.at \in E /\ \A j \in E : v.at <= j,
             ~v.exact => /\ \A j \in E : j > i
                         /\ v.at # 0 => v.at \in P
                         /\ \A j \in P : j <= i => v.at # 0 /\ L(j) <= L(v.at)
      PROVE  LoopInv(mux, path, method, i, v)
  BY <1>0, <1>6 DEF LoopInv
<1>7. CASE held.exact \/ ~Admits(r, method)
  <2>1. next = held
    BY <1>7 DEF Visit
  <2>2. ~held.exact => i \notin E /\ i \notin P
    BY <1>2, <1>3, <1>7
  <2>3. ~held.exact => \A j \in E : j > i
    BY <1>0, <1>1, <1>5, <2>2
  <2>4. ~held.exact => \A j \in P : j <= i => j <= k
    BY <1>0, <1>1, <2>2
  <2>5. held.at <= i
    BY <1>4
  <2>6. LoopInv(mux, path, method, i, held)
    BY <1>5, <1>6, <2>3, <2>4, <2>5
  <2> QED BY <2>1, <2>6
<1>8. CASE ~(held.exact \/ ~Admits(r, method)) /\ r.pattern = path
  <2>1. next = Held(i, TRUE)
    BY <1>8 DEF Visit
  <2>2. next \in [at : 0 .. n, exact : BOOLEAN] /\ next.at = i /\ next.exact
    <3>1. i \in 0 .. n
      BY <1>0
    <3> HIDE DEF next, i
    <3> QED BY <2>1, <3>1, Zenon DEF Held
  <2>3. i \in E /\ \A j \in E : i <= j
    BY <1>0, <1>1, <1>2, <1>5, <1>8
  <2>4. next.at <= i
    BY <2>2
  <2>5. LoopInv(mux, path, method, i, next)
    BY <1>6, <2>2, <2>3, <2>4
  <2> QED BY <2>2, <2>5
<1>9. CASE ~(held.exact \/ ~Admits(r, method)) /\ r.pattern # path
  <2>0. ~held.exact /\ Admits(r, method) /\ i \notin E
    BY <1>2, <1>9
  <2>1. \A j \in E : j > i
    BY <1>0, <1>1, <1>5, <2>0
  <2>2. CASE Covers(r.pattern, path) /\ (held.at # 0 => L(i) >= L(held.at))
    <3>1. next = Held(i, FALSE)
      BY <1>9, <2>2 DEF Visit
    <3>2. next \in [at : 0 .. n, exact : BOOLEAN] /\ next.at = i /\ ~next.exact
      <4>1. i \in 0 .. n
        BY <1>0
      <4> HIDE DEF next, i
      <4> QED BY <3>1, <4>1, Zenon DEF Held
    <3>3. i \in P /\ i # 0
      BY <1>3, <2>0, <2>2
    <3>4. ASSUME NEW j \in P, j <= i PROVE L(j) <= L(i)
      <4>1. L(j) \in Nat /\ L(i) \in Nat /\ j \in Nat
        BY <1>0, <1>1
      <4>2. CASE j = i
        BY <4>1, <4>2
      <4>3. CASE j # i
        <5>1. held.at # 0 /\ L(j) <= L(held.at)
          BY <1>5, <2>0, <3>4, <4>1, <4>3
        <5>2. L(i) >= L(held.at) /\ L(held.at) \in Nat
          BY <1>0, <1>4, <2>2, <5>1
        <5> HIDE DEF L
        <5> QED BY <4>1, <5>1, <5>2
      <4> QED BY <4>2, <4>3
    <3>5. next.at <= i
      BY <3>2
    <3>6. LoopInv(mux, path, method, i, next)
      BY <1>6, <2>1, <3>2, <3>3, <3>4, <3>5
    <3> QED BY <3>2, <3>6
  <2>3. CASE ~(Covers(r.pattern, path) /\ (held.at # 0 => L(i) >= L(held.at)))
    <3>1. next = held
      BY <1>9, <2>3 DEF Visit
    <3>2. ASSUME NEW j \in P, j <= i PROVE held.at # 0 /\ L(j) <= L(held.at)
      <4>1. j \in Nat
        BY <1>1
      <4>2. CASE j = i
        <5>1. held.at # 0 /\ ~(L(i) >= L(held.at))
          BY <1>3, <2>3, <4>2
        <5>2. L(i) \in Nat /\ L(held.at) \in Nat
          BY <1>0, <1>4, <5>1
        <5> QED BY <4>2, <5>1, <5>2
      <4>3. CASE j # i
        BY <1>5, <2>0, <3>2, <4>1, <4>3
      <4> QED BY <4>2, <4>3
    <3>3. held.at <= i
      BY <1>4
    <3>4. LoopInv(mux, path, method, i, held)
      BY <1>5, <1>6, <2>0, <2>1, <3>2, <3>3
    <3> QED BY <3>1, <3>4
  <2> QED BY <2>2, <2>3
<1> QED BY <1>7, <1>8, <1>9

\* What _http_match finds: the first exact match, else a longest prefix, else the
\* first "/", by whatever method it is restricted, else nothing.
LEMMA MatchFinds ==
    ASSUME NEW mux, IsMux(mux), NEW path \in Texts, NEW method
    PROVE  LET found == Match(mux, path, method)
               E == Exactly(mux, path, method)
               P == Prefixes(mux, path, method)
               C == CatchAlls(mux)
               L(j) == Len(mux.routes[j].pattern)
           IN  /\ E # {} => found \in E /\ \A i \in E : found <= i
               /\ E = {} /\ P # {} => found \in P /\ \A i \in P : L(i) <= L(found)
               /\ E = {} /\ P = {} /\ C # {} => found \in C /\ \A i \in C : found <= i
               /\ E = {} /\ P = {} /\ C = {} => found = 0
<1> DEFINE n == Len(mux.routes)
           S == [at : 0 .. n, exact : BOOLEAN]
           start == Held(0, FALSE)
           Take(i, v) == Visit(mux, path, method, i, v)
           held == CHOOSE held : held = [i \in 0 .. n |->
                       IF i = 0 THEN start ELSE Take(i, held[i - 1])]
           E == Exactly(mux, path, method)
           P == Prefixes(mux, path, method)
           C == CatchAlls(mux)
           L(j) == Len(mux.routes[j].pattern)
           Sound(k, v) == v \in S /\ LoopInv(mux, path, method, k, v)
<1>0. n \in Nat /\ DOMAIN mux.routes = 1 .. n /\ (\A j \in 1 .. n : L(j) \in Nat)
  BY DEF IsMux, Texts
<1>1. E \subseteq 1 .. n /\ P \subseteq 1 .. n /\ C \subseteq 1 .. n
  BY <1>0 DEF Exactly, Prefixes, May, CatchAlls
<1>2. start \in S /\ LoopInv(mux, path, method, 0, start)
  <2>0. 0 \in 0 .. n
    BY <1>0
  <2>1. start \in S /\ start.at = 0 /\ ~start.exact
    BY <2>0, Zenon DEF Held
  <2> HIDE DEF start
  <2> QED BY <1>0, <1>1, <2>1 DEF LoopInv
<1>3. ASSUME NEW i \in 1 .. n, NEW v \in S PROVE Take(i, v) \in S
  <2>1. i \in 0 .. n
    BY <1>0
  <2>2. Take(i, v) \in {v, Held(i, TRUE), Held(i, FALSE)}
    BY Zenon DEF Visit
  <2>3. Held(i, TRUE) \in S /\ Held(i, FALSE) \in S
    BY <2>1, Zenon DEF Held
  <2> HIDE DEF S, Take
  <2> QED BY <2>2, <2>3
<1>4. \E f : f = [i \in 0 .. n |-> IF i = 0 THEN start ELSE Take(i, f[i - 1])]
  <2> DEFINE g == [p \in (1 .. n) \X S |-> Take(p[1], p[2])]
  <2>1. g \in [(1 .. n) \X S -> S]
    BY <1>3
  <2>2. PICK f \in [0 .. n -> S] : Follows(f, n, start, g)
    BY <1>0, <1>2, <2>1, ValuesExist
  <2>3. ASSUME NEW i \in 0 .. n PROVE f[i] = IF i = 0 THEN start ELSE Take(i, f[i - 1])
    <3>1. CASE i = 0
      BY <2>2, <3>1 DEF Follows
    <3>2. CASE i # 0
      <4>1. i \in 1 .. n /\ i - 1 \in 0 .. n
        BY <1>0, <3>2
      <4>2. f[i - 1] \in S
        BY <2>2, <4>1
      <4>3. f[i] = g[<<i, f[i - 1]>>]
        BY <2>2, <4>1 DEF Follows
      <4>4. g[<<i, f[i - 1]>>] = Take(i, f[i - 1])
        BY <4>1, <4>2
      <4> QED BY <3>2, <4>3, <4>4
    <3> QED BY <3>1, <3>2
  <2>4. f = [i \in 0 .. n |-> IF i = 0 THEN start ELSE Take(i, f[i - 1])]
    BY <2>2, <2>3
  <2> QED BY <2>4
<1>5. held = [i \in 0 .. n |-> IF i = 0 THEN start ELSE Take(i, held[i - 1])]
  BY <1>4, Zenon
<1>6. Best(mux, path, method) = held[n].at
  BY DEF Best
<1> HIDE DEF held
<1>7. \A k \in Nat : k <= n => Sound(k, held[k])
  <2> DEFINE G == {k \in Nat : k <= n => Sound(k, held[k])}
  <2>1. 0 \in G
    <3>1. held[0] = start
      BY <1>0, <1>5
    <3> QED BY <1>2, <3>1
  <2>2. ASSUME NEW k \in Nat, k \in G PROVE k + 1 \in G
    <3> SUFFICES ASSUME k + 1 <= n PROVE Sound(k + 1, held[k + 1])
      OBVIOUS
    <3>1. Sound(k, held[k])
      BY <1>0, <2>2
    <3>2. k + 1 \in 0 .. n /\ k + 1 # 0 /\ (k + 1) - 1 = k
      BY <1>0
    <3>3. held[k + 1] = Take(k + 1, held[k])
      BY <1>5, <3>2
    <3> QED BY <3>1, <3>3, VisitHolds
  <2> HIDE DEF G
  <2>3. Nat \subseteq G
    BY <2>1, <2>2, CountUp
  <2> QED BY <2>3 DEF G
<1> DEFINE v == held[n]
<1>8. v \in S /\ LoopInv(mux, path, method, n, v)
  BY <1>0, <1>7
<1> HIDE DEF v
<1>9. /\ v.at \in 0 .. n
      /\ v.exact => v.at \in E /\ \A j \in E : v.at <= j
      /\ ~v.exact => /\ \A j \in E : j > n
                     /\ v.at # 0 => v.at \in P
                     /\ \A j \in P : j <= n => v.at # 0 /\ L(j) <= L(v.at)
  BY <1>8 DEF LoopInv
<1>10. Best(mux, path, method) = v.at
  BY <1>6 DEF v
<1> DEFINE found == Match(mux, path, method)
<1>11. found = IF v.at # 0 THEN v.at ELSE Fallback(mux)
  BY <1>10 DEF Match
<1> HIDE DEF found
<1>12. E # {} => found \in E /\ \A j \in E : found <= j
  <2> SUFFICES ASSUME E # {} PROVE found \in E /\ \A j \in E : found <= j
    OBVIOUS
  <2>1. v.exact
    BY <1>0, <1>1, <1>9
  <2>2. v.at \in E /\ v.at # 0
    BY <1>1, <1>9, <2>1
  <2> QED BY <1>9, <1>11, <2>1, <2>2
<1>13. E = {} /\ P # {} => found \in P /\ \A j \in P : L(j) <= L(found)
  <2> SUFFICES ASSUME E = {}, P # {} PROVE found \in P /\ \A j \in P : L(j) <= L(found)
    OBVIOUS
  <2>1. ~v.exact
    BY <1>9
  <2>2. \A j \in P : v.at # 0 /\ L(j) <= L(v.at)
    BY <1>0, <1>1, <1>9, <2>1
  <2>3. v.at # 0 /\ v.at \in P /\ found = v.at
    BY <1>9, <1>11, <2>1, <2>2
  <2> HIDE DEF L, P, E
  <2> QED BY <2>2, <2>3
<1>14. E = {} /\ P = {} => found = Fallback(mux)
  <2> SUFFICES ASSUME E = {}, P = {} PROVE found = Fallback(mux)
    OBVIOUS
  <2>1. ~v.exact /\ v.at = 0
    BY <1>9
  <2> QED BY <1>11, <2>1
<1>15. C # {} => Fallback(mux) \in C /\ \A j \in C : Fallback(mux) <= j
  <2> SUFFICES ASSUME C # {} PROVE Fallback(mux) \in C /\ \A j \in C : Fallback(mux) <= j
    OBVIOUS
  <2>1. C \subseteq Nat
    BY <1>0, <1>1
  <2>2. PICK i \in C : \A j \in C : ~(j < i)
    BY <2>1, FirstExists
  <2>3. \A j \in C : i <= j
    BY <2>1, <2>2
  <2>4. Fallback(mux) = CHOOSE i_1 \in C : \A j \in C : i_1 <= j
    BY DEF Fallback, CatchAlls
  <2> HIDE DEF C
  <2> QED BY <2>3, <2>4
<1>16. C = {} => Fallback(mux) = 0
  BY DEF Fallback, CatchAlls
<1> HIDE DEF E, P, C, L
<1>17. /\ E # {} => found \in E /\ \A i \in E : found <= i
       /\ E = {} /\ P # {} => found \in P /\ \A i \in P : L(i) <= L(found)
       /\ E = {} /\ P = {} /\ C # {} => found \in C /\ \A i \in C : found <= i
       /\ E = {} /\ P = {} /\ C = {} => found = 0
  BY <1>12, <1>13, <1>14, <1>15, <1>16
<1> QED BY <1>17 DEF E, P, C, L, found

\* So it finds the route that RoutesRight describes, where it describes one.
LEMMA MatchIsRight ==
    ASSUME NEW mux, IsMux(mux), NEW path \in Texts, NEW method
    PROVE  RoutesRight(mux, path, method)
<1> DEFINE found == Match(mux, path, method)
           E == Exactly(mux, path, method)
           P == Prefixes(mux, path, method)
           C == CatchAlls(mux)
           L(j) == Len(mux.routes[j].pattern)
<1>1. /\ E # {} => found \in E /\ \A i \in E : found <= i
      /\ E = {} /\ P # {} => found \in P /\ \A i \in P : L(i) <= L(found)
      /\ E = {} /\ P = {} /\ C = {} => found = 0
      /\ E = {} /\ P = {} /\ C # {} =>
            /\ found \in C \cup {0}
            /\ C \subseteq May(mux, method) => found \in C /\ \A i \in C : found <= i
  <2> HIDE DEF E, P, C, L, found
  <2>1. /\ E # {} => found \in E /\ \A i \in E : found <= i
        /\ E = {} /\ P # {} => found \in P /\ \A i \in P : L(i) <= L(found)
        /\ E = {} /\ P = {} /\ C # {} => found \in C /\ \A i \in C : found <= i
        /\ E = {} /\ P = {} /\ C = {} => found = 0
    BY MatchFinds DEF E, P, C, L, found
  <2> QED BY <2>1
<1> QED BY <1>1, Zenon DEF RoutesRight, Exactly, Prefixes, May, CatchAlls

\* What RoutingSound says, for any number of routes, in any order, any patterns,
\* methods and requests: the route is the one the header describes wherever no "/"
\* restricted to another method is left to fall back to.
THEOREM RoutesAreSound == MuxSpec => []RoutingSound
<1>1. MuxInv => RoutingSound
  <2> SUFFICES ASSUME MuxInv PROVE RoutingSound
    OBVIOUS
  <2>1. table.routes \in Seq(RouteSet)
    BY DEF MuxInv, MuxTypeOK
  <2>2. \A i \in DOMAIN table.routes : table.routes[i].pattern \in Texts
    <3> SUFFICES ASSUME NEW i \in DOMAIN table.routes PROVE table.routes[i].pattern \in Texts
      OBVIOUS
    <3>1. table.routes[i] \in RouteSet
      BY <2>1
    <3>2. table.routes[i].pattern \in Patterns
      BY <3>1 DEF RouteSet
    <3> QED BY <3>2, MuxAssumption
  <2>3. IsMux(table)
    BY <2>1, <2>2 DEF IsMux
  <2>4. \A r \in Requests : RoutesRight(table, r.path, r.method)
    BY <2>3, MatchIsRight, MuxAssumption
  <2> QED BY <2>4 DEF RoutingSound, MuxInv, UsersCurrent
<1> QED BY <1>1, MuxInvHolds, PTL

\* The order of registration decides between routes of one pattern at most: two
\* tables with the same routes answer a request with the same pattern or both with
\* none.
THEOREM OrderDoesNotMatter ==
    ASSUME NEW one, NEW other, IsMux(one), IsMux(other),
           {one.routes[i] : i \in DOMAIN one.routes}
               = {other.routes[i] : i \in DOMAIN other.routes},
           NEW path \in Texts, NEW method
    PROVE  LET a == Match(one, path, method)
               b == Match(other, path, method)
           IN  \/ a = 0 /\ b = 0
               \/ /\ a \in DOMAIN one.routes /\ b \in DOMAIN other.routes
                  /\ one.routes[a].pattern = other.routes[b].pattern
<1> DEFINE Prefix(r) == Admits(r, method) /\ Covers(r.pattern, path)
           Found(m) == Match(m, path, method)
           Routes(m) == {m.routes[i] : i \in DOMAIN m.routes}
           Exact(r) == Admits(r, method) /\ r.pattern = path
           Answer(m) == m.routes[Found(m)]
<1>1. ASSUME NEW m, IsMux(m)
      PROVE  /\ 0 \notin DOMAIN m.routes
             /\ (\E r \in Routes(m) : Exact(r))
                   => Found(m) \in DOMAIN m.routes /\ Answer(m).pattern = path
             /\ ~(\E r \in Routes(m) : Exact(r)) /\ (\E r \in Routes(m) : Prefix(r))
                   => /\ Found(m) \in DOMAIN m.routes /\ Prefix(Answer(m))
                      /\ \A r \in Routes(m) :
                             Prefix(r) => Len(r.pattern) <= Len(Answer(m).pattern)
             /\ ~(\E r \in Routes(m) : Exact(r)) /\ ~(\E r \in Routes(m) : Prefix(r))
                   => IF \E r \in Routes(m) : r.pattern = Anything
                      THEN Found(m) \in DOMAIN m.routes /\ Answer(m).pattern = Anything
                      ELSE Found(m) = 0
  <2>2. 0 \notin DOMAIN m.routes
    BY <1>1 DEF IsMux
  <2>3. (\E r \in Routes(m) : Exact(r)) <=> Exactly(m, path, method) # {}
    BY Zenon DEF Exactly, May
  <2>4. (\E r \in Routes(m) : Prefix(r)) <=> Prefixes(m, path, method) # {}
    BY Zenon DEF Prefixes, May
  <2>5. (\E r \in Routes(m) : r.pattern = Anything) <=> CatchAlls(m) # {}
    BY Zenon DEF CatchAlls
  <2>6. /\ Exactly(m, path, method) # {} => Found(m) \in Exactly(m, path, method)
        /\ Exactly(m, path, method) = {} /\ Prefixes(m, path, method) # {}
              => /\ Found(m) \in Prefixes(m, path, method)
                 /\ \A i \in Prefixes(m, path, method) :
                        Len(m.routes[i].pattern) <= Len(Answer(m).pattern)
        /\ Exactly(m, path, method) = {} /\ Prefixes(m, path, method) = {}
              => IF CatchAlls(m) # {} THEN Found(m) \in CatchAlls(m) ELSE Found(m) = 0
    BY <1>1, MatchFinds
  <2>7. ASSUME NEW r \in Routes(m), Prefix(r)
        PROVE  \E i \in Prefixes(m, path, method) : r = m.routes[i]
    BY <2>7, Zenon DEF Prefixes, May
  <2>8. Found(m) \in Prefixes(m, path, method) => Found(m) \in DOMAIN m.routes /\ Prefix(Answer(m))
    BY Zenon DEF Prefixes, May
  <2>9. Found(m) \in Exactly(m, path, method)
            => Found(m) \in DOMAIN m.routes /\ Answer(m).pattern = path
    BY Zenon DEF Exactly, May
  <2>10. Found(m) \in CatchAlls(m) => Found(m) \in DOMAIN m.routes /\ Answer(m).pattern = Anything
    BY Zenon DEF CatchAlls
  <2> HIDE DEF Found, Answer, Routes, Exact, Prefix
  <2> QED BY <2>2, <2>3, <2>4, <2>5, <2>6, <2>7, <2>8, <2>9, <2>10
<1>2. Routes(one) = Routes(other)
  OBVIOUS
<1>3. ASSUME NEW m, IsMux(m), NEW i \in DOMAIN m.routes
      PROVE  m.routes[i] \in Routes(m) /\ Len(m.routes[i].pattern) \in Nat
  BY <1>3 DEF IsMux, Texts
<1>4. CASE \E r \in Routes(one) : Exact(r)
  <2> HIDE DEF Exact
  <2> QED BY <1>1, <1>2, <1>4
<1>5. CASE ~(\E r \in Routes(one) : Exact(r)) /\ \E r \in Routes(one) : Prefix(r)
  <2>1. /\ Found(one) \in DOMAIN one.routes /\ Found(other) \in DOMAIN other.routes
        /\ Prefix(Answer(one)) /\ Prefix(Answer(other))
        /\ \A r \in Routes(one) : Prefix(r) => /\ Len(r.pattern) <= Len(Answer(one).pattern)
                                              /\ Len(r.pattern) <= Len(Answer(other).pattern)
    <3> HIDE DEF Exact, Prefix, Routes, Found, Answer
    <3> QED BY <1>1, <1>2, <1>5
  <2>2. Answer(one) \in Routes(one) /\ Answer(other) \in Routes(one)
        /\ Len(Answer(one).pattern) \in Nat /\ Len(Answer(other).pattern) \in Nat
    BY <1>2, <1>3, <2>1
  <2>3. Len(Answer(one).pattern) = Len(Answer(other).pattern)
    <3> HIDE DEF Prefix, Routes, Answer
    <3> QED BY <2>1, <2>2
  <2>4. /\ Answer(one).pattern = SubSeq(path, 1, Len(Answer(one).pattern))
        /\ Answer(other).pattern = SubSeq(path, 1, Len(Answer(other).pattern))
    BY <2>1, Zenon DEF Covers
  <2> QED BY <2>1, <2>3, <2>4
<1>6. CASE ~(\E r \in Routes(one) : Exact(r)) /\ ~(\E r \in Routes(one) : Prefix(r))
  <2> HIDE DEF Exact, Prefix, Routes
  <2> QED BY <1>1, <1>2, <1>6
<1> QED BY <1>4, <1>5, <1>6
=============================================================================
