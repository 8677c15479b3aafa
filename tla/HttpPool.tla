------------------------------ MODULE HttpPool ------------------------------
(***************************************************************************)
(* The thread-pool HTTP server of barehttp.h: one acceptor (the thread     *)
(* that called http_serve_pool) puts accepted connections into a ring of   *)
(* HTTP_POOL_QUEUE_CAP slots, num_workers threads running                  *)
(* _http_pool_worker take them out and run _http_handle_conn.  The ring is *)
(* guarded by one mutex and two condition variables of baresync.h.         *)
(*                                                                         *)
(* A thread's wait on a condition variable is the pc value "wait" (only    *)
(* workers wait on not_empty, only the acceptor on not_full); "relock" is  *)
(* the second half of condvar_wait, taking the mutex again.  The tail      *)
(* field of _HttpPool is never read or written and is left out, and so is  *)
(* a failed net_accept, which goes straight back to net_accept.            *)
(***************************************************************************)
EXTENDS Integers, FiniteSets, Sequences

CONSTANTS
    Workers,      \* the threads running _http_pool_worker
    acceptor,     \* the thread running http_serve_pool
    Conns,        \* the connections clients open, each accepted once
    Silent,       \* clients that connect and then neither send nor hang up
    Cap,          \* HTTP_POOL_QUEUE_CAP
    MaxSpurious,  \* bound: spurious wakeups of condvar_wait in a behaviour
    None          \* no thread, no connection

Threads == Workers \union {acceptor}

ASSUME PoolAssumption ==
    /\ IsFiniteSet(Workers)
    /\ Cap \in Nat \ {0}
    /\ MaxSpurious \in Nat
    /\ acceptor \notin Workers
    /\ None \notin Threads \union Conns
    /\ Silent \subseteq Conns

VARIABLES
    queue,     \* pool->queue
    head,      \* pool->head
    len,       \* pool->len
    mu,        \* the holder of pool->mu
    pc,        \* the next step of each thread
    conn,      \* each thread's local variable conn
    accepted,  \* the connections net_accept has returned
    answered,  \* the connections whose response was flushed
    closes,    \* how often net_close was called on a connection
    spurious   \* spurious wakeups so far

vars == <<queue, head, len, mu, pc, conn, accepted, answered, closes, spurious>>

Slots == 0..(Cap - 1)
Slot(i) == (head + i) % Cap

AcceptorSteps ==
    {"accept", "lock", "check", "wait", "relock", "put", "grow", "signal", "unlock"}
WorkerSteps ==
    {"lock", "check", "wait", "relock", "read", "advance", "signal", "unlock",
     "alloc", "recv", "respond", "close", "stopped"}

Init ==
    /\ queue = [i \in Slots |-> None]
    /\ head = 0
    /\ len = 0
    /\ mu = None
    /\ pc = [t \in Threads |-> IF t = acceptor THEN "accept" ELSE "lock"]
    /\ conn = [t \in Threads |-> None]
    /\ accepted = {}
    /\ answered = {}
    /\ closes = [c \in Conns |-> 0]
    /\ spurious = 0

----------------------------------------------------------------------------
(* baresync.h *)

Goto(t, from, to) == pc[t] = from /\ pc' = [pc EXCEPT ![t] = to]

\* mutex_lock: blocks until the mutex is free.
Acquire(t) == mu = None /\ mu' = t
\* mutex_unlock, and the first half of condvar_wait.
Release(t) == mu' = None

Waiting(S) == {t \in S : pc[t] = "wait"}

\* condvar_signal on the condition variable the threads S wait on: one waiter
\* wakes and goes to take the mutex; with no waiter the signal is lost.
SignalAndGoto(t, S, to) ==
    IF Waiting(S) = {}
    THEN pc' = [pc EXCEPT ![t] = to]
    ELSE \E w \in Waiting(S) : pc' = [pc EXCEPT ![t] = to, ![w] = "relock"]

\* condvar_wait may return with no signal.
SpuriousWakeup(t) ==
    /\ spurious < MaxSpurious
    /\ spurious' = spurious + 1
    /\ Goto(t, "wait", "relock")
    /\ UNCHANGED <<queue, head, len, mu, conn, accepted, answered, closes>>

Lock(t) ==
    /\ Goto(t, "lock", "check")
    /\ Acquire(t)
    /\ UNCHANGED <<queue, head, len, conn, accepted, answered, closes, spurious>>

Relock_SkipsCheck(t) ==
    /\ Goto(t, "relock", IF t = acceptor THEN "put" ELSE "read")
    /\ Acquire(t)
    /\ UNCHANGED <<queue, head, len, conn, accepted, answered, closes, spurious>>

\* condvar_wait returns holding the mutex, and the while loop tests again.
Relock(t) ==
    /\ Goto(t, "relock", "check")
    /\ Acquire(t)
    /\ UNCHANGED <<queue, head, len, conn, accepted, answered, closes, spurious>>

----------------------------------------------------------------------------
(* http_serve_pool, from net_accept on *)

Accept(c) ==
    /\ c \notin accepted
    /\ Goto(acceptor, "accept", "lock")
    /\ accepted' = accepted \union {c}
    /\ conn' = [conn EXCEPT ![acceptor] = c]
    /\ UNCHANGED <<queue, head, len, mu, answered, closes, spurious>>

AcceptorFull ==
    /\ len >= Cap
    /\ Goto(acceptor, "check", "wait")
    /\ Release(acceptor)
    /\ UNCHANGED <<queue, head, len, conn, accepted, answered, closes, spurious>>

AcceptorRoom ==
    /\ len < Cap
    /\ Goto(acceptor, "check", "put")
    /\ UNCHANGED <<queue, head, len, mu, conn, accepted, answered, closes, spurious>>

Put_IgnoresHead ==
    /\ Goto(acceptor, "put", "grow")
    /\ queue' = [queue EXCEPT ![len % Cap] = conn[acceptor]]
    /\ UNCHANGED <<head, len, mu, conn, accepted, answered, closes, spurious>>

Put ==
    /\ Goto(acceptor, "put", "grow")
    /\ queue' = [queue EXCEPT ![Slot(len)] = conn[acceptor]]
    /\ UNCHANGED <<head, len, mu, conn, accepted, answered, closes, spurious>>

Grow ==
    /\ Goto(acceptor, "grow", "signal")
    /\ len' = len + 1
    /\ conn' = [conn EXCEPT ![acceptor] = None]
    /\ UNCHANGED <<queue, head, mu, accepted, answered, closes, spurious>>

SignalNotEmpty_OnlyFirst ==
    /\ pc[acceptor] = "signal"
    /\ IF len = 1 THEN SignalAndGoto(acceptor, Workers, "unlock")
                  ELSE Goto(acceptor, "signal", "unlock")
    /\ UNCHANGED <<queue, head, len, mu, conn, accepted, answered, closes, spurious>>

SignalNotEmpty ==
    /\ pc[acceptor] = "signal"
    /\ SignalAndGoto(acceptor, Workers, "unlock")
    /\ UNCHANGED <<queue, head, len, mu, conn, accepted, answered, closes, spurious>>

AcceptorUnlock ==
    /\ Goto(acceptor, "unlock", "accept")
    /\ Release(acceptor)
    /\ UNCHANGED <<queue, head, len, conn, accepted, answered, closes, spurious>>

----------------------------------------------------------------------------
(* _http_pool_worker *)

WorkerEmpty(w) ==
    /\ len = 0
    /\ Goto(w, "check", "wait")
    /\ Release(w)
    /\ UNCHANGED <<queue, head, len, conn, accepted, answered, closes, spurious>>

WorkerWork(w) ==
    /\ len # 0
    /\ Goto(w, "check", "read")
    /\ UNCHANGED <<queue, head, len, mu, conn, accepted, answered, closes, spurious>>

Read_Newest(w) ==
    /\ Goto(w, "read", "advance")
    /\ conn' = [conn EXCEPT ![w] = queue[Slot(len - 1)]]
    /\ UNCHANGED <<queue, head, len, mu, accepted, answered, closes, spurious>>

Read(w) ==
    /\ Goto(w, "read", "advance")
    /\ conn' = [conn EXCEPT ![w] = queue[head]]
    /\ UNCHANGED <<queue, head, len, mu, accepted, answered, closes, spurious>>

Advance_NoWrap(w) ==
    /\ Goto(w, "advance", "signal")
    /\ head' = head + 1
    /\ len' = len - 1
    /\ UNCHANGED <<queue, mu, conn, accepted, answered, closes, spurious>>

Advance_KeepsHead(w) ==
    /\ Goto(w, "advance", "signal")
    /\ len' = len - 1
    /\ UNCHANGED <<queue, head, mu, conn, accepted, answered, closes, spurious>>

Advance(w) ==
    /\ Goto(w, "advance", "signal")
    /\ head' = (head + 1) % Cap
    /\ len' = len - 1
    /\ UNCHANGED <<queue, mu, conn, accepted, answered, closes, spurious>>

SignalNotFull_Omitted(w) ==
    /\ Goto(w, "signal", "unlock")
    /\ UNCHANGED <<queue, head, len, mu, conn, accepted, answered, closes, spurious>>

SignalNotFull(w) ==
    /\ pc[w] = "signal"
    /\ SignalAndGoto(w, {acceptor}, "unlock")
    /\ UNCHANGED <<queue, head, len, mu, conn, accepted, answered, closes, spurious>>

WorkerUnlock(w) ==
    /\ Goto(w, "unlock", "alloc")
    /\ Release(w)
    /\ UNCHANGED <<queue, head, len, conn, accepted, answered, closes, spurious>>

\* malloc of the _HttpConnArg or, in _http_handle_conn, of the read buffer:
\* when either fails the connection is closed without a response.
Alloc(w) ==
    /\ \/ Goto(w, "alloc", "recv")
       \/ Goto(w, "alloc", "close")
    /\ UNCHANGED <<queue, head, len, mu, conn, accepted, answered, closes, spurious>>

----------------------------------------------------------------------------
(* _http_handle_conn, run by the worker itself *)

\* net_recv has no timeout: it returns when the client sends or hangs up.  A
\* hang-up, or a request that does not parse, ends without a response.
Recv(w) ==
    /\ conn[w] \notin Silent
    /\ \/ Goto(w, "recv", "respond")
       \/ Goto(w, "recv", "close")
    /\ UNCHANGED <<queue, head, len, mu, conn, accepted, answered, closes, spurious>>

\* The handler (or http_not_found) runs, its response is flushed, and the
\* write side is shut down.
Respond(w) ==
    /\ Goto(w, "respond", "close")
    /\ answered' = answered \union {conn[w]}
    /\ UNCHANGED <<queue, head, len, mu, conn, accepted, closes, spurious>>

Close_LeavesLoop(w) ==
    /\ Goto(w, "close", IF conn[w] \in answered THEN "lock" ELSE "stopped")
    /\ closes' = [closes EXCEPT ![conn[w]] = @ + 1]
    /\ conn' = [conn EXCEPT ![w] = None]
    /\ UNCHANGED <<queue, head, len, mu, accepted, answered, spurious>>

\* net_close, on every path of the handler; then the loop starts over.
Close(w) ==
    /\ Goto(w, "close", "lock")
    /\ closes' = [closes EXCEPT ![conn[w]] = @ + 1]
    /\ conn' = [conn EXCEPT ![w] = None]
    /\ UNCHANGED <<queue, head, len, mu, accepted, answered, spurious>>

----------------------------------------------------------------------------
AcceptorStep ==
    \/ Lock(acceptor) \/ Relock(acceptor)
    \/ AcceptorFull \/ AcceptorRoom
    \/ Put \/ Grow \/ SignalNotEmpty \/ AcceptorUnlock

WorkerStep(w) ==
    \/ Lock(w) \/ Relock(w)
    \/ WorkerEmpty(w) \/ WorkerWork(w)
    \/ Read(w) \/ Advance(w) \/ SignalNotFull(w) \/ WorkerUnlock(w)
    \/ Alloc(w) \/ Recv(w) \/ Respond(w) \/ Close(w)

Next ==
    \/ \E c \in Conns : Accept(c)
    \/ AcceptorStep
    \/ \E w \in Workers : WorkerStep(w)
    \/ \E t \in Threads : SpuriousWakeup(t)

Spec == Init /\ [][Next]_vars

\* Every thread keeps running when it can; clients need not connect, and a
\* spurious wakeup need not happen.
FairSpec ==
    /\ Spec
    /\ WF_vars(AcceptorStep)
    /\ \A w \in Workers : WF_vars(WorkerStep(w))

-----------------------------------------------------------------------------
\* Every variable has its type (the variables of _HttpPool, barehttp.h:1016).
TypeOK ==
    /\ queue \in [Slots -> Conns \union {None}]
    /\ head \in Slots
    /\ len \in 0..Cap
    /\ mu \in Threads \union {None}
    /\ pc \in [Threads -> AcceptorSteps \union WorkerSteps]
    /\ pc[acceptor] \in AcceptorSteps
    /\ \A w \in Workers : pc[w] \in WorkerSteps
    /\ conn \in [Threads -> Conns \union {None}]
    /\ accepted \subseteq Conns
    /\ answered \subseteq Conns
    /\ closes \in [Conns -> Nat]
    /\ spurious \in 0..MaxSpurious

----------------------------------------------------------------------------
\* The waiting connections, as places of the ring: head is the oldest.
Waits(c) == \E i \in 0..(len - 1) : queue[Slot(i)] = c

\* The steps at which a thread owns the connection in its local variable:
\* the acceptor until the ring has it, a worker once the ring has not.
Owning == {"lock", "check", "wait", "relock", "put", "grow"}
Serving == {"signal", "unlock", "alloc", "recv", "respond", "close"}
Owns(t, c) ==
    /\ conn[t] = c
    /\ pc[t] \in IF t = acceptor THEN Owning ELSE Serving

\* An accepted connection is in exactly one place: with the acceptor, in one
\* slot of the ring, with one worker, or closed once.  None is lost, handled
\* by two workers or closed twice (the fd might be another client's by then).
OnePlace ==
    /\ \A i, j \in 0..(len - 1) : queue[Slot(i)] = queue[Slot(j)] => i = j
    /\ \A c \in Conns :
        /\ c \in accepted <=> (\E t \in Threads : Owns(t, c)) \/ Waits(c) \/ closes[c] = 1
        /\ \A t, u \in Threads : Owns(t, c) /\ Owns(u, c) => t = u
        /\ (\E t \in Threads : Owns(t, c)) => ~Waits(c) /\ closes[c] = 0
        /\ Waits(c) => closes[c] = 0
        /\ closes[c] \in {0, 1}

\* A worker reads a slot only from a ring that holds something, the acceptor
\* writes one only into a ring with room: a thread that comes back from
\* condvar_wait finds the ring changed by whoever got the mutex first.
RingBounds ==
    /\ \A w \in Workers : pc[w] \in {"read", "advance"} => len > 0
    /\ pc[acceptor] \in {"put", "grow"} => len < Cap

\* No wakeup is lost on not_empty: while a worker sleeps, every waiting
\* connection has a worker of its own on the way to take it, or the signal
\* for it is about to be sent.
OnTheWay == {w \in Workers : pc[w] \in {"lock", "relock", "check", "read", "advance"}}
NoLostWakeup ==
    Waiting(Workers) # {} =>
        len <= Cardinality(OnTheWay) + (IF pc[acceptor] = "signal" THEN 1 ELSE 0)

\* No wakeup is lost on not_full: the acceptor sleeps only while the ring is
\* full, or the worker that made room is about to signal it.
AcceptorAwake ==
    pc[acceptor] = "wait" => len = Cap \/ \E w \in Workers : pc[w] = "signal"

\* A response is written to a connection only before it is closed (after it
\* the descriptor may be another client's).
UseBeforeClose ==
    [][\A c \in Conns : c \in answered' \ answered => closes[c] = 0]_vars

\* As long as fewer clients are silent than there are workers, every other
\* connection that is accepted is closed in the end.
EventuallyClosed ==
    \A c \in Conns \ Silent : c \in accepted ~> closes[c] = 1

----------------------------------------------------------------------------
(* The pool implements ConnQueue. *)

Line == [i \in 1..len |-> queue[Slot(i - 1)]]
Arriving == {c \in Conns : Owns(acceptor, c)}
InService == {c \in Conns : \E w \in Workers : Owns(w, c)}
Done == {c \in Conns : closes[c] > 0}

Abstract == INSTANCE ConnQueue WITH
    fresh <- Conns \ accepted,
    arriving <- Arriving,
    line <- Line,
    serving <- InService,
    done <- Done

\* Connections are served in the order they were accepted, at most Cap wait,
\* each is served once and closed once.
ImplementsConnQueue == Abstract!Spec
=============================================================================
