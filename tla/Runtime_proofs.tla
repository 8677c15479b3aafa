--------------------------- MODULE Runtime_proofs ---------------------------
(***************************************************************************)
(* Proofs about the lazily initialised mutex and once_run, for any set of  *)
(* threads; about coroutines and their scheduler, for any set of           *)
(* coroutines; about sig_wait_any, for any set of caught signals; about    *)
(* what processes share: what the collecting calls of bareproc.h return,   *)
(* whatever the child writes, closes and ends with, and what the calls of  *)
(* bareos.h answer of a file tree that others change.                      *)
(***************************************************************************)
EXTENDS Sync, Coro, Signals, Proc, Files, SequenceTheorems, TLAPS

-----------------------------------------------------------------------------
(* The mutex *)

MutexSteps ==
    {"out", "claim", "initialise", "publish", "spin", "enter", "in", "try"}
Initialising(t) == mpc[t] \in {"initialise", "publish"}

MutexTypeOK ==
    /\ init \in 0 .. 2
    /\ section \in {"raw", "ready"}
    /\ owner \in Threads \union {None}
    /\ mpc \in [Threads -> MutexSteps]

\* Whoever initialises has moved _init to 1, where it stays until published;
\* past the spin loop it is 2, and stays 2 while anybody is there.
MutexInv ==
    /\ MutexTypeOK
    /\ \A t \in Threads : mpc[t] = "in" <=> owner = t
    /\ \A t \in Threads : Past(t) => init = 2
    /\ \A t \in Threads : Initialising(t) => init = 1
    /\ \A t, u \in Threads : Initialising(t) /\ Initialising(u) => t = u
    /\ \A t \in Threads : mpc[t] = "publish" => section = "ready"
    /\ init = 2 => section = "ready"

\* The lock is free at first.
LEMMA MutexInitInv == MutexInit => MutexInv
    BY SyncAssumption
    DEF MutexInit, MutexInv, MutexTypeOK, MutexSteps, Past, Initialising

\* Every step keeps the lock's inductive invariant.
LEMMA MutexNextInv == MutexInv /\ [MutexNext]_mutexVars => MutexInv'
<1> SUFFICES ASSUME MutexInv, [MutexNext]_mutexVars PROVE MutexInv'
    OBVIOUS
<1> USE SyncAssumption DEF MutexInv, MutexTypeOK, MutexSteps, Past, Initialising, At
<1>1. ASSUME NEW t \in Threads, CallLock(t) PROVE MutexInv'
    BY <1>1 DEF CallLock
<1>2. ASSUME NEW t \in Threads, CallTrylock(t) PROVE MutexInv'
    BY <1>2 DEF CallTrylock
<1>3. ASSUME NEW t \in Threads, Claim(t) PROVE MutexInv'
    BY <1>3 DEF Claim, Claimed
<1>4. ASSUME NEW t \in Threads, Initialise(t) PROVE MutexInv'
    BY <1>4 DEF Initialise
<1>5. ASSUME NEW t \in Threads, Publish(t) PROVE MutexInv'
    BY <1>5 DEF Publish
<1>6. ASSUME NEW t \in Threads, Spin(t) PROVE MutexInv'
    BY <1>6 DEF Spin
<1>7. ASSUME NEW t \in Threads, Enter(t) PROVE MutexInv'
    BY <1>7 DEF Enter
<1>8. ASSUME NEW t \in Threads, Leave(t) PROVE MutexInv'
    BY <1>8 DEF Leave
<1>9. ASSUME NEW t \in Threads, Try(t) PROVE MutexInv'
    BY <1>9 DEF Try
<1>10. CASE Destroy
    BY <1>10 DEF Destroy
<1>11. CASE UNCHANGED mutexVars
    BY <1>11 DEF mutexVars
<1> QED
    BY <1>1, <1>2, <1>3, <1>4, <1>5, <1>6, <1>7, <1>8, <1>9, <1>10, <1>11
    DEF MutexNext

\* The Windows mutex (baresync.h:208-233) is initialised by one thread at a
\* time, never under a thread that is past the spin loop, and excludes.
THEOREM LockIsSound == MutexSpec => []LockSound
<1>1. MutexInv => LockSound
    BY SyncAssumption
    DEF MutexInv, MutexTypeOK, MutexSteps, Past, Initialising, LockSound
<1> QED
    BY <1>1, MutexInitInv, MutexNextInv, PTL DEF MutexSpec

-----------------------------------------------------------------------------
(* once_run *)

OnceSteps == {"out", "lock", "test", "fn", "set", "unlock", "back", "fast"}

OnceTypeOK ==
    /\ done \in BOOLEAN /\ ended \in BOOLEAN
    /\ holder \in Threads \union {None}
    /\ runs \in {0, 1}
    /\ sees \subseteq Threads
    /\ opc \in [Threads -> OnceSteps]
    /\ ordered \in BOOLEAN

\* The mutex of the Once excludes, and what its holder knows between two of
\* its steps; fn has been started exactly when it is done or somebody is
\* between the start and the store to _done.
OnceInv ==
    /\ OnceTypeOK
    /\ \A t \in Threads : opc[t] \in {"test", "fn", "set", "unlock"} <=> holder = t
    /\ done => ended
    /\ runs = 1 /\ ~done => \E t \in Threads : opc[t] \in {"fn", "set"}
    /\ ended /\ ~done => \E t \in Threads : opc[t] = "set"
    /\ \A t \in Threads :
         /\ opc[t] = "test" => (done => t \in sees)
         /\ opc[t] = "fn" => ~done
         /\ opc[t] = "set" => ended /\ t \in sees
         /\ opc[t] \in {"unlock", "back"} => ended /\ t \in sees
         /\ opc[t] = "fast" => ended /\ (ordered => t \in sees)

\* Nobody has run the function at first.
LEMMA OnceInitInv == OnceInit => OnceInv
<1> SUFFICES ASSUME OnceInit PROVE OnceInv
    OBVIOUS
<1>1. OnceTypeOK
    BY DEF OnceInit, OnceTypeOK, OnceSteps
<1>2. \A t \in Threads : opc[t] = "out" /\ holder # t
    BY SyncAssumption DEF OnceInit
<1>3. done = FALSE /\ ended = FALSE /\ runs = 0
    BY DEF OnceInit
<1> QED
    BY <1>1, <1>2, <1>3 DEF OnceInv

\* Every step keeps the inductive invariant of once_run.
LEMMA OnceNextInv == OnceInv /\ [OnceNext]_onceVars => OnceInv'
<1> SUFFICES ASSUME OnceInv, [OnceNext]_onceVars PROVE OnceInv'
    OBVIOUS
<1> USE SyncAssumption DEF OnceInv, OnceTypeOK, OnceSteps, To
<1>1. ASSUME NEW t \in Threads, FastPath(t) PROVE OnceInv'
    BY <1>1 DEF FastPath
<1>2. ASSUME NEW t \in Threads, OnceLock(t) PROVE OnceInv'
    BY <1>2 DEF OnceLock
<1>3. ASSUME NEW t \in Threads, Test(t) PROVE OnceInv'
    BY <1>3 DEF Test, MustRun
<1>4. ASSUME NEW t \in Threads, FnEnds(t) PROVE OnceInv'
    BY <1>4 DEF FnEnds
<1>5. ASSUME NEW t \in Threads, SetDone(t) PROVE OnceInv'
    BY <1>5 DEF SetDone
<1>6. ASSUME NEW t \in Threads, OnceUnlock(t) PROVE OnceInv'
    BY <1>6 DEF OnceUnlock
<1>7. ASSUME NEW t \in Threads, Again(t) PROVE OnceInv'
    BY <1>7 DEF Again
<1>8. CASE UNCHANGED onceVars
    BY <1>8 DEF onceVars
<1> QED
    BY <1>1, <1>2, <1>3, <1>4, <1>5, <1>6, <1>7, <1>8 DEF OnceNext

\* On any machine once_run (baresync.h:188-196) runs fn once, no call returns
\* before fn has ended, and a call that took the mutex sees what fn did; one that
\* did not sees it where the machine keeps the order of stores and of loads.
THEOREM OnceIsExact == OnceSpec => []OnceExact
<1>1. OnceInv => OnceExact
    BY DEF OnceInv, OnceTypeOK, OnceExact
<1>2. OnceInv /\ [OnceNext]_onceVars => OnceInv'
    BY OnceNextInv
<1> QED
    BY <1>1, <1>2, OnceInitInv, PTL DEF OnceSpec

-----------------------------------------------------------------------------
(* Coroutines *)

CoroTypeOK ==
    /\ state \in [Coros -> {"ready", "running", "suspended", "done"}]
    /\ caller \in [Coros -> Coros \union {main}]
    /\ coros \in Seq(Coros)
    /\ spc \in {"out", "pass", "resumed"}
    /\ i \in Nat \ {0}

\* The n running coroutines in the order in which they were resumed: each was
\* resumed by the one below it, the lowest by the main program.
Chain(s, n) ==
    /\ \A j, k \in 1 .. n : s[j] = s[k] => j = k
    /\ \A c \in Coros : state[c] = "running" <=> \E k \in 1 .. n : s[k] = c
    /\ \A k \in 1 .. n : caller[s[k]] = IF k = 1 THEN main ELSE s[k - 1]
    /\ cur = IF n = 0 THEN main ELSE s[n]

\* CoroStack by itself is not inductive: it allows coroutines that wait for each
\* other in a ring, beside the chain that a yield unwinds.
Chained == \E n \in Nat : \E s \in [1 .. n -> Coros] : Chain(s, n)

\* A pass that has resumed nobody has seen only coroutines that are done.
PassSeen ==
    /\ spc = "pass" /\ ~any => \A n \in 1 .. i - 1 : n \in DOMAIN coros => state[coros[n]] = "done"
    /\ spc = "resumed" => any
    /\ spc = "pass" => cur = main

CoroInv == CoroTypeOK /\ Chained /\ PassSeen

\* A chain of resumers is a stack of coroutines.
LEMMA ChainIsStack == CoroTypeOK /\ Chained => CoroStack
<1> SUFFICES ASSUME CoroTypeOK, NEW n \in Nat, NEW s \in [1 .. n -> Coros], Chain(s, n)
             PROVE  CoroStack
    BY DEF Chained
<1> USE CoroAssumption DEF Chain
<1>1. \A c \in RunningCoros : \E k \in 1 .. n : s[k] = c
    BY DEF RunningCoros
<1>2. \A k \in 1 .. n : s[k] \in RunningCoros
    BY DEF RunningCoros
<1>3. cur = main <=> RunningCoros = {}
    BY <1>1, <1>2
<1>4. cur # main => cur \in RunningCoros
    BY <1>2
<1>5. \A k \in 1 .. n : caller[s[k]] \in (RunningCoros \ {s[k]}) \union {main}
    BY <1>2
<1>6. \A j, k \in 1 .. n : caller[s[j]] = caller[s[k]] => j = k
    <2> TAKE j, k \in 1 .. n
    <2>1. j # 1 => j - 1 \in 1 .. n /\ s[j - 1] \in Coros
        OBVIOUS
    <2>2. k # 1 => k - 1 \in 1 .. n /\ s[k - 1] \in Coros
        OBVIOUS
    <2> QED
        BY <2>1, <2>2
<1>7. \A k \in 1 .. n : caller[s[k]] # cur
    <2> TAKE k \in 1 .. n
    <2>1. k # 1 => k - 1 \in 1 .. n /\ s[k - 1] \in Coros
        OBVIOUS
    <2> QED
        BY <2>1
<1> QED
    BY <1>1, <1>3, <1>4, <1>5, <1>6, <1>7 DEF CoroStack

\* Only the main program runs at first.
LEMMA CoroInitInv == CoroInit => CoroInv
<1> SUFFICES ASSUME CoroInit PROVE CoroInv
    OBVIOUS
<1>1. CoroTypeOK
    <2>1. <<>> \in Seq(Coros)
        BY EmptySeq
    <2> QED
        BY <2>1 DEF CoroInit, CoroTypeOK
<1>2. Chain(<<>>, 0)
    BY DEF CoroInit, Chain
<1>3. <<>> \in [1 .. 0 -> Coros]
    OBVIOUS
<1> QED
    BY <1>1, <1>2, <1>3 DEF CoroInit, CoroInv, Chained, PassSeen

\* coro_resume puts the coroutine on top of the chain.
LEMMA ResumeChain ==
    ASSUME CoroTypeOK, Chained, NEW c \in Coros, Resume(c)
    PROVE  Chained' /\ state'[c] = "running"
<1>0. PICK n \in Nat : \E s \in [1 .. n -> Coros] : Chain(s, n)
    BY DEF Chained
<1>1. PICK s \in [1 .. n -> Coros] : Chain(s, n)
    BY <1>0
<1> DEFINE r == [k \in 1 .. n + 1 |-> IF k = n + 1 THEN c ELSE s[k]]
<1>2. r \in [1 .. n + 1 -> Coros] /\ n + 1 \in Nat
    OBVIOUS
<1>3. /\ state' = [state EXCEPT ![c] = "running"]
      /\ caller' = [caller EXCEPT ![c] = cur]
      /\ cur' = c /\ state[c] # "running"
    BY DEF Resume
<1>4. \A k \in 1 .. n : s[k] \in Coros /\ s[k] # c
    BY <1>1, <1>3 DEF Chain
<1>5. Chain(r, n + 1)'
    <2>1. \A j, k \in 1 .. n + 1 : r[j] = r[k] => j = k
        BY <1>1, <1>4 DEF Chain
    <2>2. \A d \in Coros : state'[d] = "running" <=> \E k \in 1 .. n + 1 : r[k] = d
        <3> TAKE d \in Coros
        <3>1. (\E k \in 1 .. n + 1 : r[k] = d) <=> d = c \/ \E k \in 1 .. n : s[k] = d
            OBVIOUS
        <3>2. state'[d] = "running" <=> d = c \/ state[d] = "running"
            BY <1>3 DEF CoroTypeOK
        <3> QED
            BY <1>1, <3>1, <3>2 DEF Chain
    <2>3. \A k \in 1 .. n + 1 : caller'[r[k]] = IF k = 1 THEN main ELSE r[k - 1]
        <3> TAKE k \in 1 .. n + 1
        <3>1. CASE k = n + 1
            BY <1>1, <1>3, <3>1 DEF Chain, CoroTypeOK
        <3>2. CASE k # n + 1
            BY <1>1, <1>3, <1>4, <3>2 DEF Chain, CoroTypeOK
        <3> QED
            BY <3>1, <3>2
    <2>4. cur' = r[n + 1]
        BY <1>3
    <2> HIDE DEF r
    <2> QED
        BY <2>1, <2>2, <2>3, <2>4 DEF Chain
<1> QED
    BY <1>2, <1>3, <1>5 DEF Chained, CoroTypeOK

\* coro_yield and the end of a coroutine take it off.
LEMMA LeaveChain ==
    ASSUME CoroTypeOK, Chained, NEW c \in Coros, NEW st \in {"suspended", "done"},
           cur = c, state' = [state EXCEPT ![c] = st], cur' = caller[c],
           UNCHANGED caller
    PROVE  Chained'
<1>0. PICK n \in Nat : \E s \in [1 .. n -> Coros] : Chain(s, n)
    BY DEF Chained
<1>1. PICK s \in [1 .. n -> Coros] : Chain(s, n)
    BY <1>0
<1>2. n > 0 /\ n - 1 \in Nat /\ s[n] = c
    BY <1>1, CoroAssumption DEF Chain
<1> DEFINE r == [k \in 1 .. n - 1 |-> s[k]]
<1>3. r \in [1 .. n - 1 -> Coros]
    BY <1>2
<1>4. Chain(r, n - 1)'
    <2>1. \A j, k \in 1 .. n - 1 : r[j] = r[k] => j = k
        BY <1>1, <1>2 DEF Chain
    <2>2. \A d \in Coros : state'[d] = "running" <=> \E k \in 1 .. n - 1 : r[k] = d
        <3> TAKE d \in Coros
        <3>1. \A k \in 1 .. n : s[k] = c => k = n
            <4>1. n \in 1 .. n
                BY <1>2
            <4> QED
                BY <1>1, <1>2, <4>1 DEF Chain
        <3>2. \A k \in 1 .. n - 1 : k \in 1 .. n /\ k # n /\ r[k] = s[k]
            BY <1>2
        <3>3. \A k \in 1 .. n : k # n => k \in 1 .. n - 1
            BY <1>2
        <3>4. (\E k \in 1 .. n - 1 : r[k] = d) <=> d # c /\ \E k \in 1 .. n : s[k] = d
            BY <1>2, <3>1, <3>2, <3>3
        <3>5. state'[d] = "running" <=> d # c /\ state[d] = "running"
            BY DEF CoroTypeOK
        <3> QED
            BY <1>1, <3>4, <3>5 DEF Chain
    <2>3. \A k \in 1 .. n - 1 : caller'[r[k]] = IF k = 1 THEN main ELSE r[k - 1]
        BY <1>1, <1>2 DEF Chain
    <2>4. cur' = IF n - 1 = 0 THEN main ELSE r[n - 1]
        <3>1. n \in 1 .. n /\ cur' = caller[s[n]]
            BY <1>2
        <3>2. cur' = IF n = 1 THEN main ELSE s[n - 1]
            BY <1>1, <3>1 DEF Chain
        <3>3. n # 1 => n - 1 # 0 /\ n - 1 \in 1 .. n - 1 /\ r[n - 1] = s[n - 1]
            BY <1>2
        <3> QED
            BY <1>2, <3>2, <3>3
    <2> HIDE DEF r
    <2> QED
        BY <2>1, <2>2, <2>3, <2>4 DEF Chain
<1> QED
    BY <1>2, <1>3, <1>4 DEF Chained

\* Nobody runs while the main program does, so that coro_run_all's resume always
\* has the coroutine's own context to go to.
LEMMA MainRunsAlone ==
    ASSUME CoroTypeOK, Chained, cur = main, NEW c \in Coros
    PROVE  state[c] # "running"
    BY CoroAssumption DEF Chained, Chain

\* A step that leaves the resumers alone leaves the chain.
LEMMA SameChain ==
    ASSUME Chained, UNCHANGED <<state, caller, cur>>
    PROVE  Chained'
    BY DEF Chained, Chain

\* Every step keeps the chain.
LEMMA CoroNextInv == CoroInv /\ [CoroNext]_coroVars => CoroInv'
<1> SUFFICES ASSUME CoroInv, [CoroNext]_coroVars PROVE CoroInv'
    OBVIOUS
<1> USE CoroAssumption
<1>0. CoroTypeOK /\ Chained /\ PassSeen /\ (cur = main \/ cur \in Coros)
    BY DEF CoroInv, Chained, Chain
<1>1. CASE RunAll
    <2>1. Chained'
        BY <1>0, <1>1, SameChain DEF RunAll
    <2>2. i' = 1 /\ spc' = "pass" /\ cur' = main /\ any' = FALSE
        BY <1>1 DEF RunAll
    <2>3. CoroTypeOK' /\ PassSeen'
        BY <1>0, <1>1, <2>2 DEF RunAll, CoroTypeOK, PassSeen
    <2> QED
        BY <2>1, <2>3 DEF CoroInv
<1>2. CASE Turn
    <2>1. coros[i] \in Coros
        BY <1>0, <1>2 DEF Turn, InPass, CoroTypeOK
    <2>2. CASE state[coros[i]] # "done"
        <3>1. Resume(coros[i]) /\ any' = TRUE /\ spc' = "resumed" /\ UNCHANGED <<i, coros>>
            BY <1>2, <2>2 DEF Turn
        <3>2. Chained'
            BY <1>0, <2>1, <3>1, ResumeChain
        <3> QED
            BY <1>0, <2>1, <3>1, <3>2 DEF CoroInv, CoroTypeOK, PassSeen, Resume
    <2>3. CASE state[coros[i]] = "done"
        <3>1. i' = i + 1 /\ UNCHANGED <<state, caller, cur, any, spc, coros>>
            BY <1>2, <2>3 DEF Turn
        <3> QED
            BY <1>0, <2>3, <3>1, SameChain DEF CoroInv, CoroTypeOK, PassSeen
    <2> QED
        BY <2>2, <2>3
<1>3. CASE TurnEnds
    BY <1>0, <1>3, SameChain DEF TurnEnds, CoroInv, CoroTypeOK, PassSeen
<1>4. CASE PassEnds
    <2>1. Chained'
        BY <1>0, <1>4, SameChain DEF PassEnds
    <2>2. CASE any
        BY <1>0, <1>4, <2>1, <2>2 DEF PassEnds, CoroInv, CoroTypeOK, PassSeen
    <2>3. CASE ~any
        BY <1>0, <1>4, <2>1, <2>3 DEF PassEnds, CoroInv, CoroTypeOK, PassSeen
    <2> QED
        BY <2>2, <2>3
<1>5. ASSUME NEW c \in Coros, ResumeDirectly(c) PROVE CoroInv'
    <2>1. Resume(c) /\ UNCHANGED <<coros, spc, i, any>> /\ (cur = main => spc = "out")
        BY <1>5 DEF ResumeDirectly
    <2>2. Chained'
        BY <1>0, <2>1, ResumeChain
    <2>3. CoroTypeOK'
        BY <1>0, <2>1 DEF CoroTypeOK, Resume
    <2>4. \A d \in Coros : state[d] = "done" => state'[d] = "done"
        BY <1>0, <2>1 DEF CoroTypeOK, Resume
    <2>5. PassSeen'
        BY <1>0, <2>1, <2>4 DEF CoroTypeOK, PassSeen
    <2> QED
        BY <2>2, <2>3, <2>5 DEF CoroInv
<1>6. ASSUME NEW c \in Coros, NEW st \in {"suspended", "done"},
             cur = c, state' = [state EXCEPT ![c] = st], cur' = caller[c],
             UNCHANGED <<caller, coros, spc, i, any>>
      PROVE  CoroInv'
    <2>1. Chained' /\ CoroTypeOK'
        BY <1>0, <1>6, LeaveChain DEF CoroTypeOK
    <2>2. state[c] = "running"
        BY <1>0, <1>6 DEF Chained, Chain
    <2>3. \A d \in Coros : state[d] = "done" => state'[d] = "done"
        BY <1>0, <1>6, <2>2 DEF CoroTypeOK
    <2>4. PassSeen'
        BY <1>0, <1>6, <2>3 DEF CoroTypeOK, PassSeen
    <2> QED
        BY <2>1, <2>4 DEF CoroInv
<1>7. ASSUME NEW c \in Coros, Yield(c) PROVE CoroInv'
    BY <1>6, <1>7 DEF Yield, BackToCaller
<1>8. ASSUME NEW c \in Coros, Return(c) PROVE CoroInv'
    BY <1>6, <1>8 DEF Return, BackToCaller
<1>9. ASSUME NEW c \in Coros, SchedAdd(c) PROVE CoroInv'
    <2>1. /\ coros' = Append(coros, c)
          /\ UNCHANGED <<state, caller, cur, spc, i, any>>
          /\ cur = main => spc = "out"
        BY <1>9 DEF SchedAdd
    <2>2. CoroTypeOK'
        BY <1>0, <2>1 DEF CoroTypeOK
    <2> QED
        BY <1>0, <2>1, <2>2, SameChain DEF CoroInv, PassSeen
<1>10. CASE UNCHANGED coroVars
    BY <1>0, <1>10, SameChain DEF coroVars, CoroInv, CoroTypeOK, PassSeen
<1> QED
    BY <1>1, <1>2, <1>3, <1>4, <1>5, <1>7, <1>8, <1>9, <1>10 DEF CoroNext


\* However coroutines resume each other and whoever of them the scheduler holds,
\* the contexts that wait form one chain down to the main program.
THEOREM CoroStackIsChain == CoroSpec => []CoroStack
<1>1. CoroInv => CoroStack
    BY ChainIsStack DEF CoroInv
<1> QED
    BY <1>1, CoroInitInv, CoroNextInv, PTL DEF CoroSpec

\* coro_run_all returns when every coroutine of the scheduler is done.
THEOREM RunAllIsComplete == CoroSpec => RunAllComplete
<1>1. ASSUME CoroInv, [CoroNext]_coroVars
      PROVE  [spc = "pass" /\ spc' = "out" =>
                  \A n \in DOMAIN coros : state[coros[n]] = "done"]_coroVars
    <2> SUFFICES ASSUME CoroNext, spc = "pass", spc' = "out", NEW n \in DOMAIN coros
                 PROVE  state[coros[n]] = "done"
        BY <1>1
    <2>1. CoroTypeOK /\ PassSeen
        BY <1>1 DEF CoroInv
    <2>2. PassEnds
        BY DEF CoroNext, RunAll, Turn, TurnEnds, Resume, ResumeDirectly, Yield, Return, SchedAdd
    <2>3. ~any /\ ~(i <= Len(coros))
        BY <2>2 DEF PassEnds, InPass
    <2>4. n \in 1 .. i - 1
        BY <2>1, <2>3 DEF CoroTypeOK
    <2> QED
        BY <2>1, <2>3, <2>4 DEF PassSeen
<1> QED
    BY <1>1, CoroInitInv, CoroNextInv, PTL DEF CoroSpec, RunAllComplete

-----------------------------------------------------------------------------
(* Signals *)

\* While sig_wait_any looks for what woke it, that signal's flag is set and in
\* front of the scan, unless the flags do not reach to it.
SigInv ==
    /\ flags \subseteq fired \cap Tracked
    /\ program \in {"run", "suspended", "resetting", "scan", "dead"}
    /\ index \in Nat
    /\ waker \in Sigs \union {NoSig}
    /\ program = "suspended" => index = 1
    /\ program = "scan" =>
          /\ index \in 1 .. Track /\ waker # NoSig
          /\ waker \in Tracked => waker \in flags /\ index <= waker

\* No signal has fired at first.
LEMMA SigInitInv == SigInit => SigInv
    BY DEF SigInit, SigInv, NoSig

\* Every step keeps the flags and the waiters together.
LEMMA SigNextInv == SigInv /\ [SigNext]_sigVars => SigInv'
<1> SUFFICES ASSUME SigInv, [SigNext]_sigVars PROVE SigInv'
    OBVIOUS
<1> USE SigAssumption DEF SigInv, NoSig, Tracked
<1>1. ASSUME NEW s \in Sigs, NEW d, Dispose(s, d) PROVE SigInv'
    BY <1>1 DEF Dispose
<1>2. ASSUME NEW s \in Sigs, Arrive(s) PROVE SigInv'
    BY <1>2 DEF Arrive
<1>3. ASSUME NEW s \in Sigs, SigReset(s) PROVE SigInv'
    BY <1>3 DEF SigReset
<1>4. CASE SigResetAll
    BY <1>4 DEF SigResetAll
<1>5. CASE SigWaitAny
    BY <1>5 DEF SigWaitAny
<1>6. CASE ClearNext
    BY <1>6 DEF ClearNext
<1>7. CASE Scan
    BY <1>7 DEF Scan
<1>8. CASE UNCHANGED sigVars
    BY <1>8 DEF sigVars
<1> QED
    BY <1>1, <1>2, <1>3, <1>4, <1>5, <1>6, <1>7, <1>8 DEF SigNext, MainStep

\* sig_wait_any answers with a signal that has fired, and -1 only when no flag
\* is kept of the one that woke it.
THEOREM WaitAnswersFired == SigSpec => WaitFindsFired
<1>1. ASSUME SigInv, [SigNext]_sigVars
      PROVE  [program = "scan" /\ program' = "run" =>
                  IF answer' = -1 THEN waker \notin Tracked ELSE answer' \in fired]_sigVars
    <2> SUFFICES ASSUME SigNext, program = "scan", program' = "run"
                 PROVE  IF answer' = -1 THEN waker \notin Tracked ELSE answer' \in fired
        BY <1>1
    <2>1. Scan
        BY DEF SigNext, MainStep, Dispose, Arrive, SigReset, SigResetAll, SigWaitAny, ClearNext
    <2> QED
        BY <1>1, <2>1, SigAssumption DEF Scan, SigInv, Tracked, NoSig
<1> QED
    BY <1>1, SigInitInv, SigNextInv, PTL DEF SigSpec, WaitFindsFired

-----------------------------------------------------------------------------
(* Child processes *)

Flows ==
    /\ pipe \in [Streams -> Nat]
    /\ wrote \in [Streams -> Nat]
    /\ got \in [Streams -> Nat]

\* A child is blocked in a stream only while it has its end of it open.
ChildHolds ==
    /\ doing \in Streams => Has("child", doing, ChildSide(doing))
    /\ pc = "start" <=> status = "none"
    /\ status = "none" => doing = "run" /\ ends = {}

\* What the collecting loop keeps.  A stream it has closed was at its end: nobody
\* can write to it any more.
Collected ==
    /\ pc \in {"start", "wait", "returned"} \union Outputs
    /\ ends \subseteq IF pc = "start" THEN {} ELSE AfterFork(Wanted)
    /\ pc \in Outputs => Has("parent", pc, "r")
    /\ pc \in {"wait", "returned"} => \A s \in Outputs : ~Has("parent", s, "r")
    /\ pc = "returned" <=> status = "reaped"
    /\ pc = "returned" => ans = code
    /\ pc # "start" => \A s \in Wanted :
          Has("parent", s, "r") \/ (pipe[s] = 0 /\ ~Has("child", s, "w"))
    /\ status \in {"zombie", "reaped"} => code \in ExitCodes

ProcInv == ProcTypeOK /\ Flows /\ ChildHolds /\ (Collecting => Collected)

\* No pipe is open at first.
LEMMA ProcInitInv == ProcInit => ProcInv
    BY ProcAssumption
    DEF ProcInit, ProcInv, ProcTypeOK, Flows, ChildHolds, Collected, Streams, Outputs

\* The inductive invariant is what the caller of a capture relies on.
LEMMA ProcSound == ProcInv => CaptureSound
<1> SUFFICES ASSUME ProcInv, Collecting, pc = "returned"
             PROVE  /\ \A s \in Wanted : got[s] = wrote[s] /\ pipe[s] = 0
                    /\ status = "reaped" /\ ans = code /\ code \in ExitCodes
                    /\ \A e \in ends : e[1] # "parent"
    BY DEF CaptureSound, CaptureComplete, ProcInv
<1>1. Collected
    BY DEF ProcInv
<1>2. Wanted \subseteq Outputs
    BY DEF Wanted, Collecting, Outputs
<1>3. \A s \in Wanted : pipe[s] = 0
    BY <1>1, <1>2 DEF Collected
<1>4. \A s \in Wanted : got[s] = wrote[s]
    BY <1>2, <1>3 DEF ProcInv, ProcTypeOK, Flows, Streams, Outputs
<1>5. \A e \in ends : e[1] # "parent"
    BY <1>1, <1>2 DEF Collected, AfterFork, Outputs, Has, ParentSide
<1> QED
    BY <1>1, <1>3, <1>4, <1>5 DEF Collected

\* The values that a stream's position in the code takes.
LEMMA ProcNames ==
    /\ Outputs = {"out", "err"} /\ Streams = {"in", "out", "err"}
    /\ Reading["out"] = "readOut" /\ Reading["err"] = "readErr"
    /\ ChildSide("in") = "r" /\ ChildSide("out") = "w" /\ ChildSide("err") = "w"
    /\ ParentSide("in") = "w" /\ ParentSide("out") = "r" /\ ParentSide("err") = "r"
    BY DEF Outputs, Streams, Reading, ChildSide, ParentSide

\* After the fork each process holds its own end of every pipe.
LEMMA AfterForkEnds ==
    ASSUME NEW S \in SUBSET Streams
    PROVE  /\ AfterFork(S) \subseteq Holders \X Streams \X {"r", "w"}
           /\ \A s \in S : /\ <<"child", s, ChildSide(s)>> \in AfterFork(S)
                          /\ <<"parent", s, ParentSide(s)>> \in AfterFork(S)
<1>1. \A s \in S : /\ <<"child", s, ChildSide(s)>> \in Holders \X Streams \X {"r", "w"}
                  /\ <<"parent", s, ParentSide(s)>> \in Holders \X Streams \X {"r", "w"}
    BY DEF Holders, ChildSide, ParentSide
<1> QED
    BY <1>1 DEF AfterFork

\* A child is started with the pipes asked for.
LEMMA SpawnInv == ASSUME ProcInv, Spawn PROVE ProcInv'
<1> USE ProcAssumption, ProcNames DEF ProcInv
<1>1. Wanted \in SUBSET Streams
    BY DEF Wanted, ProcTypeOK
<1>2. ends' \subseteq Holders \X Streams \X {"r", "w"}
    BY <1>1, AfterForkEnds DEF Spawn
<1>3. status = "none" /\ doing = "run"
    BY DEF ChildHolds, Spawn
<1>4. ProcTypeOK'
    BY <1>2, <1>3 DEF ProcTypeOK, Spawn
<1>5. ChildHolds' /\ Flows'
    BY <1>3 DEF ChildHolds, Spawn, Flows
<1>6. ASSUME Collecting' PROVE Collected'
    <2>1. Collecting /\ Wanted' = Wanted /\ pc' = "out" /\ "out" \in Wanted
        BY <1>6 DEF Collecting, Spawn, Wanted
    <2>2. \A s \in Wanted : s \in Outputs /\ <<"parent", s, "r">> \in ends'
        BY <1>1, <2>1, AfterForkEnds DEF Spawn, Wanted, Collecting
    <2> QED
        BY <1>3, <2>1, <2>2 DEF Spawn, Collected, Has
<1> QED
    BY <1>4, <1>5, <1>6
\* A chunk that is read moves from the pipe to the buffer.
LEMMA TakeChunkFlows ==
    ASSUME ProcInv, NEW s \in Streams, TakeChunk(s), UNCHANGED wrote
    PROVE  /\ Flows'
           /\ \A t \in Streams : pipe'[t] \in 0 .. PipeCap /\ wrote'[t] = got'[t] + pipe'[t]
           /\ \A t \in Streams : pipe[t] = 0 => pipe'[t] = 0
<1> DEFINE n == Min2(Chunk, pipe[s])
<1>1. pipe' = [pipe EXCEPT ![s] = @ - n] /\ got' = [got EXCEPT ![s] = @ + n]
    BY DEF TakeChunk
<1>2. /\ Flows
      /\ \A t \in Streams : pipe[t] \in 0 .. PipeCap /\ wrote[t] = got[t] + pipe[t]
    BY DEF ProcInv, ProcTypeOK
<1>3. n \in 0 .. pipe[s]
    BY <1>2, ProcAssumption DEF Min2, Flows
<1> HIDE DEF n
<1>4. /\ pipe' \in [Streams -> Nat] /\ got' \in [Streams -> Nat]
      /\ \A t \in Streams : pipe'[t] = (IF t = s THEN pipe[t] - n ELSE pipe[t])
      /\ \A t \in Streams : got'[t] = (IF t = s THEN got[t] + n ELSE got[t])
    BY <1>1, <1>2, <1>3 DEF Flows
<1>5. \A t \in Streams : pipe'[t] \in 0 .. PipeCap /\ wrote'[t] = got'[t] + pipe'[t]
    BY <1>2, <1>3, <1>4, ProcAssumption DEF Flows
<1> QED
    BY <1>2, <1>3, <1>4, <1>5 DEF Flows

\* A read of 0 units is the end of the stream: it is empty and its writers are gone.
LEMMA CollectInv == ASSUME ProcInv, NEW s \in Outputs, Collect(s) PROVE ProcInv'
<1> USE ProcAssumption, ProcNames DEF ProcInv
<1>1. /\ Collecting /\ Collected /\ pc = s /\ CanRead(s) /\ TakeChunk(s)
      /\ IF AtEOF(s) THEN Drop("parent", s, "r") ELSE UNCHANGED ends
      /\ pc' = After(s, {o \in Outputs : <<"parent", o, "r">> \in ends'})
      /\ UNCHANGED <<use, left, wrote, childVars>>
    BY DEF Collect, Collecting
<1>2. UNCHANGED <<use, left, wrote, doing, status, code>>
    BY <1>1 DEF childVars
<1>3. /\ Flows'
      /\ \A t \in Streams : pipe'[t] \in 0 .. PipeCap /\ wrote'[t] = got'[t] + pipe'[t]
      /\ \A t \in Streams : pipe[t] = 0 => pipe'[t] = 0
    BY <1>1, TakeChunkFlows
<1>4. ends' = ends \/ ends' = ends \ {<<"parent", s, "r">>}
    BY <1>1 DEF Drop
<1>5. pc' \in {"wait"} \union Outputs /\ (pc' \in Outputs => <<"parent", pc', "r">> \in ends')
    <2>1. \A o \in Outputs :
              o \in {x \in Outputs : <<"parent", x, "r">> \in ends'} <=> <<"parent", o, "r">> \in ends'
        OBVIOUS
    <2>2. s = "out" \/ s = "err"
        OBVIOUS
    <2> QED
        BY <1>1, <2>1, <2>2 DEF After
<1>6. pc' = "wait" => \A o \in Outputs : <<"parent", o, "r">> \notin ends'
    BY <1>1 DEF After
<1>7. status # "none" /\ status # "reaped"
    BY <1>1 DEF ChildHolds, Collected
<1>8. left \in 0 .. MaxIn /\ ~(left > 0)
    BY <1>1 DEF ProcTypeOK
<1>9. ProcTypeOK'
    <2>1. pc' \in {"start", "idle", "wait", "write", "returned", "killed"}
             \union Outputs \union {Reading[t] : t \in Outputs}
        BY <1>5
    <2>2. ends' \subseteq Holders \X Streams \X {"r", "w"}
        BY <1>4 DEF ProcTypeOK
    <2>3. doing' = "gone" => \A e \in ends' : e[1] # "child"
        BY <1>2, <1>4 DEF ProcTypeOK
    <2> QED
        BY <1>2, <1>3, <1>8, <2>1, <2>2, <2>3 DEF ProcTypeOK
<1>10. ChildHolds'
    BY <1>2, <1>4, <1>5, <1>7 DEF ChildHolds, Has
<1>11. \A t \in Wanted : Has("parent", t, "r")' \/ (pipe'[t] = 0 /\ ~Has("child", t, "w")')
    <2> TAKE t \in Wanted
    <2>1. Wanted \subseteq Outputs
        BY <1>1 DEF Wanted, Collecting
    <2>2. CASE <<"parent", t, "r">> \in ends'
        BY <2>2 DEF Has
    <2>3. CASE <<"parent", t, "r">> \notin ends' /\ <<"parent", t, "r">> \notin ends
        <3>1. pipe[t] = 0 /\ ~Has("child", t, "w")
            BY <1>1, <2>3 DEF Collected, Has
        <3> QED
            BY <1>3, <1>4, <2>1, <3>1 DEF Has
    <2>4. CASE <<"parent", t, "r">> \notin ends' /\ <<"parent", t, "r">> \in ends
        <3>1. t = s /\ AtEOF(s)
            BY <1>1, <2>4 DEF Drop
        <3>2. pipe[t] = 0 /\ ~(pipe[t] > 0)
            BY <3>1 DEF AtEOF
        <3>3. ~Held(t, "w")
            BY <1>1, <3>1, <3>2 DEF CanRead
        <3> QED
            BY <1>3, <1>4, <2>1, <3>2, <3>3 DEF Has, Held
    <2> QED
        BY <2>2, <2>3, <2>4
<1>12. Collected'
    <2>1. Wanted' = Wanted /\ pc # "start"
        BY <1>1, <1>2 DEF Wanted
    <2>2. ends' \subseteq AfterFork(Wanted)
        BY <1>1, <1>4, <2>1 DEF Collected
    <2>3. AfterFork(Wanted') = AfterFork(Wanted)
        BY <2>1
    <2> QED
        BY <1>1, <1>2, <1>5, <1>6, <1>7, <1>11, <2>1, <2>2, <2>3 DEF Collected, Has
<1> QED
    BY <1>3, <1>9, <1>10, <1>12

\* waitpid returns the child's status.
LEMMA WaitInv == ASSUME ProcInv, WaitReturns PROVE ProcInv'
<1> USE ProcAssumption, ProcNames DEF ProcInv
<1>1. /\ UNCHANGED <<use, left, ends, pipe, wrote, got, doing, code>>
      /\ pc = "wait" /\ pc' = IF use = "session" THEN "idle" ELSE "returned"
      /\ status' = "reaped" /\ status \in {"zombie", "reaped"}
      /\ status = "zombie" => ans' = code
    BY DEF WaitReturns, Reap
<1>2. ProcTypeOK' /\ Flows'
    BY <1>1 DEF ProcTypeOK, Flows
<1>3. ChildHolds'
    BY <1>1 DEF ChildHolds, Has
<1>4. ASSUME Collecting' PROVE Collected'
    <2>1. Collecting /\ Collected /\ Wanted' = Wanted /\ pc' = "returned"
        BY <1>1, <1>4 DEF Collecting, Wanted
    <2>2. AfterFork(Wanted') = AfterFork(Wanted)
        BY <2>1
    <2> QED
        BY <1>1, <2>1, <2>2 DEF Collected, Has
<1> QED
    BY <1>2, <1>3, <1>4

\* One write() of proc_write: what it takes from left goes into the pipe.
LEMMA WriteInv == ASSUME ProcInv, WriteSome PROVE ProcInv'
<1>1. /\ pc = "write" /\ use' = use /\ UNCHANGED <<got, doing, status, code>>
      /\ left \in 0 .. MaxIn /\ Flows /\ ChildHolds
      /\ \A t \in Streams : pipe[t] \in 0 .. PipeCap /\ wrote[t] = got[t] + pipe[t]
    BY DEF WriteSome, childVars, ProcInv, ProcTypeOK
<1>2. ~Collecting
    BY <1>1, ProcNames DEF ProcInv, Collected
<1>3. ~Collecting' /\ status # "none"
    BY <1>1, <1>2 DEF Collecting, ChildHolds
<1>4. CASE Held("in", "r")
    <2> DEFINE n == Min2(left, PipeCap - pipe["in"])
    <2>1. /\ n > 0
          /\ pipe' = [pipe EXCEPT !["in"] = @ + n]
          /\ wrote' = [wrote EXCEPT !["in"] = @ + n]
          /\ left' = left - n /\ pc' = (IF left' = 0 THEN "idle" ELSE "write") /\ ends' = ends
        BY <1>1, <1>4 DEF WriteSome
    <2>2. "in" \in Streams /\ pipe["in"] \in 0 .. PipeCap /\ PipeCap \in Nat /\ MaxIn \in Nat
        BY <1>1, ProcNames, ProcAssumption
    <2>3. n \in 0 .. left /\ n <= PipeCap - pipe["in"]
        BY <1>1, <2>1, <2>2 DEF Min2
    <2> HIDE DEF n
    <2>4. /\ pipe' \in [Streams -> Nat] /\ wrote' \in [Streams -> Nat]
          /\ \A t \in Streams : pipe'[t] = (IF t = "in" THEN pipe[t] + n ELSE pipe[t])
          /\ \A t \in Streams : wrote'[t] = (IF t = "in" THEN wrote[t] + n ELSE wrote[t])
        BY <1>1, <2>1, <2>2, <2>3 DEF Flows
    <2>5. \A t \in Streams : pipe'[t] \in 0 .. PipeCap /\ wrote'[t] = got'[t] + pipe'[t]
        <3> TAKE t \in Streams
        <3>1. pipe[t] \in Nat /\ wrote[t] \in Nat /\ got'[t] \in Nat /\ wrote[t] = got'[t] + pipe[t]
            BY <1>1 DEF Flows
        <3>2. CASE t = "in"
            BY <2>2, <2>3, <2>4, <3>1, <3>2
        <3>3. CASE t # "in"
            BY <1>1, <2>4, <3>1, <3>3
        <3> QED
            BY <3>2, <3>3
    <2>6. left' \in 0 .. MaxIn /\ (left' > 0 => pc' = "write") /\ pc' \in {"idle", "write"}
        BY <1>1, <2>1, <2>2, <2>3
    <2>7. ProcTypeOK'
        BY <1>1, <2>1, <2>5, <2>6 DEF ProcInv, ProcTypeOK
    <2> QED
        BY <1>1, <1>3, <2>1, <2>4, <2>6, <2>7 DEF ProcInv, Flows, ChildHolds, Has
<1>5. CASE ~Held("in", "r")
    <2>1. left' = 0 /\ UNCHANGED <<pipe, wrote>> /\ pc' \in {"idle", "killed"}
        BY <1>5 DEF WriteSome
    <2>2. ends' = ends \/ ends' = {e \in ends : e[1] # "parent"}
        BY <1>5 DEF WriteSome
    <2>3. /\ ends' \subseteq ends
          /\ \A s, x : <<"child", s, x>> \in ends' <=> <<"child", s, x>> \in ends
        BY <2>2
    <2>4. ProcTypeOK'
        BY <1>1, <2>1, <2>3, ProcAssumption DEF ProcInv, ProcTypeOK
    <2> QED
        BY <1>1, <1>3, <2>1, <2>3, <2>4 DEF ProcInv, Flows, ChildHolds, Has
<1> QED
    BY <1>4, <1>5

\* The calls on a child that is not collected.
LEMMA CallerInv == ASSUME ProcInv, Caller \/ WriteSome \/ \E s \in Outputs : ReadReturns(s)
                   PROVE  ProcInv'
<1> USE ProcAssumption, ProcNames DEF ProcInv
<1>1. ASSUME StartWait \/ Running \/ CloseStdin \/ (\E s \in Outputs : StartRead(s))
             \/ (\E n \in 1 .. MaxIn : StartWrite(n)) \/ SpawnOther
      PROVE  ProcInv'
    <2>1. use = "session" /\ use' = use /\ pc = "idle" /\ status # "none"
        BY <1>1 DEF StartWait, Running, CloseStdin, StartRead, StartWrite, SpawnOther, Calls,
           ChildHolds
    <2>2. UNCHANGED <<pipe, wrote, got, doing, code>>
        BY <1>1 DEF StartWait, Running, CloseStdin, StartRead, StartWrite, SpawnOther, childVars
    <2>3. status' = status \/ (status = "zombie" /\ status' = "reaped")
        BY <1>1 DEF StartWait, Running, CloseStdin, StartRead, StartWrite, SpawnOther, Reap, childVars
    <2>4. /\ pc' \in {"idle", "wait", "write", "readOut", "readErr"}
          /\ left' \in 0 .. MaxIn /\ (left' > 0 => pc' = "write")
        <3>1. left \in 0 .. MaxIn /\ ~(left > 0)
            BY <2>1 DEF ProcTypeOK
        <3>2. ASSUME NEW n \in 1 .. MaxIn, StartWrite(n)
              PROVE  left' = n /\ pc' = "write"
            BY <3>2 DEF StartWrite, Calls
        <3>3. ASSUME NEW s \in Outputs, StartRead(s)
              PROVE  left' = left /\ pc' \in {"readOut", "readErr"}
            BY <3>3 DEF StartRead, Calls
        <3>4. ASSUME StartWait \/ Running \/ CloseStdin \/ SpawnOther
              PROVE  left' = left /\ pc' \in {"idle", "wait"}
            BY <3>4 DEF StartWait, Running, CloseStdin, SpawnOther, Calls
        <3> QED
            BY <1>1, <3>1, <3>2, <3>3, <3>4
    <2>5. /\ \A s, x : <<"child", s, x>> \in ends' <=> <<"child", s, x>> \in ends
          /\ ends' \subseteq Holders \X Streams \X {"r", "w"}
          /\ (\A e \in ends : e[1] # "child") => \A e \in ends' : e[1] # "child"
        <3>1. CASE UNCHANGED ends
            BY <3>1 DEF ProcTypeOK
        <3>2. CASE CloseStdin
            BY <3>2 DEF CloseStdin, Drop, ProcTypeOK
        <3>3. CASE SpawnOther
            <4> DEFINE new == {<<"other", e[2], e[3]>> : e \in {f \in ends : f[1] = "parent"}}
            <4>1. ends' = ends \union new
                BY <3>3 DEF SpawnOther
            <4>2. \A e \in ends : e[2] \in Streams /\ e[3] \in {"r", "w"}
                BY DEF ProcTypeOK
            <4>3. \A f \in ends : /\ <<"other", f[2], f[3]>> \in Holders \X Streams \X {"r", "w"}
                                  /\ \A x, y : <<"other", f[2], f[3]>> # <<"child", x, y>>
                BY <4>2 DEF Holders
            <4>4. \A e \in new : \E f \in ends : e = <<"other", f[2], f[3]>>
                OBVIOUS
            <4> HIDE DEF new
            <4>5. new \subseteq Holders \X Streams \X {"r", "w"}
                BY <4>3, <4>4
            <4>6. \A x, y : <<"child", x, y>> \notin new
                BY <4>3, <4>4
            <4>7. \A e \in new : e[1] # "child"
                BY <4>4
            <4> QED
                BY <4>1, <4>5, <4>6, <4>7 DEF ProcTypeOK
        <3> QED
            BY <1>1, <3>1, <3>2, <3>3 DEF StartWait, Running, StartRead, StartWrite
    <2>6. ProcTypeOK'
        BY <2>1, <2>2, <2>3, <2>4, <2>5 DEF ProcTypeOK
    <2>7. ChildHolds' /\ Flows' /\ ~Collecting'
        BY <2>1, <2>2, <2>3, <2>4, <2>5 DEF ChildHolds, Has, Flows, Collecting
    <2> QED
        BY <2>6, <2>7
<1>2. CASE Kill
    <2>1. /\ use' = use /\ ~Collecting /\ pc = "idle" /\ pc' = "idle" /\ status # "none"
          /\ UNCHANGED <<left, pipe, wrote, got>>
        BY <1>2 DEF Kill, Calls, ChildHolds, Collecting
    <2>2. CASE status = "running"
        <3>1. status' = "zombie" /\ doing' = "gone" /\ ends' = {e \in ends : e[1] # "child"}
            BY <1>2, <2>2 DEF Kill, ChildEnds
        <3> QED
            BY <2>1, <3>1 DEF ProcTypeOK, Flows, ChildHolds, Collecting
    <2>3. CASE status # "running"
        <3>1. UNCHANGED <<status, doing, ends>>
            BY <1>2, <2>3 DEF Kill, childVars
        <3> QED
            BY <2>1, <3>1 DEF ProcTypeOK, Flows, ChildHolds, Collecting, Has
    <2> QED
        BY <2>2, <2>3
<1>3. CASE WriteSome
    BY <1>3, WriteInv
<1>4. ASSUME NEW s \in Outputs, ReadReturns(s) PROVE ProcInv'
    <2>1. /\ pc = Reading[s] /\ pc' = "idle" /\ TakeChunk(s)
          /\ UNCHANGED <<use, left, ends, wrote, doing, status, code>>
        BY <1>4 DEF ReadReturns, childVars
    <2>2. pc # "start" /\ pc # "write" /\ pc \notin {"start", "wait", "returned"} \union Outputs
        BY <2>1
    <2>3. ~Collecting /\ ~Collecting' /\ status # "none"
        BY <2>1, <2>2 DEF Collected, Collecting, ChildHolds
    <2>4. Flows' /\ \A t \in Streams : pipe'[t] \in 0 .. PipeCap /\ wrote'[t] = got'[t] + pipe'[t]
        BY <2>1, TakeChunkFlows
    <2> QED
        BY <2>1, <2>2, <2>3, <2>4 DEF ProcTypeOK, ChildHolds, Has
<1> QED
    BY <1>1, <1>2, <1>3, <1>4 DEF Caller
\* A collected child never writes into a closed pipe: while it is blocked in a
\* stream it holds the write end, and the parent keeps the read end of such a one.
LEMMA CollectedIsRead ==
    ASSUME ProcInv, Collecting, NEW s \in Outputs, doing = s
    PROVE  Held(s, "r")
<1>1. Collected /\ ChildHolds /\ s \in Streams /\ ChildSide(s) = "w"
    BY ProcNames DEF ProcInv
<1>2. <<"child", s, "w">> \in ends /\ pc # "start"
    BY <1>1, ProcNames DEF ChildHolds, Has
<1>3. s \in Wanted
    BY <1>1, <1>2 DEF Collected, AfterFork
<1> QED
    BY <1>1, <1>2, <1>3 DEF Collected, Has, Held

\* A child that ends closes its ends.
LEMMA ChildEndsInv ==
    ASSUME ProcInv, NEW c, ChildEnds(c), status = "running", UNCHANGED <<parentVars, pipe, wrote, got>>,
           Collecting => c \in ExitCodes
    PROVE  ProcInv'
<1> USE ProcNames DEF ProcInv
<1>1. /\ status' = "zombie" /\ doing' = "gone" /\ code' = c /\ ends' = {e \in ends : e[1] # "child"}
      /\ UNCHANGED <<use, pc, left, ans>>
    BY DEF ChildEnds, parentVars
<1>2. /\ ends' \subseteq ends /\ \A e \in ends' : e[1] # "child"
      /\ \A s, x : <<"parent", s, x>> \in ends' <=> <<"parent", s, x>> \in ends
    BY <1>1
<1>3. ProcTypeOK' /\ Flows'
    BY <1>1, <1>2 DEF ProcTypeOK, Flows
<1>4. ChildHolds'
    BY <1>1 DEF ChildHolds
<1>5. ASSUME Collecting' PROVE Collected'
    <2>1. Collecting /\ Collected /\ Wanted' = Wanted
        BY <1>1, <1>5 DEF Collecting, Wanted
    <2>2. AfterFork(Wanted') = AfterFork(Wanted)
        BY <2>1
    <2>3. \A s : Has("child", s, "w")' => Has("child", s, "w")
        BY <1>2 DEF Has
    <2>4. \A s : Has("parent", s, "r")' <=> Has("parent", s, "r")
        BY <1>2 DEF Has
    <2>5. \A s \in Wanted' : Has("parent", s, "r")' \/ (pipe'[s] = 0 /\ ~Has("child", s, "w")') \/ pc' = "start"
        BY <1>1, <2>1, <2>3, <2>4 DEF Collected
    <2>6. ends' \subseteq IF pc' = "start" THEN {} ELSE AfterFork(Wanted)
        BY <1>1, <1>2, <2>1 DEF Collected
    <2>7. pc # "returned"
        BY <2>1 DEF Collected
    <2> QED
        BY <1>1, <2>1, <2>2, <2>4, <2>5, <2>6, <2>7 DEF Collected
<1> QED
    BY <1>3, <1>4, <1>5

\* Steps of a running child, or of the other one, that close an end or move a
\* unit through a stream the child holds.
LEMMA StreamInv ==
    ASSUME ProcInv, Flows', UNCHANGED <<parentVars, status, code>>, status # "none",
           \A t \in Streams : pipe'[t] \in 0 .. PipeCap /\ wrote'[t] = got'[t] + pipe'[t],
           \A t \in Outputs : pipe[t] = 0 /\ ~Has("child", t, "w") => pipe'[t] = 0,
           ends' \subseteq ends,
           \A s, x : <<"parent", s, x>> \in ends' <=> <<"parent", s, x>> \in ends,
           doing' \in Streams \union {"run", "gone"},
           doing' = "gone" <=> doing = "gone",
           doing' \in Streams => <<"child", doing', ChildSide(doing')>> \in ends'
    PROVE  ProcInv'
<1> USE ProcNames DEF ProcInv
<1>1. UNCHANGED <<use, pc, left, ans>>
    BY DEF parentVars
<1>2. ProcTypeOK'
    BY <1>1 DEF ProcTypeOK
<1>3. ChildHolds'
    BY <1>1 DEF ChildHolds, Has
<1>4. ASSUME Collecting' PROVE Collected'
    <2>1. Collecting /\ Collected /\ Wanted' = Wanted /\ Wanted \subseteq Outputs
        BY <1>1, <1>4 DEF Collecting, Wanted
    <2>2. AfterFork(Wanted') = AfterFork(Wanted)
        BY <2>1
    <2>3. \A s : Has("child", s, "w")' => Has("child", s, "w")
        BY DEF Has
    <2>4. \A s : Has("parent", s, "r")' <=> Has("parent", s, "r")
        BY DEF Has
    <2>5. \A s \in Wanted' : Has("parent", s, "r")' \/ (pipe'[s] = 0 /\ ~Has("child", s, "w")') \/ pc' = "start"
        BY <1>1, <2>1, <2>3, <2>4 DEF Collected
    <2>6. ends' \subseteq IF pc' = "start" THEN {} ELSE AfterFork(Wanted)
        BY <1>1, <2>1 DEF Collected
    <2> QED
        BY <1>1, <2>1, <2>2, <2>4, <2>5, <2>6 DEF Collected
<1> QED
    BY <1>2, <1>3, <1>4

\* The steps of the child and of other processes.
LEMMA ChildInv == ASSUME ProcInv, Child \/ OtherExits PROVE ProcInv'
<1> USE ProcNames
<1>0. /\ Flows /\ ProcTypeOK /\ ChildHolds
      /\ \A t \in Streams : pipe[t] \in 0 .. PipeCap /\ wrote[t] = got[t] + pipe[t]
    BY DEF ProcInv, ProcTypeOK
<1>1. ASSUME NEW s \in Streams, ChildStarts(s) PROVE ProcInv'
    <2>1. /\ status = "running" /\ doing = "run" /\ doing' = s /\ Has("child", s, ChildSide(s))
          /\ UNCHANGED <<parentVars, ends, pipe, wrote, got, status, code>>
        BY <1>1 DEF ChildStarts
    <2>2. <<"child", doing', ChildSide(doing')>> \in ends'
        BY <2>1 DEF Has
    <2>3. Flows'
        BY <1>0, <2>1 DEF Flows
    <2> QED
        BY <1>0, <2>1, <2>2, <2>3, StreamInv
<1>2. ASSUME NEW s \in Outputs, ChildWrites(s) PROVE ProcInv'
    <2>1. doing = s /\ status = "running" /\ UNCHANGED <<parentVars, got>>
        BY <1>0, <1>2 DEF ChildWrites, ProcTypeOK, ChildHolds
    <2>2. Has("child", s, "w")
        BY <1>0, <2>1 DEF ChildHolds
    <2>3. CASE Held(s, "r")
        <3>1. /\ pipe[s] < PipeCap
              /\ pipe' = [pipe EXCEPT ![s] = @ + 1] /\ wrote' = [wrote EXCEPT ![s] = @ + 1]
              /\ doing' = "run" /\ UNCHANGED <<ends, status, code>>
            BY <1>2, <2>3 DEF ChildWrites
        <3>2. Flows'
            BY <1>0, <2>1, <3>1 DEF Flows
        <3>3. \A t \in Streams : pipe'[t] \in 0 .. PipeCap /\ wrote'[t] = got'[t] + pipe'[t]
            BY <1>0, <2>1, <3>1, ProcAssumption DEF Flows
        <3>4. \A t \in Outputs : pipe[t] = 0 /\ ~Has("child", t, "w") => pipe'[t] = 0
            BY <1>0, <2>2, <3>1 DEF Flows
        <3> QED
            BY <2>1, <3>1, <3>2, <3>3, <3>4, StreamInv
    <2>4. CASE ~Held(s, "r")
        <3>1. ~Collecting
            BY <2>1, <2>4, CollectedIsRead
        <3>2. ChildEnds(128 + 13) /\ UNCHANGED <<pipe, wrote>>
            BY <1>2, <2>4 DEF ChildWrites
        <3> QED
            BY <2>1, <3>1, <3>2, ChildEndsInv
    <2> QED
        BY <2>3, <2>4
<1>3. CASE ChildReads
    <2>1. /\ doing = "in" /\ doing' = "run" /\ status = "running"
          /\ UNCHANGED <<parentVars, wrote, status, code>>
        BY <1>0, <1>3 DEF ChildReads, ProcTypeOK, ChildHolds
    <2>2. CASE pipe["in"] > 0
        <3>1. /\ pipe' = [pipe EXCEPT !["in"] = @ - 1] /\ got' = [got EXCEPT !["in"] = @ + 1]
              /\ UNCHANGED ends
            BY <1>3, <2>2 DEF ChildReads
        <3>2. Flows'
            BY <1>0, <2>1, <2>2, <3>1 DEF Flows
        <3>3. \A t \in Streams : pipe'[t] \in 0 .. PipeCap /\ wrote'[t] = got'[t] + pipe'[t]
            BY <1>0, <2>1, <2>2, <3>1, ProcAssumption DEF Flows
        <3>4. \A t \in Outputs : pipe'[t] = pipe[t]
            BY <1>0, <3>1 DEF Flows
        <3> QED
            BY <2>1, <3>1, <3>2, <3>3, <3>4, StreamInv
    <2>3. CASE ~(pipe["in"] > 0)
        <3>1. UNCHANGED <<pipe, got>> /\ ends' = ends \ {<<"child", "in", "r">>}
            BY <1>3, <2>3 DEF ChildReads, Drop
        <3>2. Flows'
            BY <1>0, <2>1, <3>1 DEF Flows
        <3>3. /\ ends' \subseteq ends
              /\ \A s, x : <<"parent", s, x>> \in ends' <=> <<"parent", s, x>> \in ends
            BY <3>1
        <3> QED
            BY <1>0, <2>1, <3>1, <3>2, <3>3, StreamInv
    <2> QED
        BY <2>2, <2>3
<1>4. ASSUME (\E s \in Outputs : ChildCloses(s)) \/ OtherExits PROVE ProcInv'
    <2>1. UNCHANGED <<parentVars, pipe, wrote, got, doing, status, code>>
        BY <1>4 DEF ChildCloses, OtherExits, childVars
    <2>2. /\ ends' \subseteq ends
          /\ \A s, x : <<"parent", s, x>> \in ends' <=> <<"parent", s, x>> \in ends
        BY <1>4 DEF ChildCloses, OtherExits, Drop
    <2>3. status # "none"
        BY <1>0, <1>4 DEF ChildCloses, OtherExits, Has, ChildHolds
    <2>4. doing \in Streams => <<"child", doing, ChildSide(doing)>> \in ends'
        BY <1>0, <1>4 DEF ChildCloses, OtherExits, Has, ChildHolds
    <2>5. Flows'
        BY <1>0, <2>1 DEF Flows
    <2> QED
        BY <1>0, <2>1, <2>2, <2>3, <2>4, <2>5, StreamInv DEF ProcTypeOK
<1>5. ASSUME NEW c \in ExitCodes, ChildExits(c) PROVE ProcInv'
    BY <1>5, ChildEndsInv DEF ChildExits
<1> QED
    BY <1>1, <1>2, <1>3, <1>4, <1>5 DEF Child

\* Every step keeps the inductive invariant.
LEMMA ProcNextInv == ProcInv /\ [ProcNext]_procVars => ProcInv'
<1> SUFFICES ASSUME ProcInv, [ProcNext]_procVars PROVE ProcInv'
    OBVIOUS
<1>1. CASE UNCHANGED procVars
    <2>1. UNCHANGED <<use, pc, left, ans, ends, pipe, wrote, got, doing, status, code>>
        BY <1>1 DEF procVars, parentVars, childVars
    <2>2. Wanted' = Wanted
        BY <2>1 DEF Wanted
    <2>3. AfterFork(Wanted') = AfterFork(Wanted)
        BY <2>2
    <2> QED
        BY <2>1, <2>2, <2>3 DEF ProcInv, ProcTypeOK, Flows, ChildHolds, Has, Collecting, Collected
<1> QED
    BY <1>1, SpawnInv, CollectInv, WaitInv, CallerInv, ChildInv DEF ProcNext, Parent

\* proc_run_capture and proc_run_stdout return with all their child wrote and with
\* its exit code, and leave no zombie and no descriptor, whatever the child does.
THEOREM CaptureIsSound == ProcSpec => []CaptureSound
    BY ProcInitInv, ProcNextInv, ProcSound, PTL DEF ProcSpec

-----------------------------------------------------------------------------
(* The file tree *)

Kinds == {"dir", "file", "link"}

TreeOK ==
    /\ DOMAIN dir \subseteq Seq(Names)
    /\ Kind(<<>>) = "dir"
    /\ \A p \in DOMAIN dir : dir[p] \in DOMAIN node
    /\ \A m \in DOMAIN node :
          /\ node[m] = Node(node[m].kind, node[m].data) /\ node[m].kind \in Kinds
          /\ node[m].kind = "file" => node[m].data \in Seq(Letters)

\* A call of os_write_file has its file, one of os_read_file the size it has if
\* nobody wrote to it.
WriteOK(c) ==
    /\ c.inode \in DOMAIN node /\ node[c.inode].kind = "file"
    /\ c.data \in Seq(Letters)

ReadOK(c, T) ==
    /\ c.inode \in DOMAIN node /\ node[c.inode].kind = "file"
    /\ c.size \in Nat \ {0}
    /\ Written(c.inode) \notin T => Len(node[c.inode].data) = c.size

\* os_mkdir_all has directories behind it, or the reason why it will fail.
Blocked(p, d) == \E m \in 1 .. d - 1 : Kind(SubSeq(p, 1, m)) \in {"file", "link"}
Passable(p, d) == \A m \in 1 .. d - 1 : Kind(SubSeq(p, 1, m)) = "dir"
Unlost(p, T) == \A m \in 1 .. Len(p) : Lost(SubSeq(p, 1, m)) \notin T

MkdirAllOK(c, T) ==
    /\ c.path \in Seq(Names) /\ c.depth \in 1 .. Len(c.path)
    /\ Unlost(c.path, T) => c.full \/ Blocked(c.path, c.depth) \/ Passable(c.path, c.depth)

\* What os_readdir has of an entry nobody touched: its name still to look at, its
\* target still to read, or all of it.
Inside(p) == {q \in Seq(Names) \ {<<>>} : Front(q) = p}
About(infos, q) == {m \in infos : m.path = q}
Truth(q) == IF Exists(q) THEN {Info(q, Kind(q), ReadLink(q))} ELSE {}

EntryOK(c, q) ==
    /\ q \in c.left => Exists(q) /\ About(c.infos, q) = {} /\ About(c.link, q) = {}
    /\ q \notin c.left /\ About(c.link, q) # {} => Kind(q) = "link" /\ About(c.infos, q) = {}
    /\ q \notin c.left /\ About(c.link, q) = {} => About(c.infos, q) = Truth(q)

ReaddirOK(c, T) ==
    /\ c.path \in Seq(Names)
    /\ c.left \subseteq Inside(c.path)
    /\ c.link = {} \/ \E l : c.link = {l}
    /\ \A l \in c.link : l = Info(l.path, "link", l.target)
    /\ \A l \in c.link \cup c.infos : l.path \in Inside(c.path)
    /\ \A q \in Inside(c.path) : Made(q) \notin T /\ Lost(q) \notin T => EntryOK(c, q)

CallOK(c, T) ==
    /\ c.call \in {"none", "done", "write", "read", "mkdir_all", "readdir"}
    /\ c.call = "write" => WriteOK(c)
    /\ c.call = "read" => ReadOK(c, T)
    /\ c.call = "mkdir_all" => MkdirAllOK(c, T)
    /\ c.call = "readdir" => ReaddirOK(c, T)

FilesInv ==
    /\ TreeOK
    /\ \A y \in Procs : CallOK(proc[y], touched[y])
    /\ FilesSound

-----------------------------------------------------------------------------
(* A step on the tree *)

\* The tree changes in the things H at most.
Changes(H) ==
    /\ \A m \in DOMAIN node :
          /\ m \in DOMAIN node' /\ node'[m].kind = node[m].kind
          /\ node'[m].data = node[m].data \/ (Written(m) \in H /\ node[m].kind = "file")
    /\ \A q : Made(q) \notin H /\ Lost(q) \notin H =>
          (q \in DOMAIN dir' <=> q \in DOMAIN dir)
    /\ \A q \in DOMAIN dir : Lost(q) \notin H => q \in DOMAIN dir' /\ dir'[q] = dir[q]

\* The things are told from each other.
LEMMA ThingsDiffer ==
    ASSUME NEW p, NEW q
    PROVE  /\ Made(p) # Lost(q) /\ Made(p) # Written(q) /\ Lost(p) # Written(q)
           /\ Made(p) = Made(q) => p = q
           /\ Lost(p) = Lost(q) => p = q
           /\ Written(p) = Written(q) => p = q
<1>1. \A a, b, c, d : <<a, b>> = <<c, d>> => a = c /\ b = d
    OBVIOUS
<1> QED
    BY <1>1 DEF Made, Lost, Written

\* What was not lost keeps its kind and a link its target.
LEMMA KeptIsSame ==
    ASSUME TreeOK, NEW H, Changes(H), NEW q, Exists(q), Lost(q) \notin H
    PROVE  Exists(q)' /\ Kind(q)' = Kind(q) /\ ReadLink(q)' = ReadLink(q)
<1>1. q \in DOMAIN dir' /\ dir'[q] = dir[q]
    BY DEF Changes, Exists
<1>2. dir[q] \in DOMAIN node
    BY DEF TreeOK, Exists
<1>3. Kind(q)' = Kind(q)
    BY <1>1, <1>2 DEF Changes, Kind, Exists
<1>4. Kind(q) = "link" => Data(q)' = Data(q)
    BY <1>1, <1>2 DEF Changes, Kind, Exists, Data
<1> QED
    BY <1>1, <1>3, <1>4 DEF ReadLink, Exists

\* What was neither made nor lost is as it was.
LEMMA UntouchedIsSame ==
    ASSUME TreeOK, NEW H, Changes(H), NEW q, Made(q) \notin H, Lost(q) \notin H
    PROVE  Exists(q)' = Exists(q) /\ Kind(q)' = Kind(q) /\ ReadLink(q)' = ReadLink(q)
<1>1. q \in DOMAIN dir' <=> q \in DOMAIN dir
    BY DEF Changes
<1>2. CASE Exists(q)
    BY <1>1, <1>2, KeptIsSame DEF Exists
<1>3. CASE ~Exists(q)
    BY <1>1, <1>3 DEF Exists, Kind, ReadLink
<1> QED
    BY <1>2, <1>3

\* A call that others' steps pass by is as far as it was.
LEMMA PassedBy ==
    ASSUME TreeOK, NEW H, Changes(H), NEW c, NEW T, NEW U, CallOK(c, T),
           c.call \notin {"none", "done"},
           U = T \cup {h \in H : Matters(h, c)}
    PROVE  CallOK(c, U)'
<1>1. CASE c.call = "write"
    BY <1>1 DEF CallOK, WriteOK, Changes
<1>2. CASE c.call = "read"
    <2>1. Written(c.inode) \in H => Written(c.inode) \in U
        BY <1>2 DEF Matters
    <2> QED
        BY <1>2, <2>1 DEF CallOK, ReadOK, Changes
<1>3. CASE c.call = "mkdir_all"
    <2>1. /\ MkdirAllOK(c, T)
          /\ c.path \in Seq(Names) /\ c.depth \in 1 .. Len(c.path)
        BY <1>3 DEF CallOK, MkdirAllOK
    <2>2. SUFFICES ASSUME Unlost(c.path, U)
                   PROVE  (c.full \/ Blocked(c.path, c.depth) \/ Passable(c.path, c.depth))'
        BY <1>3, <2>1 DEF CallOK, MkdirAllOK, Unlost, Lost
    <2>3. Unlost(c.path, T)
        BY <2>2 DEF Unlost
    <2>4. ASSUME NEW m \in 1 .. c.depth - 1 PROVE Lost(SubSeq(c.path, 1, m)) \notin H
        <3> DEFINE r == SubSeq(c.path, 1, m)
        <3>1. m \in 1 .. Len(c.path) /\ m \in Nat
            BY <2>1, <2>4
        <3>2. Len(r) = m /\ SubSeq(r, 1, m) = r /\ IsPrefix(r, c.path)
            BY <2>1, <3>1 DEF IsPrefix
        <3>3. Lost(r) \in H => Lost(r) \in U
            BY <1>3, <3>2 DEF Matters, Lost
        <3> QED
            BY <2>2, <3>1, <3>3 DEF Unlost
    <2>5. ASSUME NEW m \in 1 .. c.depth - 1, Kind(SubSeq(c.path, 1, m)) \in Kinds
          PROVE  Kind(SubSeq(c.path, 1, m))' = Kind(SubSeq(c.path, 1, m))
        <3>1. Exists(SubSeq(c.path, 1, m))
            BY <2>5 DEF Kind, Kinds
        <3> QED
            BY <2>4, <3>1, KeptIsSame
    <2> QED
        BY <2>1, <2>3, <2>5 DEF MkdirAllOK, Blocked, Passable, Kinds
<1>4. CASE c.call = "readdir"
    <2>1. ReaddirOK(c, T)
        BY <1>4 DEF CallOK
    <2>2. ASSUME NEW q \in Inside(c.path), Made(q) \notin U, Lost(q) \notin U
          PROVE  EntryOK(c, q)'
        <3>1. Made(q) \notin H /\ Lost(q) \notin H
            BY <1>4, <2>2 DEF Matters, Made, Lost, Inside
        <3>2. Exists(q)' = Exists(q) /\ Kind(q)' = Kind(q) /\ ReadLink(q)' = ReadLink(q)
            BY <3>1, UntouchedIsSame
        <3>3. EntryOK(c, q)
            BY <2>1, <2>2 DEF ReaddirOK
        <3>4. Truth(q)' = Truth(q)
            BY <3>2 DEF Truth, Info
        <3> QED
            BY <3>2, <3>3, <3>4 DEF EntryOK, About
    <2> QED
        BY <1>4, <2>1, <2>2 DEF CallOK, ReaddirOK, Made, Lost
<1> QED
    BY <1>1, <1>2, <1>3, <1>4 DEF CallOK

-----------------------------------------------------------------------------
(* The other processes *)

\* What a step of x means to the others: the calls that were returned are
\* forgotten, the changes H that matter to a call are noted with it.
Aside(x, H) ==
    \A y \in Procs : y # x =>
        /\ proc'[y] = Pending(y)
        /\ proc'[y] # NoCall =>
              touched'[y] = touched[y] \cup {h \in H : Matters(h, proc'[y])}

\* A step whose process goes to call c and that touches H.
LEMMA GotoTouch ==
    ASSUME NEW x \in Procs, NEW H, NEW c, Goto(x, c), Touch(x, H)
    PROVE  /\ Aside(x, H) /\ proc'[x] = c
           /\ c.call # "none" /\ Ready(x) => touched'[x] = {}
           /\ c.call # "none" /\ ~Ready(x) => touched'[x] = touched[x]
<1>1. c.call # "none" => c # NoCall
    BY DEF NoCall
<1> QED
    BY <1>1 DEF Goto, Touch, Aside

\* What is true of the answer of x.
Answered(x) ==
    /\ Returned(x, "read") /\ Written(proc[x].inode) \notin touched[x] =>
          proc[x].result = LET d == node[proc[x].inode].data
                           IN  IF d = <<>> THEN Null ELSE d
    /\ Returned(x, "mkdir_all") =>
          LET p == proc[x].path IN
          Unlost(p, touched[x]) =>
              IF proc[x].result.ok
              THEN Exists(p)
              ELSE proc[x].result.full \/ Blocked(p, Len(p))
    /\ Returned(x, "readdir") =>
          \A q \in {m.path : m \in proc[x].result} \cup Children(proc[x].path) :
              Undisturbed(x, q) => About(proc[x].result, q) = {Info(q, Kind(q), ReadLink(q))}

AllAnswered == \A x \in Procs : Answered(x)

\* What is true of every answer is what the calls promise.
LEMMA AnsweredSound == AllAnswered => FilesSound
    BY DEF AllAnswered, Answered, FilesSound, ReadIsWhole, MkdirAllMakes, ListingIsExact, Unlost, Blocked,
           About

\* A step of x keeps the invariant if it keeps the tree and does its own call well.
LEMMA StepKeeps ==
    ASSUME FilesInv, NEW x, NEW H, Changes(H), Aside(x, H), TreeOK',
           x \in Procs => CallOK(proc[x], touched[x])' /\ Answered(x)'
    PROVE  FilesInv'
<1>1. ASSUME NEW y \in Procs, y # x PROVE CallOK(proc[y], touched[y])' /\ Answered(y)'
    <2>1. PICK c : c = proc[y]
        OBVIOUS
    <2>2. PICK T : T = touched[y]
        OBVIOUS
    <2>3. PICK U : U = touched'[y]
        OBVIOUS
    <2>4. CallOK(c, T)
        BY <2>1, <2>2 DEF FilesInv
    <2>5. CASE c.call \in {"none", "done"}
        <3>1. proc'[y] = IF c.call = "done" THEN NoCall ELSE c
            BY <1>1, <2>1 DEF Aside, Pending
        <3>2. proc'[y].call = "none"
            BY <2>5, <3>1 DEF NoCall
        <3> QED
            BY <3>2 DEF CallOK, Answered, Returned
    <2>6. CASE c.call \notin {"none", "done"}
        <3>1. proc'[y] = c /\ c # NoCall
            BY <1>1, <2>1, <2>6 DEF Aside, Pending, NoCall
        <3>2. U = T \cup {h \in H : Matters(h, c)}
            BY <1>1, <2>1, <2>2, <2>3, <3>1 DEF Aside
        <3>3. CallOK(c, U)'
            BY <2>4, <2>6, <3>2, PassedBy DEF FilesInv
        <3>4. CallOK(proc[y], touched[y])'
            BY <2>3, <3>1, <3>3
        <3> QED
            BY <2>6, <3>1, <3>4 DEF Answered, Returned
    <2> QED
        BY <2>5, <2>6
<1>2. \A y \in Procs : CallOK(proc[y], touched[y])' /\ Answered(y)'
    BY <1>1
<1>3. AllAnswered'
    BY <1>2 DEF AllAnswered
<1>4. FilesSound'
    BY <1>3, AnsweredSound, PTL
<1> QED
    BY <1>2, <1>4 DEF FilesInv

\* A step of x that ends a call whose result nobody looks at.
LEMMA ForgetKeeps ==
    ASSUME FilesInv, NEW x \in Procs, NEW H, Changes(H), Forget(x), Touch(x, H), TreeOK'
    PROVE  FilesInv'
<1>1. Aside(x, H) /\ proc'[x] = NoCall
    <2>1. Goto(x, NoCall)
        BY DEF Forget
    <2> QED
        BY <2>1, GotoTouch
<1>2. CallOK(proc[x], touched[x])' /\ Answered(x)'
    BY <1>1 DEF CallOK, Answered, Returned, NoCall
<1> QED
    BY <1>1, <1>2, StepKeeps

\* Nothing changes where the tree stays as it is.
LEMMA NothingChanges ==
    ASSUME TreeOK, UNCHANGED <<dir, node>>
    PROVE  TreeOK' /\ Changes({})
    BY DEF TreeOK, Changes, Kind, Exists

\* Adding a path with an inode of its own.
LEMMA MakeChanges ==
    ASSUME TreeOK, NEW p \in Seq(Names), MayMake(p), NEW kind \in Kinds, NEW data,
           Make(p, Node(kind, data)), kind = "file" => data \in Seq(Letters)
    PROVE  /\ TreeOK' /\ Changes({Made(p)})
           /\ Exists(p)' /\ dir'[p] \in DOMAIN node' /\ node'[dir'[p]] = Node(kind, data)
<1>1. PICK m \in Fresh : /\ dir' = With(dir, p, m)
                         /\ node' = With(node, m, Node(kind, data))
    BY DEF Make, MayMake, DiskFull
<1>2. m \notin DOMAIN node /\ p \notin DOMAIN dir
    BY <1>1 DEF Fresh, MayMake, HasPlace, Exists
<1>3. /\ DOMAIN dir' = DOMAIN dir \cup {p} /\ dir'[p] = m
      /\ \A q \in DOMAIN dir : dir'[q] = dir[q]
    BY <1>1, <1>2 DEF With
<1>4. /\ DOMAIN node' = DOMAIN node \cup {m} /\ node'[m] = Node(kind, data)
      /\ \A j \in DOMAIN node : node'[j] = node[j]
    BY <1>1, <1>2 DEF With
<1>5. TreeOK'
    <2>1. Kind(<<>>)' = "dir"
        BY <1>3, <1>4 DEF TreeOK, Kind, Exists
    <2>2. \A j \in DOMAIN node' :
             /\ node'[j] = Node(node'[j].kind, node'[j].data) /\ node'[j].kind \in Kinds
             /\ node'[j].kind = "file" => node'[j].data \in Seq(Letters)
        BY <1>4 DEF TreeOK, Node
    <2> QED
        BY <1>3, <1>4, <2>1, <2>2 DEF TreeOK
<1>6. Changes({Made(p)})
    BY <1>3, <1>4, ThingsDiffer DEF Changes
<1> QED
    BY <1>3, <1>4, <1>5, <1>6 DEF Exists

-----------------------------------------------------------------------------
(* Reading and writing *)

\* The paths of the calls are sequences of names, and none is the root.
LEMMA PathsAreSeqs ==
    /\ \A p \in Paths : p \in Seq(Names) /\ p # <<>>
    /\ \A l \in Links : l.path \in Seq(Names) /\ l.path # <<>>
    /\ \A c \in Contents : c \in Seq(Letters)
    BY FilesAssumption

\* A write to a file keeps the tree.
LEMMA WriteChanges ==
    ASSUME TreeOK, NEW m \in DOMAIN node, node[m].kind = "file", NEW data \in Seq(Letters),
           node' = [node EXCEPT ![m].data = data], dir' = dir
    PROVE  TreeOK' /\ Changes({Written(m)})
<1>1. /\ DOMAIN node' = DOMAIN node
      /\ node'[m] = Node("file", data)
      /\ \A j \in DOMAIN node : j # m => node'[j] = node[j]
    BY DEF TreeOK, Node
<1>2. \A j \in DOMAIN node : node'[j].kind = node[j].kind
    BY <1>1 DEF Node
<1>3. TreeOK'
    <2>1. Kind(<<>>)' = "dir"
        BY <1>1, <1>2 DEF TreeOK, Kind, Exists
    <2>2. \A j \in DOMAIN node' :
             /\ node'[j] = Node(node'[j].kind, node'[j].data) /\ node'[j].kind \in Kinds
             /\ node'[j].kind = "file" => node'[j].data \in Seq(Letters)
        BY <1>1 DEF TreeOK, Node, Kinds
    <2> QED
        BY <1>1, <2>1, <2>2 DEF TreeOK
<1> QED
    BY <1>1, <1>2, <1>3 DEF Changes

\* os_write_file as far as open.
LEMMA WriteOpenKeeps ==
    ASSUME FilesInv, NEW x \in Procs, NEW p \in Paths, NEW c \in Contents, WriteOpen(x, p, c)
    PROVE  FilesInv'
<1>0. TreeOK /\ p \in Seq(Names) /\ c \in Seq(Letters) /\ <<>> \in Seq(Letters)
    BY PathsAreSeqs DEF FilesInv
<1>1. ASSUME NEW H, Changes(H), TreeOK', Touch(x, H), Exists(p)', node'[dir'[p]].kind = "file",
             dir'[p] \in DOMAIN node',
             Goto(x, [call |-> "write", path |-> p, inode |-> dir'[p], data |-> c])
      PROVE  FilesInv'
    <2>1. PICK m : m = dir'[p]
        OBVIOUS
    <2> DEFINE w == [call |-> "write", path |-> p, inode |-> m, data |-> c]
    <2>2. Aside(x, H) /\ proc'[x] = w
        BY <1>1, <2>1, GotoTouch
    <2>3. CallOK(proc[x], touched[x])'
        BY <1>0, <1>1, <2>1, <2>2 DEF CallOK, WriteOK
    <2>4. Answered(x)'
        BY <2>2 DEF Answered, Returned
    <2> QED
        BY <1>1, <2>2, <2>3, <2>4, StepKeeps
<1>2. CASE MayMake(p) /\ Make(p, Node("file", <<>>))
           /\ Goto(x, [call |-> "write", path |-> p, inode |-> dir'[p], data |-> c])
           /\ Touch(x, {Made(p)})
    <2>1. /\ TreeOK' /\ Changes({Made(p)})
          /\ Exists(p)' /\ dir'[p] \in DOMAIN node' /\ node'[dir'[p]] = Node("file", <<>>)
        BY <1>0, <1>2, MakeChanges DEF Kinds
    <2> QED
        BY <1>1, <1>2, <2>1 DEF Node
<1>3. CASE Kind(p) = "file" /\ node' = [node EXCEPT ![dir[p]].data = <<>>]
           /\ Goto(x, [call |-> "write", path |-> p, inode |-> dir[p], data |-> c])
           /\ Touch(x, {Written(dir[p])}) /\ UNCHANGED dir
    <2>1. Exists(p) /\ dir[p] \in DOMAIN node /\ node[dir[p]].kind = "file"
        BY <1>0, <1>3 DEF Kind, Exists, TreeOK
    <2>2. TreeOK' /\ Changes({Written(dir[p])})
        BY <1>0, <1>3, <2>1, WriteChanges
    <2>3. Exists(p)' /\ dir'[p] = dir[p] /\ dir'[p] \in DOMAIN node' /\ node'[dir'[p]].kind = "file"
        BY <1>3, <2>1, <2>2 DEF Exists, Changes
    <2> QED
        BY <1>1, <1>3, <2>2, <2>3
<1>4. CASE Forget(x) /\ Touch(x, {}) /\ UNCHANGED <<dir, node>>
    BY <1>0, <1>4, NothingChanges, ForgetKeeps
<1> QED
    BY <1>2, <1>3, <1>4 DEF WriteOpen

\* The write of os_write_file.
LEMMA WriteDataKeeps ==
    ASSUME FilesInv, NEW x \in Procs, WriteData(x)
    PROVE  FilesInv'
<1>1. TreeOK /\ proc[x].call = "write" /\ WriteOK(proc[x])
    BY DEF FilesInv, CallOK, WriteData
<1>2. PICK k \in 0 .. Len(proc[x].data) :
         LET m == proc[x].inode
             old == node[m].data
         IN  /\ node' = [node EXCEPT ![m].data = SubSeq(proc[x].data, 1, k)
                                                   \o SubSeq(old, k + 1, Len(old))]
             /\ Forget(x)
             /\ Touch(x, {Written(m)})
    BY DEF WriteData
<1> DEFINE m == proc[x].inode
           old == node[m].data
           new == SubSeq(proc[x].data, 1, k) \o SubSeq(old, k + 1, Len(old))
<1>3. m \in DOMAIN node /\ node[m].kind = "file" /\ old \in Seq(Letters)
      /\ proc[x].data \in Seq(Letters)
    BY <1>1 DEF WriteOK, TreeOK
<1>4. new \in Seq(Letters)
    <2>1. ASSUME NEW s \in Seq(Letters), NEW j \in Nat PROVE SubSeq(s, j + 1, Len(s)) \in Seq(Letters)
        OBVIOUS
    <2>2. SubSeq(proc[x].data, 1, k) \in Seq(Letters)
        BY <1>3
    <2> QED
        BY <1>3, <2>1, <2>2
<1>5. TreeOK' /\ Changes({Written(m)})
    BY <1>1, <1>2, <1>3, <1>4, WriteChanges DEF WriteData
<1> QED
    BY <1>2, <1>5, ForgetKeeps

\* os_read_file as far as fstat.
LEMMA ReadOpenKeeps ==
    ASSUME FilesInv, NEW x \in Procs, NEW p \in Paths, ReadOpen(x, p)
    PROVE  FilesInv'
<1>1. /\ TreeOK' /\ Changes({}) /\ Touch(x, {}) /\ dir' = dir /\ node' = node
      /\ Ready(x) /\ TreeOK
    BY NothingChanges DEF ReadOpen, FilesInv
<1>2. /\ Exists(p) /\ dir[p] \in DOMAIN node /\ node[dir[p]].kind = "file"
      /\ Data(p) = node[dir[p]].data /\ Data(p) \in Seq(Letters)
    BY <1>1 DEF ReadOpen, TreeOK, Kind, Exists, Data
<1>3. PICK m : m = dir[p]
    OBVIOUS
<1>4. CASE Data(p) = <<>>
    <2> DEFINE c == [call |-> "done", name |-> "read", path |-> p, inode |-> m, result |-> Null]
    <2>1. Goto(x, c)
        BY <1>3, <1>4 DEF ReadOpen
    <2>2. Aside(x, {}) /\ proc'[x] = c
        BY <1>1, <2>1, GotoTouch
    <2>3. CallOK(proc[x], touched[x])'
        BY <2>2 DEF CallOK
    <2>4. node'[proc'[x].inode].data = <<>>
        <3>1. node'[m].data = <<>>
            BY <1>1, <1>2, <1>3, <1>4
        <3> QED
            BY <2>2, <3>1
    <2>5. Answered(x)'
        BY <2>2, <2>4 DEF Answered, Returned
    <2> QED
        BY <1>1, <2>2, <2>3, <2>5, StepKeeps
<1>5. CASE Data(p) # <<>>
    <2>0. PICK n : n = Len(Data(p))
        OBVIOUS
    <2> DEFINE c == [call |-> "read", path |-> p, inode |-> m, size |-> n]
    <2>1. Goto(x, c)
        BY <1>3, <1>5, <2>0 DEF ReadOpen
    <2>2. Aside(x, {}) /\ proc'[x] = c
        BY <1>1, <2>1, GotoTouch
    <2>3. n \in Nat \ {0}
        BY <1>2, <1>5, <2>0
    <2>4. CallOK(proc[x], touched[x])' /\ Answered(x)'
        BY <1>1, <1>2, <1>3, <2>0, <2>2, <2>3 DEF CallOK, ReadOK, Answered, Returned
    <2> QED
        BY <1>1, <2>2, <2>4, StepKeeps
<1> QED
    BY <1>4, <1>5

\* The read of os_read_file: the size it was told is right unless the file was written.
LEMMA ReadDataKeeps ==
    ASSUME FilesInv, NEW x \in Procs, ReadData(x)
    PROVE  FilesInv'
<1>1. /\ TreeOK' /\ Changes({}) /\ Touch(x, {}) /\ dir' = dir /\ node' = node
      /\ proc[x].call = "read" /\ TreeOK /\ ReadOK(proc[x], touched[x])
    BY NothingChanges DEF ReadData, FilesInv, CallOK
<1>2. PICK r : r = proc[x]
    OBVIOUS
<1>3. PICK T : T = touched[x]
    OBVIOUS
<1>4. PICK bytes : bytes = node[r.inode].data
    OBVIOUS
<1> DEFINE size == IF Len(bytes) < r.size THEN Len(bytes) ELSE r.size
           c == [call |-> "done", name |-> "read", path |-> r.path, inode |-> r.inode,
                 result |-> SubSeq(bytes, 1, size)]
<1>5. Goto(x, c)
    BY <1>2, <1>4 DEF ReadData
<1>6. Aside(x, {}) /\ proc'[x] = c /\ touched'[x] = T
    BY <1>1, <1>3, <1>5, GotoTouch DEF Ready
<1>7. ASSUME Written(r.inode) \notin T
      PROVE  SubSeq(bytes, 1, size) = bytes /\ bytes # <<>>
    <2>1. bytes \in Seq(Letters) /\ Len(bytes) = r.size /\ r.size \in Nat \ {0}
        BY <1>1, <1>2, <1>3, <1>4, <1>7 DEF ReadOK, TreeOK
    <2>2. size = Len(bytes)
        BY <2>1
    <2> QED
        BY <2>1, <2>2
<1>8. CallOK(proc[x], touched[x])' /\ Answered(x)'
    <2> HIDE DEF size
    <2> QED
        BY <1>1, <1>4, <1>6, <1>7 DEF CallOK, Answered, Returned
<1> QED
    BY <1>1, <1>6, <1>8, StepKeeps

-----------------------------------------------------------------------------
(* The tree *)

\* mkdir, whether it makes anything or not.
LEMMA MkdirChanges ==
    ASSUME TreeOK, NEW x \in Procs, NEW q \in Seq(Names), MkdirAt(x, q)
    PROVE  \E H \in {{}, {Made(q)}} :
              /\ TreeOK' /\ Changes(H) /\ Touch(x, H)
              /\ H # {} <=> MayMake(q)
              /\ MayMake(q) => Exists(q)' /\ Kind(q)' = "dir"
<1>1. CASE MayMake(q)
    <2>1. Make(q, Node("dir", <<>>)) /\ Touch(x, {Made(q)})
        BY <1>1 DEF MkdirAt
    <2>2. /\ TreeOK' /\ Changes({Made(q)})
          /\ Exists(q)' /\ dir'[q] \in DOMAIN node' /\ node'[dir'[q]] = Node("dir", <<>>)
        BY <1>1, <2>1, MakeChanges DEF Kinds
    <2>3. Kind(q)' = "dir"
        BY <2>2 DEF Kind, Node
    <2> QED
        BY <1>1, <2>1, <2>2, <2>3
<1>2. CASE ~MayMake(q)
    BY <1>2, NothingChanges DEF MkdirAt
<1> QED
    BY <1>1, <1>2

\* os_mkdir.
LEMMA OsMkdirKeeps ==
    ASSUME FilesInv, NEW x \in Procs, NEW p \in Paths, OsMkdir(x, p)
    PROVE  FilesInv'
<1>1. TreeOK /\ p \in Seq(Names) /\ MkdirAt(x, p) /\ Forget(x)
    BY PathsAreSeqs DEF FilesInv, OsMkdir
<1>2. PICK H \in {{}, {Made(p)}} : TreeOK' /\ Changes(H) /\ Touch(x, H)
    BY <1>1, MkdirChanges
<1> QED
    BY <1>1, <1>2, ForgetKeeps

\* The start of os_mkdir_all: nothing of the path is behind it.
LEMMA OsMkdirAllKeeps ==
    ASSUME FilesInv, NEW x \in Procs, NEW p \in Paths, OsMkdirAll(x, p)
    PROVE  FilesInv'
<1>1. /\ TreeOK' /\ Changes({}) /\ Touch(x, {})
      /\ p \in Seq(Names) /\ p # <<>>
    BY PathsAreSeqs, NothingChanges DEF OsMkdirAll, FilesInv
<1> DEFINE c == MkdirAll(p, 1, FALSE)
<1>2. Aside(x, {}) /\ proc'[x] = c
    BY <1>1, GotoTouch DEF OsMkdirAll, MkdirAll
<1>3. MkdirAllOK(proc[x], touched[x])'
    <2>1. 1 \in 1 .. Len(p) /\ 1 .. 1 - 1 = {}
        BY <1>1
    <2>2. Passable(p, 1)'
        BY <2>1 DEF Passable
    <2> QED
        BY <1>1, <1>2, <2>1, <2>2 DEF MkdirAllOK, MkdirAll
<1>4. CallOK(proc[x], touched[x])' /\ Answered(x)'
    BY <1>2, <1>3 DEF CallOK, Answered, Returned, MkdirAll
<1> QED
    BY <1>1, <1>2, <1>4, StepKeeps

\* The way to a path made so far, after the mkdir of one more part of it.
LEMMA OneMorePart ==
    ASSUME TreeOK, NEW x \in Procs, NEW p \in Seq(Names), NEW d \in 1 .. Len(p),
           NEW full, MkdirAt(x, SubSeq(p, 1, d)),
           full \/ Blocked(p, d) \/ Passable(p, d)
    PROVE  \/ full \/ (HasPlace(SubSeq(p, 1, d)) /\ DiskFull)
           \/ Blocked(p, d)'
           \/ (Passable(p, d)' /\ MkdirOk(SubSeq(p, 1, d)))
<1> DEFINE q == SubSeq(p, 1, d)
<1>1. q \in Seq(Names) /\ Len(q) = d /\ d \in Nat
    OBVIOUS
<1>2. PICK H \in {{}, {Made(q)}} :
              /\ TreeOK' /\ Changes(H) /\ Touch(x, H)
              /\ H # {} <=> MayMake(q)
              /\ MayMake(q) => Exists(q)' /\ Kind(q)' = "dir"
    BY <1>1, MkdirChanges
<1>3. ASSUME NEW r, Exists(r) PROVE Exists(r)' /\ Kind(r)' = Kind(r)
    <2>1. Lost(r) \notin H
        BY <1>2, ThingsDiffer
    <2> QED
        BY <1>2, <1>3, <2>1, KeptIsSame
<1>4. \A r : Kind(r) \in Kinds => Kind(r)' = Kind(r)
    BY <1>3 DEF Kind, Kinds
<1>5. (Blocked(p, d) => Blocked(p, d)') /\ (Passable(p, d) => Passable(p, d)')
    BY <1>4 DEF Blocked, Passable, Kinds
<1>7. Passable(p, d) => Kind(Front(q)) = "dir"
    <2>1. CASE d = 1
        <3>1. Front(q) = <<>>
            BY <1>1, <2>1 DEF Front
        <3> QED
            BY <3>1 DEF TreeOK
    <2>2. CASE d # 1
        <3>1. Front(q) = SubSeq(p, 1, d - 1) /\ d - 1 \in 1 .. d - 1
            BY <1>1, <2>2 DEF Front
        <3> QED
            BY <3>1 DEF Passable
    <2> QED
        BY <2>1, <2>2
<1>8. Passable(p, d) => MkdirOk(q) \/ (HasPlace(q) /\ DiskFull)
    BY <1>7 DEF MkdirOk, MayMake, HasPlace
<1> QED
    BY <1>5, <1>8

\* One mkdir of os_mkdir_all.
LEMMA MkdirAllStepKeeps ==
    ASSUME FilesInv, NEW x \in Procs, MkdirAllStep(x)
    PROVE  FilesInv'
<1>1. TreeOK /\ proc[x].call = "mkdir_all" /\ MkdirAllOK(proc[x], touched[x]) /\ ~Ready(x)
    BY DEF FilesInv, CallOK, MkdirAllStep, Ready
<1>2. PICK c : c = proc[x]
    OBVIOUS
<1>3. PICK T : T = touched[x]
    OBVIOUS
<1>4. PICK q : q = SubSeq(c.path, 1, c.depth)
    OBVIOUS
<1>5. PICK full : full = (c.full \/ (HasPlace(q) /\ DiskFull))
    OBVIOUS
<1>6. PICK ok : ok = MkdirOk(q)
    OBVIOUS
<1>7. /\ c.path \in Seq(Names) /\ c.depth \in 1 .. Len(c.path)
      /\ Unlost(c.path, T) => c.full \/ Blocked(c.path, c.depth) \/ Passable(c.path, c.depth)
    BY <1>1, <1>2, <1>3 DEF MkdirAllOK
<1>8. MkdirAt(x, q)
    BY <1>2, <1>4 DEF MkdirAllStep
<1>9. q \in Seq(Names) /\ Len(q) = c.depth
    BY <1>4, <1>7
<1>10. PICK H \in {{}, {Made(q)}} : TreeOK' /\ Changes(H) /\ Touch(x, H)
    BY <1>1, <1>8, <1>9, MkdirChanges
<1>11. /\ Unlost(c.path, T) =>
             full \/ Blocked(c.path, c.depth)' \/ (Passable(c.path, c.depth)' /\ MkdirOk(q))
       /\ MkdirOk(q) => Exists(q)'
    <2>1. ASSUME Unlost(c.path, T)
          PROVE  \/ c.full \/ (HasPlace(q) /\ DiskFull)
                 \/ Blocked(c.path, c.depth)'
                 \/ (Passable(c.path, c.depth)' /\ MkdirOk(q))
        <3>1. c.full \/ Blocked(c.path, c.depth) \/ Passable(c.path, c.depth)
            BY <1>7, <2>1
        <3>2. MkdirAt(x, SubSeq(c.path, 1, c.depth))
            BY <1>4, <1>8
        <3> QED
            BY <1>1, <1>4, <1>7, <3>1, <3>2, OneMorePart
    <2>2. MkdirOk(q) => Exists(q)'
        <3>1. PICK G \in {{}, {Made(q)}} :
                 /\ Changes(G)
                 /\ MayMake(q) => Exists(q)'
            BY <1>1, <1>8, <1>9, MkdirChanges
        <3>2. Exists(q) => Exists(q)'
            BY <1>1, <3>1, KeptIsSame, ThingsDiffer
        <3> QED
            BY <3>1, <3>2 DEF MkdirOk
    <2> QED
        BY <1>5, <1>6, <2>1, <2>2
<1>12. CASE q = c.path
    <2> DEFINE r == [call |-> "done", name |-> "mkdir_all", path |-> c.path,
                     result |-> [ok |-> ok, full |-> full]]
    <2>1. Goto(x, r)
        BY <1>2, <1>4, <1>5, <1>6, <1>12 DEF MkdirAllStep, Answer
    <2>2. Aside(x, H) /\ proc'[x] = r /\ touched'[x] = T
        BY <1>1, <1>3, <1>10, <2>1, GotoTouch
    <2>3. CallOK(proc[x], touched[x])'
        BY <2>2 DEF CallOK
    <2>4. c.depth = Len(c.path)
        BY <1>9, <1>12
    <2>5. Unlost(c.path, T) /\ ~ok => full \/ Blocked(c.path, Len(c.path))'
        <3>1. Blocked(c.path, c.depth)' => Blocked(c.path, Len(c.path))'
            BY <2>4
        <3> QED
            BY <1>6, <1>11, <3>1
    <2>6. ok => Exists(c.path)'
        BY <1>6, <1>11, <1>12
    <2>7. Answered(x)'
        BY <2>2, <2>5, <2>6 DEF Answered, Returned
    <2> QED
        BY <1>10, <2>2, <2>3, <2>7, StepKeeps
<1>13. CASE q # c.path
    <2> DEFINE r == MkdirAll(c.path, c.depth + 1, full)
    <2>1. Goto(x, r) /\ r.call = "mkdir_all"
        BY <1>2, <1>4, <1>5, <1>13 DEF MkdirAllStep, MkdirAll
    <2>3. Aside(x, H) /\ proc'[x] = r /\ touched'[x] = T
        BY <1>1, <1>3, <1>10, <2>1, GotoTouch
    <2>4. c.depth + 1 \in 1 .. Len(c.path)
        <3>1. c.depth # Len(c.path)
            BY <1>4, <1>7, <1>13
        <3> QED
            BY <1>7, <3>1
    <2>5. Unlost(c.path, T) =>
              full \/ Blocked(c.path, c.depth + 1)' \/ Passable(c.path, c.depth + 1)'
        <3>1. Blocked(c.path, c.depth)' => Blocked(c.path, c.depth + 1)'
            BY <1>7 DEF Blocked
        <3>2. Exists(q)' => Kind(q)' \in Kinds
            BY <1>10 DEF TreeOK, Kind, Exists
        <3>3. c.depth \in 1 .. (c.depth + 1) - 1
            BY <1>7
        <3>4. Exists(q)' /\ Kind(q)' # "dir" => Blocked(c.path, c.depth + 1)'
            BY <1>4, <3>2, <3>3 DEF Blocked, Kinds
        <3>5. Passable(c.path, c.depth)' /\ Kind(q)' = "dir" => Passable(c.path, c.depth + 1)'
            <4> SUFFICES ASSUME Passable(c.path, c.depth)', Kind(q)' = "dir",
                                NEW m \in 1 .. (c.depth + 1) - 1
                         PROVE  Kind(SubSeq(c.path, 1, m))' = "dir"
                BY DEF Passable
            <4>1. m = c.depth \/ m \in 1 .. c.depth - 1
                BY <1>7
            <4> QED
                BY <1>4, <4>1 DEF Passable
        <3> QED
            BY <1>11, <3>1, <3>4, <3>5
    <2>6. MkdirAllOK(proc[x], touched[x])'
        BY <1>7, <2>3, <2>4, <2>5 DEF MkdirAllOK, MkdirAll
    <2>7. CallOK(proc[x], touched[x])' /\ Answered(x)'
        BY <2>3, <2>6 DEF CallOK, Answered, Returned, MkdirAll
    <2> QED
        BY <1>10, <2>3, <2>7, StepKeeps
<1> QED
    BY <1>12, <1>13

\* os_remove.
LEMMA OsRemoveKeeps ==
    ASSUME FilesInv, NEW x \in Procs, NEW p \in Paths, OsRemove(x, p)
    PROVE  FilesInv'
<1>1. TreeOK /\ p # <<>> /\ Forget(x) /\ node' = node
    BY PathsAreSeqs DEF FilesInv, OsRemove
<1>2. CASE Exists(p) /\ Children(p) = {}
    <2>1. dir' = Without(dir, p) /\ Touch(x, {Lost(p)})
        BY <1>2 DEF OsRemove
    <2>2. DOMAIN dir' = DOMAIN dir \ {p} /\ \A q \in DOMAIN dir' : dir'[q] = dir[q]
        BY <2>1 DEF Without
    <2>3. TreeOK'
        <3>1. Kind(<<>>)' = "dir"
            BY <1>1, <2>2 DEF TreeOK, Kind, Exists
        <3> QED
            BY <1>1, <2>2, <3>1 DEF TreeOK
    <2>4. Changes({Lost(p)})
        BY <1>1, <2>2 DEF Changes
    <2> QED
        BY <1>1, <2>1, <2>3, <2>4, ForgetKeeps
<1>3. CASE ~(Exists(p) /\ Children(p) = {})
    <2>1. dir' = dir /\ Touch(x, {})
        BY <1>3 DEF OsRemove
    <2> QED
        BY <1>1, <2>1, NothingChanges, ForgetKeeps
<1> QED
    BY <1>2, <1>3

\* os_rename.
LEMMA OsRenameKeeps ==
    ASSUME FilesInv, NEW x \in Procs, NEW p \in Paths, NEW q \in Paths, OsRename(x, p, q)
    PROVE  FilesInv'
<1>1. /\ TreeOK /\ p # <<>> /\ q # <<>> /\ p # q /\ q \in Seq(Names)
      /\ Forget(x) /\ node' = node /\ Exists(p)
    BY PathsAreSeqs DEF FilesInv, OsRename, Kind
<1>2. CASE Exists(q) \/ HasPlace(q)
    <2>1. dir' = With(Without(dir, p), q, dir[p]) /\ Touch(x, {Lost(p), Lost(q), Made(q)})
        BY <1>2 DEF OsRename
    <2>2. /\ DOMAIN dir' = (DOMAIN dir \ {p}) \cup {q}
          /\ dir'[q] = dir[p]
          /\ \A r \in DOMAIN dir' : r # q => dir'[r] = dir[r]
        BY <1>1, <2>1 DEF With, Without
    <2>3. TreeOK'
        <3>1. Kind(<<>>)' = "dir"
            BY <1>1, <2>2 DEF TreeOK, Kind, Exists
        <3> QED
            BY <1>1, <2>2, <3>1 DEF TreeOK, Exists
    <2>4. Changes({Lost(p), Lost(q), Made(q)})
        BY <1>1, <2>2 DEF Changes
    <2> QED
        BY <1>1, <2>1, <2>3, <2>4, ForgetKeeps
<1>3. CASE ~(Exists(q) \/ HasPlace(q))
    <2>1. dir' = dir /\ Touch(x, {})
        BY <1>3 DEF OsRename
    <2> QED
        BY <1>1, <2>1, NothingChanges, ForgetKeeps
<1> QED
    BY <1>2, <1>3

\* Every process of the model passes by another program's link.
LEMMA SymlinkKeeps ==
    ASSUME FilesInv, NEW l \in Links, Symlink(l.path, l.target)
    PROVE  FilesInv'
<1>1. TreeOK /\ l.path \in Seq(Names) /\ MayMake(l.path) /\ Make(l.path, Node("link", l.target))
    BY PathsAreSeqs DEF FilesInv, Symlink
<1>2. TreeOK' /\ Changes({Made(l.path)})
    BY <1>1, MakeChanges DEF Kinds
<1>3. PICK x : x \notin Procs
    BY NoSetContainsEverything
<1>4. Aside(x, {Made(l.path)})
    BY DEF Symlink, Aside
<1> QED
    BY <1>2, <1>3, <1>4, StepKeeps

-----------------------------------------------------------------------------
(* Listing *)

\* A path's entries are those one name longer.
LEMMA ChildrenAreInside ==
    ASSUME TreeOK, NEW p \in Seq(Names)
    PROVE  Children(p) = {q \in Inside(p) : Exists(q)}
<1>1. ASSUME NEW q \in Seq(Names)
      PROVE  Len(q) = Len(p) + 1 /\ IsPrefix(p, q) <=> q # <<>> /\ Front(q) = p
    <2>1. CASE q = <<>>
        BY <2>1
    <2>2. CASE q # <<>>
        <3>1. Len(q) \in Nat \ {0} /\ Len(p) \in Nat
            BY <2>2
        <3>2. Len(Front(q)) = Len(q) - 1
            <4>1. \A k \in 0 .. Len(q) : Len(SubSeq(q, 1, k)) = k
                OBVIOUS
            <4>2. Len(q) - 1 \in 0 .. Len(q)
                BY <3>1
            <4>3. Len(SubSeq(q, 1, Len(q) - 1)) = Len(q) - 1
                BY <4>1, <4>2, Zenon
            <4> QED
                BY <4>3, Zenon DEF Front
        <3>3. SubSeq(p, 1, Len(p)) = p
            OBVIOUS
        <3> QED
            BY <3>1, <3>2, <3>3 DEF Front, IsPrefix
    <2> QED
        BY <2>1, <2>2
<1> QED
    BY <1>1 DEF Children, Inside, Exists, TreeOK

\* A step of os_readdir looks at the tree only.
LEMMA ListingKeeps ==
    ASSUME FilesInv, NEW x \in Procs, NEW c, Goto(x, c), Touch(x, {}), UNCHANGED <<dir, node>>,
           c.call = "readdir",
           NEW T, T = IF Ready(x) THEN {} ELSE touched[x], ReaddirOK(c, T)
    PROVE  FilesInv'
<1>1. TreeOK' /\ Changes({})
    BY NothingChanges DEF FilesInv
<1>2. Aside(x, {}) /\ proc'[x] = c /\ touched'[x] = T
    BY GotoTouch
<1>3. ReaddirOK(c, T)'
    BY DEF ReaddirOK, EntryOK, Truth, Exists, Kind, ReadLink, Data, Made, Lost
<1>4. CallOK(proc[x], touched[x])' /\ Answered(x)'
    BY <1>2, <1>3 DEF CallOK, Answered, Returned
<1> QED
    BY <1>1, <1>2, <1>4, StepKeeps

\* The start of os_readdir: every entry is still to look at.
LEMMA OsReaddirKeeps ==
    ASSUME FilesInv, NEW x \in Procs, NEW p \in Paths \cup {<<>>}, OsReaddir(x, p)
    PROVE  FilesInv'
<1>1. TreeOK /\ p \in Seq(Names) /\ Ready(x) /\ Touch(x, {}) /\ UNCHANGED <<dir, node>>
    <2>1. <<>> \in Seq(Names)
        OBVIOUS
    <2> QED
        BY <2>1, PathsAreSeqs DEF FilesInv, OsReaddir
<1>2. PICK found : found = Children(p)
    OBVIOUS
<1> DEFINE c == Listing(p, found, {}, {})
<1>3. /\ c.call = "readdir" /\ c.path = p /\ c.left = found /\ c.link = {} /\ c.infos = {}
      /\ Goto(x, c)
    BY <1>2 DEF Listing, OsReaddir
<1>4. found = {q \in Inside(p) : Exists(q)}
    BY <1>1, <1>2, ChildrenAreInside
<1> HIDE DEF c
<1>5. ReaddirOK(c, {})
    BY <1>1, <1>3, <1>4 DEF ReaddirOK, EntryOK, About, Truth
<1> QED
    BY <1>1, <1>3, <1>5, ListingKeeps

\* One entry of os_readdir: its information, or its link still to read.
LEMMA ReaddirEntryKeeps ==
    ASSUME FilesInv, NEW x \in Procs, ReaddirEntry(x)
    PROVE  FilesInv'
<1>1. /\ proc[x].call = "readdir" /\ proc[x].link = {} /\ ~Ready(x)
      /\ Touch(x, {}) /\ UNCHANGED <<dir, node>> /\ ReaddirOK(proc[x], touched[x])
    BY DEF FilesInv, CallOK, ReaddirEntry, Ready
<1>2. PICK q \in proc[x].left :
          LET c == proc[x]
              rest == c.left \ {q}
              info == Info(q, Kind(q), IF Kind(q) = "link" THEN ReadLink(<<Last(q)>>)
                                                           ELSE Null)
          IN  Goto(x, IF ~Exists(q) THEN Listing(c.path, rest, {}, c.infos)
                      ELSE IF Kind(q) = "link" THEN Listing(c.path, rest, {info}, c.infos)
                      ELSE Listing(c.path, rest, {}, c.infos \cup {info}))
    BY DEF ReaddirEntry
<1>3. PICK c : c = proc[x]
    OBVIOUS
<1>4. PICK T : T = touched[x]
    OBVIOUS
<1>5. PICK info : info = Info(q, Kind(q), IF Kind(q) = "link" THEN ReadLink(<<Last(q)>>)
                                                              ELSE Null)
    OBVIOUS
<1> DEFINE rest == c.left \ {q}
<1>6. /\ info.path = q /\ info.kind = Kind(q) /\ info = Info(info.path, info.kind, info.target)
      /\ Kind(q) # "link" => info = Info(q, Kind(q), ReadLink(q))
    BY <1>5 DEF Info, ReadLink
<1>7. /\ q \in c.left /\ c.link = {} /\ ReaddirOK(c, T)
    BY <1>1, <1>2, <1>3, <1>4
<1>8. ASSUME NEW link, NEW infos, Goto(x, Listing(c.path, rest, link, infos)),
             link = {} \/ link = {info},
             infos = c.infos \/ infos = c.infos \cup {info},
             info \in link => Kind(q) = "link" /\ infos = c.infos,
             Exists(q) /\ Made(q) \notin T /\ Lost(q) \notin T /\ link = {} =>
                 Kind(q) # "link" /\ infos = c.infos \cup {info},
             ~Exists(q) => link = {} /\ infos = c.infos
      PROVE  FilesInv'
    <2> DEFINE d == Listing(c.path, rest, link, infos)
    <2>1. /\ d.call = "readdir" /\ d.path = c.path /\ d.left = rest /\ d.link = link
          /\ d.infos = infos
        BY DEF Listing
    <2>2. Goto(x, d)
        BY <1>8
    <2> HIDE DEF d
    <2>3. ASSUME NEW r \in Inside(c.path), Made(r) \notin T, Lost(r) \notin T
          PROVE  EntryOK(d, r)
        <3>1. EntryOK(c, r)
            BY <1>7, <2>3 DEF ReaddirOK
        <3>2. CASE r = q
            <4>1. Exists(q) /\ About(c.infos, q) = {}
                BY <1>7, <3>1, <3>2 DEF EntryOK
            <4>2. q \notin d.left
                BY <2>1
            <4>3. CASE link = {}
                <5>1. About(d.link, q) = {} /\ About(d.infos, q) = {info} /\ info = Info(q, Kind(q), ReadLink(q))
                    BY <1>6, <1>8, <2>1, <2>3, <3>2, <4>1, <4>3 DEF About
                <5> QED
                    BY <3>2, <4>1, <4>2, <5>1 DEF EntryOK, Truth
            <4>4. CASE link = {info}
                <5>1. Kind(q) = "link" /\ About(d.infos, q) = {} /\ About(d.link, q) = {info}
                    BY <1>6, <1>8, <2>1, <4>1, <4>4 DEF About
                <5> QED
                    BY <3>2, <4>2, <5>1 DEF EntryOK
            <4> QED
                BY <1>8, <4>3, <4>4
        <3>3. CASE r # q
            <4>1. About(d.infos, r) = About(c.infos, r) /\ About(d.link, r) = {}
                BY <1>6, <1>8, <2>1, <3>3 DEF About
            <4>2. r \in d.left <=> r \in c.left
                BY <2>1, <3>3
            <4>3. About(c.link, r) = {}
                BY <1>7 DEF About
            <4> QED
                BY <3>1, <4>1, <4>2, <4>3 DEF EntryOK
        <3> QED
            BY <3>2, <3>3
    <2>4. ReaddirOK(d, T)
        <3>1. q \in Inside(c.path)
            BY <1>7 DEF ReaddirOK
        <3>2. \A l \in d.link : l = Info(l.path, "link", l.target)
            BY <1>6, <1>8, <2>1
        <3>3. \A l \in d.link \cup d.infos : l.path \in Inside(d.path)
            BY <1>6, <1>7, <1>8, <2>1, <3>1 DEF ReaddirOK
        <3>4. d.link = {} \/ \E l : d.link = {l}
            BY <1>8, <2>1
        <3> QED
            BY <1>7, <2>1, <2>3, <3>2, <3>3, <3>4 DEF ReaddirOK
    <2> QED
        BY <1>1, <1>4, <2>1, <2>2, <2>4, ListingKeeps
<1>9. CASE ~Exists(q)
    <2>1. Goto(x, Listing(c.path, rest, {}, c.infos))
        BY <1>2, <1>3, <1>9
    <2> QED
        BY <1>8, <1>9, <2>1
<1>10. CASE Exists(q) /\ Kind(q) = "link"
    <2>1. Goto(x, Listing(c.path, rest, {info}, c.infos))
        BY <1>2, <1>3, <1>5, <1>10
    <2> QED
        BY <1>8, <1>10, <2>1
<1>11. CASE Exists(q) /\ Kind(q) # "link"
    <2>1. Goto(x, Listing(c.path, rest, {}, c.infos \cup {info}))
        BY <1>2, <1>3, <1>5, <1>11
    <2> QED
        BY <1>8, <1>11, <2>1
<1> QED
    BY <1>9, <1>10, <1>11

\* The target of a link.
LEMMA ReaddirLinkKeeps ==
    ASSUME FilesInv, NEW x \in Procs, ReaddirLink(x)
    PROVE  FilesInv'
<1>1. /\ proc[x].call = "readdir" /\ ~Ready(x)
      /\ Touch(x, {}) /\ UNCHANGED <<dir, node>> /\ ReaddirOK(proc[x], touched[x])
    BY DEF FilesInv, CallOK, ReaddirLink, Ready
<1>2. PICK l \in proc[x].link :
          LET c == proc[x]
              info == IF Kind(l.path) = "link" THEN Info(l.path, l.kind, ReadLink(l.path)) ELSE l
          IN  Goto(x, Listing(c.path, c.left, {}, c.infos \cup {info}))
    BY DEF ReaddirLink
<1>3. PICK c : c = proc[x]
    OBVIOUS
<1>4. PICK T : T = touched[x]
    OBVIOUS
<1>5. PICK info :
         info = IF Kind(l.path) = "link" THEN Info(l.path, l.kind, ReadLink(l.path)) ELSE l
    OBVIOUS
<1>6. ReaddirOK(c, T) /\ c.link = {l} /\ l = Info(l.path, "link", l.target)
    BY <1>1, <1>2, <1>3, <1>4 DEF ReaddirOK
<1>7. /\ info.path = l.path
      /\ Kind(l.path) = "link" => info = Info(l.path, "link", ReadLink(l.path))
    BY <1>5, <1>6 DEF Info
<1> DEFINE d == Listing(c.path, c.left, {}, c.infos \cup {info})
<1>8. /\ d.call = "readdir" /\ d.path = c.path /\ d.left = c.left /\ d.link = {}
      /\ d.infos = c.infos \cup {info}
      /\ Goto(x, d)
    BY <1>2, <1>3, <1>5 DEF Listing
<1> HIDE DEF d
<1>9. ASSUME NEW r \in Inside(c.path), Made(r) \notin T, Lost(r) \notin T
      PROVE  EntryOK(d, r)
    <2>1. EntryOK(c, r)
        BY <1>6, <1>9 DEF ReaddirOK
    <2>2. About(d.link, r) = {}
        BY <1>8 DEF About
    <2>3. CASE r = l.path
        <3>1. About(c.link, r) = {l}
            BY <1>6, <2>3 DEF About
        <3>2. r \notin c.left /\ Kind(r) = "link" /\ About(c.infos, r) = {}
            BY <2>1, <3>1 DEF EntryOK
        <3>3. About(d.infos, r) = {info} /\ info = Info(r, Kind(r), ReadLink(r))
            BY <1>7, <1>8, <2>3, <3>2 DEF About
        <3>4. Exists(r)
            BY <3>2 DEF Kind
        <3> QED
            BY <1>8, <2>2, <3>2, <3>3, <3>4 DEF EntryOK, Truth
    <2>4. CASE r # l.path
        <3>1. About(c.link, r) = {} /\ About(d.infos, r) = About(c.infos, r)
            BY <1>6, <1>7, <1>8, <2>4 DEF About
        <3> QED
            BY <1>8, <2>1, <2>2, <3>1 DEF EntryOK
    <2> QED
        BY <2>3, <2>4
<1>10. ReaddirOK(d, T)
    BY <1>6, <1>7, <1>8, <1>9 DEF ReaddirOK
<1> QED
    BY <1>1, <1>4, <1>8, <1>10, ListingKeeps

\* The end of os_readdir: every entry has its information.
LEMMA ReaddirReturnsKeeps ==
    ASSUME FilesInv, NEW x \in Procs, ReaddirReturns(x)
    PROVE  FilesInv'
<1>1. /\ proc[x].call = "readdir" /\ proc[x].left = {} /\ proc[x].link = {} /\ ~Ready(x)
      /\ Touch(x, {}) /\ UNCHANGED <<dir, node>> /\ ReaddirOK(proc[x], touched[x])
      /\ TreeOK /\ TreeOK' /\ Changes({})
    BY NothingChanges DEF FilesInv, CallOK, ReaddirReturns, Ready
<1>2. PICK c : c = proc[x]
    OBVIOUS
<1>3. PICK T : T = touched[x]
    OBVIOUS
<1> DEFINE d == [call |-> "done", name |-> "readdir", path |-> c.path, result |-> c.infos]
<1>4. Goto(x, d)
    BY <1>2 DEF ReaddirReturns, Answer
<1>5. Aside(x, {}) /\ proc'[x] = d /\ touched'[x] = T
    BY <1>1, <1>3, <1>4, GotoTouch
<1>6. ReaddirOK(c, T) /\ c.left = {} /\ c.link = {} /\ c.path \in Seq(Names)
    BY <1>1, <1>2, <1>3 DEF ReaddirOK
<1>7. ASSUME NEW q \in {m.path : m \in c.infos} \cup Children(c.path),
             Made(q) \notin T, Lost(q) \notin T
      PROVE  About(c.infos, q) = {Info(q, Kind(q), ReadLink(q))}
    <2>1. q \in Inside(c.path)
        BY <1>1, <1>6, <1>7, ChildrenAreInside DEF ReaddirOK
    <2>2. About(c.infos, q) = Truth(q)
        BY <1>6, <1>7, <2>1 DEF ReaddirOK, EntryOK, About
    <2>3. Exists(q)
        <3>1. CASE q \in Children(c.path)
            BY <3>1 DEF Children, Exists
        <3>2. CASE q \in {m.path : m \in c.infos}
            <4>1. About(c.infos, q) # {}
                BY <3>2 DEF About
            <4> QED
                BY <2>2, <4>1 DEF Truth
        <3> QED
            BY <1>7, <3>1, <3>2
    <2> QED
        BY <2>2, <2>3 DEF Truth
<1>8. CallOK(proc[x], touched[x])' /\ Answered(x)'
    <2>1. \A q : Children(q)' = Children(q)
        BY <1>1 DEF Children
    <2>2. \A q : Info(q, Kind(q), ReadLink(q))' = Info(q, Kind(q), ReadLink(q))
        BY <1>1 DEF Info, Kind, ReadLink, Exists, Data
    <2>3. \A q : Undisturbed(x, q)' <=> Made(q) \notin T /\ Lost(q) \notin T
        BY <1>5 DEF Undisturbed, Made, Lost
    <2>4. \A q \in {m.path : m \in c.infos} \cup Children(c.path)' :
             Undisturbed(x, q)' => About(c.infos, q) = {Info(q, Kind(q), ReadLink(q))'}
        BY <1>7, <2>1, <2>2, <2>3
    <2> QED
        BY <1>5, <2>4 DEF CallOK, Answered, Returned
<1> QED
    BY <1>1, <1>5, <1>8, StepKeeps

-----------------------------------------------------------------------------

\* The tree of the root alone.
LEMMA FilesInitInv == FilesInit => FilesInv
<1> SUFFICES ASSUME FilesInit PROVE FilesInv
    OBVIOUS
<1>1. /\ DOMAIN dir = {<<>>} /\ dir[<<>>] = 0
      /\ DOMAIN node = {0} /\ node[0] = Node("dir", <<>>)
      /\ \A x \in Procs : proc[x].call = "none"
    BY DEF FilesInit, NoCall
<1>2. TreeOK
    <2>1. <<>> \in Seq(Names)
        OBVIOUS
    <2> QED
        BY <1>1, <2>1 DEF TreeOK, Kind, Exists, Node, Kinds
<1>3. \A x \in Procs : CallOK(proc[x], touched[x])
    BY <1>1 DEF CallOK
<1>4. FilesSound
    BY <1>1 DEF FilesSound, ReadIsWhole, MkdirAllMakes, ListingIsExact, Returned
<1> QED
    BY <1>2, <1>3, <1>4 DEF FilesInv

\* Every system call keeps the invariant.
LEMMA FilesNextInv == FilesInv /\ [FilesNext]_fileVars => FilesInv'
<1> SUFFICES ASSUME FilesInv, [FilesNext]_fileVars PROVE FilesInv'
    OBVIOUS
<1>1. CASE UNCHANGED fileVars
    <2>1. dir' = dir /\ node' = node /\ proc' = proc /\ touched' = touched
        BY <1>1 DEF fileVars
    <2>2. TreeOK' /\ Changes({})
        BY <2>1, NothingChanges DEF FilesInv
    <2>3. ASSUME NEW y \in Procs PROVE CallOK(proc[y], touched[y])'
        <3>1. PICK c : c = proc[y]
            OBVIOUS
        <3>2. PICK T : T = touched[y]
            OBVIOUS
        <3>3. CallOK(c, T)
            BY <3>1, <3>2 DEF FilesInv
        <3>4. CASE c.call \in {"none", "done"}
            BY <2>1, <3>1, <3>4 DEF CallOK
        <3>5. CASE c.call \notin {"none", "done"}
            <4>1. T = T \cup {h \in {} : Matters(h, c)}
                OBVIOUS
            <4>2. CallOK(c, T)'
                BY <2>2, <3>3, <3>5, <4>1, PassedBy DEF FilesInv
            <4> QED
                BY <2>1, <3>1, <3>2, <4>2
        <3> QED
            BY <3>4, <3>5
    <2>4. FilesSound'
        <3>1. ReadIsWhole'
            BY <2>1 DEF FilesInv, FilesSound, ReadIsWhole, Returned, Written
        <3>2. MkdirAllMakes'
            BY <2>1 DEF FilesInv, FilesSound, MkdirAllMakes, Returned, Kind, Exists, Lost
        <3>3. ListingIsExact'
            BY <2>1 DEF FilesInv, FilesSound, ListingIsExact, Returned, Undisturbed, Children,
                        Info, Kind, ReadLink, Exists, Data, Made, Lost, Written
        <3> QED
            BY <3>1, <3>2, <3>3 DEF FilesSound
    <2> QED
        BY <2>2, <2>3, <2>4 DEF FilesInv
<1>2. ASSUME NEW x \in Procs, NEW p \in Paths,
             \/ \E c \in Contents : WriteOpen(x, p, c)
             \/ ReadOpen(x, p) \/ OsMkdir(x, p) \/ OsMkdirAll(x, p) \/ OsRemove(x, p)
             \/ \E q \in Paths : OsRename(x, p, q)
      PROVE  FilesInv'
    BY <1>2, WriteOpenKeeps, ReadOpenKeeps, OsMkdirKeeps, OsMkdirAllKeeps, OsRemoveKeeps,
       OsRenameKeeps
<1>3. ASSUME NEW x \in Procs,
             \/ WriteData(x) \/ ReadData(x) \/ MkdirAllStep(x)
             \/ ReaddirEntry(x) \/ ReaddirLink(x) \/ ReaddirReturns(x)
             \/ \E p \in Paths \cup {<<>>} : OsReaddir(x, p)
      PROVE  FilesInv'
    BY <1>3, WriteDataKeeps, ReadDataKeeps, MkdirAllStepKeeps, ReaddirEntryKeeps,
       ReaddirLinkKeeps, ReaddirReturnsKeeps, OsReaddirKeeps
<1>4. ASSUME NEW l \in Links, Symlink(l.path, l.target)
      PROVE  FilesInv'
    BY <1>4, SymlinkKeeps
<1> QED
    BY <1>1, <1>2, <1>3, <1>4 DEF FilesNext

\* The calls of bareos.h that take several system calls answer what is true of the
\* tree, for any number of processes, any paths and contents, whatever the others
\* do in between, except where somebody changed just that.
THEOREM FilesAreSound == FilesSpec => []FilesSound
<1>1. FilesInv => FilesSound
    BY DEF FilesInv
<1> QED
    BY <1>1, FilesInitInv, FilesNextInv, PTL DEF FilesSpec
=============================================================================
