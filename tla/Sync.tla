-------------------------------- MODULE Sync --------------------------------
(***************************************************************************)
(* The two parts of baresync.h that are more than a call of the system:    *)
(* the Windows mutex, which the first thread to lock it initialises, and   *)
(* the POSIX once_run.  A CRITICAL_SECTION and a pthread mutex are         *)
(* external: at most one thread is in them, in any order.                  *)
(***************************************************************************)
EXTENDS Integers, FiniteSets

CONSTANTS
    Threads,
    None

ASSUME SyncAssumption == None \notin Threads

VARIABLES
    init,      \* m->_init
    section,   \* m->_cs: "raw" or "ready"
    owner,     \* the thread inside m->_cs
    trying,    \* the threads that came through mutex_trylock
    mpc        \* each thread's next step in the mutex

mutexVars == <<init, section, owner, trying, mpc>>

MutexInit ==
    /\ init = 0 /\ section = "raw" /\ owner = None
    /\ trying = {}
    /\ mpc = [t \in Threads |-> "out"]

At(t, from, to) == mpc[t] = from /\ mpc' = [mpc EXCEPT ![t] = to]

CallLock(t) ==
    /\ At(t, "out", "claim")
    /\ UNCHANGED <<init, section, owner, trying>>

\* mutex_trylock locks and unlocks a mutex that is not ready yet.
CallTrylock(t) ==
    /\ At(t, "out", IF init # 2 THEN "claim" ELSE "try")
    /\ trying' = trying \union {t}
    /\ UNCHANGED <<init, section, owner>>

Claimed_AsReady == 2
Claimed == 1

\* The interlocked compare-and-exchange.
Claim(t) ==
    /\ At(t, "claim", IF init = 0 THEN "initialise" ELSE "spin")
    /\ init' = IF init = 0 THEN Claimed ELSE init
    /\ UNCHANGED <<section, owner, trying>>

\* InitializeCriticalSection, which forgets who was inside.
Initialise(t) ==
    /\ At(t, "initialise", "publish")
    /\ section' = "ready" /\ owner' = None
    /\ UNCHANGED <<init, trying>>

Publish(t) ==
    /\ At(t, "publish", "spin")
    /\ init' = 2
    /\ UNCHANGED <<section, owner, trying>>

Spin(t) ==
    /\ init = 2
    /\ At(t, "spin", "enter")
    /\ UNCHANGED <<init, section, owner, trying>>

Enter(t) ==
    /\ owner = None
    /\ At(t, "enter", "in")
    /\ owner' = t
    /\ UNCHANGED <<init, section, trying>>

\* mutex_unlock; a thread that came to try now tries.
Leave(t) ==
    /\ At(t, "in", IF t \in trying THEN "try" ELSE "out")
    /\ owner' = None
    /\ UNCHANGED <<init, section, trying>>

\* TryEnterCriticalSection.
Try(t) ==
    /\ At(t, "try", IF owner = None THEN "in" ELSE "out")
    /\ owner' = IF owner = None THEN t ELSE owner
    /\ trying' = trying \ {t}
    /\ UNCHANGED <<init, section>>

\* mutex_destroy, called when no thread is using the mutex.
Destroy ==
    /\ init = 2
    /\ \A t \in Threads : mpc[t] = "out"
    /\ init' = 0 /\ section' = "raw"
    /\ UNCHANGED <<owner, trying, mpc>>

MutexNext ==
    \/ \E t \in Threads :
         \/ CallLock(t) \/ CallTrylock(t) \/ Claim(t) \/ Initialise(t) \/ Publish(t)
         \/ Spin(t) \/ Enter(t) \/ Leave(t) \/ Try(t)
    \/ Destroy

MutexSpec == MutexInit /\ [][MutexNext]_mutexVars

-----------------------------------------------------------------------------

VARIABLES
    done,      \* o->_done
    holder,    \* the holder of o->_mu
    runs,      \* how often fn was started
    ended,     \* whether fn has run to its end
    sees,      \* the threads bound to see what fn did
    opc,       \* each thread's next step in once_run
    ordered    \* whether the machine keeps the order of two stores, and of two loads

onceVars == <<done, holder, runs, ended, sees, opc, ordered>>

OnceInit ==
    /\ done = FALSE /\ holder = None /\ runs = 0 /\ ended = FALSE
    /\ sees = {}
    /\ opc = [t \in Threads |-> "out"]
    /\ ordered \in BOOLEAN

To(t, from, to) == opc[t] = from /\ opc' = [opc EXCEPT ![t] = to]

\* The test without the mutex: two plain accesses of two threads, so that on
\* a machine that reorders them the caller may not see what fn wrote.
FastPath(t) ==
    /\ To(t, "out", IF done THEN "fast" ELSE "lock")
    /\ \/ sees' = IF done THEN sees \union {t} ELSE sees
       \/ ~ordered /\ done /\ UNCHANGED sees
    /\ UNCHANGED <<done, holder, runs, ended, ordered>>

OnceLock(t) ==
    /\ holder = None
    /\ To(t, "lock", "test")
    /\ holder' = t
    /\ sees' = IF ended THEN sees \union {t} ELSE sees
    /\ UNCHANGED <<done, runs, ended, ordered>>

MustRun_Always == TRUE
MustRun == ~done

Test(t) ==
    /\ To(t, "test", IF MustRun THEN "fn" ELSE "unlock")
    /\ runs' = IF MustRun THEN runs + 1 ELSE runs
    /\ UNCHANGED <<done, holder, ended, sees, ordered>>

FnEnds(t) ==
    /\ To(t, "fn", "set")
    /\ ended' = TRUE
    /\ sees' = sees \union {t}
    /\ UNCHANGED <<done, holder, runs, ordered>>

SetDone(t) ==
    /\ To(t, "set", "unlock")
    /\ done' = TRUE
    /\ UNCHANGED <<holder, runs, ended, sees, ordered>>

OnceUnlock(t) ==
    /\ To(t, "unlock", "back")
    /\ holder' = None
    /\ UNCHANGED <<done, runs, ended, sees, ordered>>

\* once_run has returned; the thread may call it again.
Again(t) ==
    /\ To(t, "back", "out") \/ To(t, "fast", "out")
    /\ UNCHANGED <<done, holder, runs, ended, sees, ordered>>

OnceNext ==
    \E t \in Threads :
        \/ FastPath(t) \/ OnceLock(t) \/ Test(t) \/ FnEnds(t) \/ SetDone(t)
        \/ OnceUnlock(t) \/ Again(t)

OnceSpec == OnceInit /\ [][OnceNext]_onceVars

-----------------------------------------------------------------------------

(* The lazily initialised mutex excludes: whoever comes first, by lock or  *)
(* by trylock, and however often the mutex was destroyed before, it is     *)
(* initialised by one thread at a time and never while another is past the *)
(* spin loop, nobody enters it unready, and one thread at most is inside.  *)
Past(t) == mpc[t] \in {"enter", "in", "try"}
LockSound ==
    /\ \A t \in Threads : mpc[t] = "in" <=> owner = t
    /\ \A t \in Threads : Past(t) => section = "ready" /\ init = 2
    /\ \A t, u \in Threads :
         /\ mpc[t] \in {"initialise", "publish"} => ~Past(u)
         /\ {mpc[t], mpc[u]} \subseteq {"initialise", "publish"} => t = u

(* On any machine fn is run once, no call of once_run returns before it    *)
(* has ended, and a call that took the mutex sees what fn did.  A call     *)
(* that returned on the fast path is bound to see it where the machine     *)
(* keeps the order of stores and of loads; elsewhere nothing is claimed of *)
(* it, for the flag is volatile, not atomic.                               *)
OnceExact ==
    /\ runs <= 1
    /\ \A t \in Threads :
         opc[t] \in {"back", "fast"} =>
             ended /\ (opc[t] = "back" \/ ordered => t \in sees)
=============================================================================
