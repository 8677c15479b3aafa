-------------------------------- MODULE Coro --------------------------------
(***************************************************************************)
(* Coroutines and the round-robin scheduler of barecoro.h.  All runs on    *)
(* one thread: "cur" is whoever has the processor, the main program or a   *)
(* coroutine, and swapcontext passes it on.  A coroutine's program is any: *)
(* it yields, resumes another coroutine, adds one to the scheduler it runs *)
(* under, and returns.  Programs keep what the header says of the states:  *)
(* coro_resume is called on a coroutine that is ready or suspended,        *)
(* coro_yield by a coroutine on itself, coro_free after it is done; and    *)
(* the main program calls coro_run_all, which is not called by coroutines. *)
(***************************************************************************)
EXTENDS Integers, Sequences, FiniteSets

CONSTANTS
    Coros,      \* the coroutines, in the order of their creation
    main,       \* the main program
    SchedCap,   \* s->cap
    MaxYields   \* bound: yields of one coroutine

ASSUME CoroAssumption ==
    /\ main \notin Coros
    /\ SchedCap \in Nat \ {0}
    /\ MaxYields \in Nat

VARIABLES
    state,     \* c->state
    caller,    \* whose context c->caller holds
    cur,       \* who runs
    coros,     \* s->coros up to s->count
    spc,       \* the main program: "out", "pass" in the loop over i, "resumed"
    i,         \* the loop's i, counted from 1
    any,       \* the loop's any
    yields     \* how often each coroutine has yielded

coroVars == <<state, caller, cur, coros, spc, i, any, yields>>

Listed(c) == \E n \in DOMAIN coros : coros[n] = c

CoroInit ==
    /\ state = [c \in Coros |-> "ready"]
    /\ caller = [c \in Coros |-> main]
    /\ cur = main
    /\ coros = <<>>
    /\ spc = "out" /\ i = 1 /\ any = FALSE
    /\ yields = [c \in Coros |-> 0]

\* coro_resume, called by whoever runs.
Resume(c) ==
    /\ state[c] \in {"ready", "suspended"}
    /\ state' = [state EXCEPT ![c] = "running"]
    /\ caller' = [caller EXCEPT ![c] = cur]
    /\ cur' = c

\* The main program drives a coroutine itself, or a coroutine another.
ResumeDirectly(c) ==
    /\ cur = main => spc = "out"
    /\ Resume(c)
    /\ UNCHANGED <<coros, spc, i, any, yields>>

\* Whoever resumed c goes on.
BackToCaller_AlwaysMain(c) == main
BackToCaller(c) == caller[c]

Yield(c) ==
    /\ cur = c
    /\ yields[c] < MaxYields
    /\ yields' = [yields EXCEPT ![c] = @ + 1]
    /\ state' = [state EXCEPT ![c] = "suspended"]
    /\ cur' = BackToCaller(c)
    /\ UNCHANGED <<caller, coros, spc, i, any>>

\* _coro_trampoline after fn has returned.
Return(c) ==
    /\ cur = c
    /\ state' = [state EXCEPT ![c] = "done"]
    /\ cur' = BackToCaller(c)
    /\ UNCHANGED <<caller, coros, spc, i, any, yields>>

\* coro_sched_add, by the main program or by a coroutine under the scheduler.
SchedAdd(c) ==
    /\ cur = main => spc = "out"
    /\ Len(coros) < SchedCap
    /\ ~Listed(c)
    /\ coros' = Append(coros, c)
    /\ UNCHANGED <<state, caller, cur, spc, i, any, yields>>

RunAll ==
    /\ cur = main /\ spc = "out"
    /\ spc' = "pass" /\ i' = 1 /\ any' = FALSE
    /\ UNCHANGED <<state, caller, cur, coros, yields>>

InPass_OneShort == i < Len(coros)
InPass == i <= Len(coros)

\* One turn of the loop over the coroutines: resume the next that is not done.
Turn ==
    /\ cur = main /\ spc = "pass"
    /\ InPass
    /\ IF state[coros[i]] # "done"
         THEN Resume(coros[i]) /\ any' = TRUE /\ spc' = "resumed" /\ UNCHANGED i
         ELSE i' = i + 1 /\ UNCHANGED <<state, caller, cur, any, spc>>
    /\ UNCHANGED <<coros, yields>>

TurnEnds ==
    /\ cur = main /\ spc = "resumed"
    /\ spc' = "pass" /\ i' = i + 1
    /\ UNCHANGED <<state, caller, cur, coros, any, yields>>

\* The pass is over; coro_run_all returns after one that resumed nobody.
PassEnds ==
    /\ cur = main /\ spc = "pass"
    /\ ~InPass
    /\ IF any THEN i' = 1 /\ any' = FALSE /\ UNCHANGED spc
              ELSE spc' = "out" /\ UNCHANGED <<i, any>>
    /\ UNCHANGED <<state, caller, cur, coros, yields>>

CoroNext ==
    \/ RunAll \/ Turn \/ TurnEnds \/ PassEnds
    \/ \E c \in Coros : ResumeDirectly(c) \/ Yield(c) \/ Return(c) \/ SchedAdd(c)

CoroSpec == CoroInit /\ [][CoroNext]_coroVars

-----------------------------------------------------------------------------

RunningCoros == {c \in Coros : state[c] = "running"}

(* The contexts saved in the running coroutines form one chain from the    *)
(* coroutine that has the processor to the main program, however they      *)
(* resume each other and whoever of them the scheduler holds: each yield   *)
(* or return goes back to one waiting context, and none is lost.           *)
CoroStack ==
    /\ cur = main <=> RunningCoros = {}
    /\ cur # main => cur \in RunningCoros
    /\ \A c \in RunningCoros : caller[c] \in (RunningCoros \ {c}) \union {main}
    /\ \A c, d \in RunningCoros : caller[c] = caller[d] => c = d
    /\ \A c \in RunningCoros : caller[c] # cur

(* coro_run_all returns only when every coroutine of the scheduler is      *)
(* done, those included that were added while it ran or that another       *)
(* coroutine resumed behind the scheduler's back.                          *)
RunAllComplete ==
    [][spc = "pass" /\ spc' = "out" =>
         \A n \in DOMAIN coros : state[coros[n]] = "done"]_coroVars
=============================================================================
