------------------------------ MODULE MCRuntime ------------------------------
(***************************************************************************)
(* What runs concurrently below a program: the lazily initialised mutex    *)
(* and once_run, coroutines, signals and child processes.  They share no   *)
(* state: each behaviour exercises one of them ("subject").                *)
(***************************************************************************)
EXTENDS Sync, Coro, Signals, Proc

VARIABLE subject

\* A child whose output fits into the pipes, and one that writes nothing to stderr
\* and to stdout more than the pipe and one read of the parent hold.
FittingWrites == [s \in Outputs |-> IF s = "out" THEN PipeCap ELSE 1]
LargeStdout == [s \in Outputs |-> IF s = "out" THEN PipeCap + 2 * Chunk ELSE 0]

runtimeVars == <<subject, mutexVars, onceVars, coroVars, sigVars, procVars>>

Runtime ==
    /\ MutexInit /\ OnceInit /\ CoroInit /\ SigInit /\ ProcInit
    /\ subject \in {"mutex", "once", "coroutines", "signals", "processes"}
    /\ subject # "processes" => use = "session"
    /\ subject # "once" => ordered

RuntimeNext ==
    /\ UNCHANGED subject
    /\ \/ /\ subject = "mutex" /\ MutexNext
          /\ UNCHANGED <<onceVars, coroVars, sigVars, procVars>>
       \/ /\ subject = "once" /\ OnceNext
          /\ UNCHANGED <<mutexVars, coroVars, sigVars, procVars>>
       \/ /\ subject = "coroutines" /\ CoroNext
          /\ UNCHANGED <<mutexVars, onceVars, sigVars, procVars>>
       \/ /\ subject = "signals" /\ SigNext
          /\ UNCHANGED <<mutexVars, onceVars, coroVars, procVars>>
       \/ /\ subject = "processes" /\ ProcNext
          /\ UNCHANGED <<mutexVars, onceVars, coroVars, sigVars>>

\* The fairness of FairProcSpec, for the behaviours that have a child.
RuntimeSpec ==
    /\ Runtime /\ [][RuntimeNext]_runtimeVars
    /\ WF_procVars(subject = "processes" /\ Parent)
    /\ WF_procVars(subject = "processes" /\ Child)

\* Child processes alone.
ProcessSpec == RuntimeSpec /\ subject = "processes"

\* Signals alone: code that can run is run by the scheduler.
SignalSpec ==
    /\ Runtime /\ subject = "signals"
    /\ [][RuntimeNext]_runtimeVars /\ WF_sigVars(MainStep)
=============================================================================
