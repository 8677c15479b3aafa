------------------------------- MODULE Signals -------------------------------
(***************************************************************************)
(* baresig.h on POSIX: a handler that sets a flag, the program that sets   *)
(* dispositions, polls and clears flags and waits in sig_wait_any.  The    *)
(* handler may run between any two steps of the program.  Loops over the   *)
(* flags are modelled flag by flag.                                        *)
(***************************************************************************)
EXTENDS Integers, FiniteSets

CONSTANTS
    Sigs,      \* the signal numbers that may arrive
    Track,     \* SIG_MAX_TRACK: flags are kept of 1 .. Track - 1
    Quiet      \* the signals whose default is to be ignored (SIGCHLD...)

ASSUME SigAssumption == Sigs \subseteq Nat \ {0} /\ Track \in Nat \ {0, 1}

VARIABLES
    disp,      \* the disposition of each signal
    flags,     \* _sig_flags: the signals whose flag is set
    program,      \* where the program is: its own code, or a function of baresig.h
    index,     \* the i of the loop it is in
    answer,    \* what sig_wait_any returned last
    waker,     \* the signal whose handler ended the last sigsuspend (history)
    fired      \* the caught signals since their last reset (history)

sigVars == <<disp, flags, program, index, answer, waker, fired>>

NoSig == 0
Tracked == 1 .. Track - 1

SigInit ==
    /\ disp = [s \in Sigs |-> "dfl"]
    /\ flags = {} /\ fired = {}
    /\ program = "run" /\ index = 0
    /\ answer = NoSig /\ waker = NoSig

\* sig_catch, sig_ignore, sig_default.
Dispose(s, d) ==
    /\ program = "run" /\ disp[s] # d
    /\ disp' = [disp EXCEPT ![s] = d]
    /\ UNCHANGED <<flags, program, index, answer, waker, fired>>

\* A signal is delivered: external, but for what _sig_handler does.
Arrive(s) ==
    /\ program # "dead"
    /\ \/ /\ disp[s] = "catch"
          /\ flags' = flags \cup ({s} \cap Tracked)
          /\ fired' = fired \cup {s}
          /\ IF program = "suspended"
             THEN program' = "scan" /\ waker' = s
             ELSE UNCHANGED <<program, waker>>
       \/ /\ disp[s] = "dfl" /\ s \notin Quiet
          /\ program' = "dead" /\ UNCHANGED <<flags, waker, fired>>
    /\ UNCHANGED <<disp, index, answer>>

SigReset(s) ==
    /\ program = "run"
    /\ flags' = IF s \in Tracked THEN flags \ {s} ELSE flags
    /\ fired' = fired \ {s}
    /\ UNCHANGED <<disp, program, index, answer, waker>>

SigResetAll ==
    /\ program = "run"
    /\ program' = "resetting" /\ index' = 0
    /\ UNCHANGED <<disp, flags, answer, waker, fired>>

ClearNext ==
    /\ program = "resetting"
    /\ IF index < Track
       THEN /\ flags' = flags \ {index} /\ fired' = fired \ {index}
            /\ index' = index + 1 /\ UNCHANGED program
       ELSE program' = "run" /\ UNCHANGED <<flags, index, fired>>
    /\ UNCHANGED <<disp, answer, waker>>

SigWaitAny_KeepsIndex ==
    /\ program = "run"
    /\ program' = "suspended" /\ waker' = NoSig
    /\ UNCHANGED <<disp, flags, index, answer, fired>>

\* sig_wait_any up to sigsuspend; no flag is looked at before.
SigWaitAny ==
    /\ program = "run"
    /\ program' = "suspended" /\ index' = 1 /\ waker' = NoSig
    /\ UNCHANGED <<disp, flags, answer, fired>>

\* One turn of the loop behind sigsuspend: the first flag set, or -1.
Scan ==
    /\ program = "scan"
    /\ IF index \in flags \/ index = Track
       THEN /\ program' = "run"
            /\ answer' = IF index = Track THEN -1 ELSE index
            /\ UNCHANGED index
       ELSE index' = index + 1 /\ UNCHANGED <<program, answer>>
    /\ UNCHANGED <<disp, flags, waker, fired>>

MainStep == ClearNext \/ Scan

SigNext ==
    \/ \E s \in Sigs : \/ \E d \in {"catch", "ign", "dfl"} : Dispose(s, d)
                       \/ Arrive(s) \/ SigReset(s)
    \/ SigResetAll \/ SigWaitAny \/ MainStep

SigSpec == SigInit /\ [][SigNext]_sigVars

----------------------------------------------------------------------------
(* Properties *)

\* sig_wait_any answers with a signal that has fired and was not reset, and -1
\* only when what woke it is beyond the flags, although further signals come in
\* front of and behind the scan.
WaitFindsFired ==
    [][program = "scan" /\ program' = "run" =>
          IF answer' = -1 THEN waker \notin Tracked ELSE answer' \in fired]_sigVars

\* The comment of sig_wait_any: it blocks until any caught signal fires.  One that
\* fired before sigsuspend, its flag set, is not seen.
WaitSeesFired == (program = "suspended" /\ flags # {}) ~> program # "suspended"
=============================================================================
