--------------------------------- MODULE Log ---------------------------------
(***************************************************************************)
(* The logger of barelog.h under several threads, with a mutex set by      *)
(* log_set_mutex.  The line buffer, the fields and their count are static  *)
(* and shared; the mutex is taken around the sink alone.  A line is its    *)
(* message and its fields, each named by the thread they come from.        *)
(***************************************************************************)
EXTENDS Integers, Sequences

CONSTANTS
    Loggers,     \* the threads that log
    MaxFields,   \* LOG_MAX_FIELDS
    None

VARIABLES
    fields,    \* _log_fields up to _log_nfields
    buf,       \* _log_buf
    mu,        \* the holder of the mutex
    pc,        \* each thread's next step in _log_write
    sunk       \* the last line the sink got, and the thread that gave it

vars == <<fields, buf, mu, pc, sunk>>

Line(msg, flds) == [msg |-> msg, fields |-> flds]

Init ==
    /\ fields = <<>>
    /\ buf = Line(None, <<>>)
    /\ mu = None
    /\ pc = [t \in Loggers |-> "out"]
    /\ sunk = [by |-> None, line |-> buf]

Goto(t, from, to) == pc[t] = from /\ pc' = [pc EXCEPT ![t] = to]

\* log_with and log_with_int; a field too many is dropped.
With(t) ==
    /\ pc[t] = "out"
    /\ Len(fields) < MaxFields
    /\ fields' = Append(fields, t)
    /\ UNCHANGED <<buf, mu, pc, sunk>>

\* A message below the level takes the fields with it.
Discarded(t) ==
    /\ pc[t] = "out"
    /\ fields' = <<>>
    /\ UNCHANGED <<buf, mu, pc, sunk>>

\* The time, the level, the tag and the message.
Format(t) ==
    /\ Goto(t, "out", "fields")
    /\ buf' = Line(t, <<>>)
    /\ UNCHANGED <<fields, mu, sunk>>

AppendFields(t) ==
    /\ Goto(t, "fields", "lock")
    /\ buf' = [buf EXCEPT !.fields = fields]
    /\ fields' = <<>>
    /\ UNCHANGED <<mu, sunk>>

Lock(t) ==
    /\ mu = None /\ mu' = t
    /\ Goto(t, "lock", "sink")
    /\ UNCHANGED <<fields, buf, sunk>>

Sink(t) ==
    /\ Goto(t, "sink", "unlock")
    /\ sunk' = [by |-> t, line |-> buf]
    /\ UNCHANGED <<fields, buf, mu>>

Unlock(t) ==
    /\ Goto(t, "unlock", "out")
    /\ mu' = None
    /\ UNCHANGED <<fields, buf, sunk>>

Next ==
    \E t \in Loggers :
        \/ With(t) \/ Discarded(t)
        \/ Format(t) \/ AppendFields(t) \/ Lock(t) \/ Sink(t) \/ Unlock(t)

Spec == Init /\ [][Next]_vars

-----------------------------------------------------------------------------

(* "Wrap log writes with this mutex for thread-safe logging."              *)
(* (barelog.h:92)  The line a call gives to the sink is its own.           *)
LinesWhole == sunk.line.msg = sunk.by
=============================================================================
