-------------------------------- MODULE Proc --------------------------------
(***************************************************************************)
(* Child processes of bareproc.h (POSIX): proc_spawn_*, the calls on a     *)
(* running child, and the two functions that run a command to its end,     *)
(* proc_run_capture and proc_run_stdout.  "use" says which of the three a  *)
(* behaviour exercises.                                                    *)
(*                                                                         *)
(* The kernel is external: a pipe holds up to PipeCap units, a read blocks *)
(* while the pipe is empty and somebody holds its write end, a write       *)
(* blocks while it is full and raises SIGPIPE when nobody holds its read   *)
(* end.  "ends" is the set of open descriptors, <<holder, stream, side>>;  *)
(* "other" is a second child that the parent forks later and that inherits *)
(* what the parent has open.  The child's program is any: it reads, writes *)
(* up to Writes[s] units to stream s, closes, and exits.  No read or write *)
(* is interrupted: handlers set by sig_catch restart system calls.  (Under *)
(* other handlers proc_run_capture's loops retry after EINTR; the loop of  *)
(* proc_run_stdout takes it for the end of the output.)                    *)
(***************************************************************************)
EXTENDS Integers, FiniteSets

CONSTANTS
    PipeCap,    \* units a pipe holds (64 KiB on Linux)
    Chunk,      \* units one read takes, sizeof _bp_readbuf (4 KiB)
    Writes,     \* units the child writes to each output stream at most
    MaxIn,      \* bound: units the parent writes to the child's stdin
    ExitCodes,  \* the child's exit codes
    Uses        \* \subseteq {"capture", "stdout", "session"}

Outputs == {"out", "err"}
Streams == {"in"} \union Outputs

ASSUME ProcAssumption ==
    /\ PipeCap \in Nat \ {0} /\ Chunk \in Nat \ {0} /\ MaxIn \in Nat
    /\ Writes \in [Outputs -> Nat]
    /\ ExitCodes \subseteq 0 .. 127
    /\ Uses \subseteq {"capture", "stdout", "session"}

VARIABLES
    use,      \* the function under way
    pc,       \* the parent's next step
    left,     \* bytes proc_write still has to write
    ans,      \* the last value a call returned
    ends,     \* the open descriptors
    pipe,     \* the units in each pipe
    wrote,    \* the units written to each stream so far
    got,      \* the units read from each stream so far
    doing,    \* what the child is blocked in: a stream, "run", or "gone"
    status,   \* the child for the kernel: "none", "running", "zombie", "reaped"
    code      \* what the child ended with, an exit code or 128 + signal

parentVars == <<use, pc, left, ans>>
childVars == <<doing, status, code>>
procVars == <<parentVars, ends, pipe, wrote, got, childVars>>

Min2(m, n) == IF m < n THEN m ELSE n
Has(p, s, side) == <<p, s, side>> \in ends
Held(s, side) == \E p \in {"parent", "child", "other"} : Has(p, s, side)
Drop(p, s, side) == ends' = ends \ {<<p, s, side>>}

ProcInit ==
    /\ use \in Uses
    /\ pc = "start" /\ left = 0 /\ ans = 0
    /\ ends = {}
    /\ pipe = [s \in Streams |-> 0]
    /\ wrote = [s \in Streams |-> 0]
    /\ got = [s \in Streams |-> 0]
    /\ doing = "run" /\ status = "none" /\ code = 0

-----------------------------------------------------------------------------
(* The parent *)

Wanted == CASE use = "capture" -> Outputs
            [] use = "stdout"  -> {"out"}
            [] use = "session" -> Streams

\* The side of a stream that the child uses; the parent uses the other.
ChildSide(s) == IF s = "in" THEN "r" ELSE "w"
ParentSide(s) == IF s = "in" THEN "w" ELSE "r"

AfterFork_ParentKeeps(S) ==
    {<<"child", s, ChildSide(s)>> : s \in S} \union ({"parent"} \X S \X {"r", "w"})
AfterFork_ChildKeepsAll(S) ==
    ({"child"} \X S \X {"r", "w"}) \union {<<"parent", s, ParentSide(s)>> : s \in S}
AfterFork(S) ==
    {<<"child", s, ChildSide(s)>> : s \in S}
        \union {<<"parent", s, ParentSide(s)>> : s \in S}

\* pipe() for each stream wanted, fork, and what each side closes.
Spawn ==
    /\ pc = "start"
    /\ ends' = AfterFork(Wanted)
    /\ status' = "running"
    /\ pc' = IF use = "session" THEN "idle" ELSE "out"
    /\ UNCHANGED <<use, left, ans, pipe, wrote, got, doing, code>>

AtEOF_ShortRead(s) == pipe[s] < Chunk
AtEOF(s) == pipe[s] = 0

CanRead(s) == pipe[s] > 0 \/ ~Held(s, "w")

\* One read() of up to Chunk units; 0 at the end of the stream.
TakeChunk(s) ==
    LET n == Min2(Chunk, pipe[s]) IN
    /\ pipe' = [pipe EXCEPT ![s] = @ - n]
    /\ got' = [got EXCEPT ![s] = @ + n]
    /\ ans' = n

\* The collecting loop reads stdout, then stderr, and waits for the child
\* once both are at their end; a stream at its end is closed.
After(s, open) ==
    LET turn == IF s = "out" THEN "err" ELSE "out" IN
    IF open = {} THEN "wait" ELSE IF turn \in open THEN turn ELSE s

Collect(s) ==
    /\ use \in {"capture", "stdout"}
    /\ pc = s
    /\ CanRead(s)
    /\ TakeChunk(s)
    /\ IF AtEOF(s) THEN Drop("parent", s, "r") ELSE UNCHANGED ends
    /\ pc' = After(s, {o \in Outputs : <<"parent", o, "r">> \in ends'})
    /\ UNCHANGED <<use, left, wrote, childVars>>

Reap == status' = "reaped"

\* waitpid blocks until the child has ended.  On a child already reaped it
\* fails at once and leaves status 0, which reads as exit code 0.
WaitReturns ==
    /\ pc = "wait"
    /\ \/ status = "zombie" /\ Reap /\ ans' = code
       \/ status = "reaped" /\ ans' = 0 /\ UNCHANGED status
    /\ pc' = IF use = "session" THEN "idle" ELSE "returned"
    /\ UNCHANGED <<use, left, ends, pipe, wrote, got, doing, code>>

Calls(next) == use = "session" /\ pc = "idle" /\ pc' = next

StartWait ==
    /\ Calls("wait")
    /\ UNCHANGED <<use, left, ans, ends, pipe, wrote, got, childVars>>

\* proc_running asks waitpid with WNOHANG, which reaps a child that ended.
Running ==
    /\ Calls("idle")
    /\ ans' = IF status = "running" THEN 1 ELSE 0
    /\ IF status = "zombie" THEN Reap ELSE UNCHANGED status
    /\ UNCHANGED <<use, left, ends, pipe, wrote, got, doing, code>>

ChildEnds(with) ==
    /\ status' = "zombie" /\ doing' = "gone" /\ code' = with
    /\ ends' = {e \in ends : e[1] # "child"}

\* The number of a reaped child may be another process's: callers know better.
Kill ==
    /\ Calls("idle")
    /\ status # "reaped"
    /\ IF status = "running" THEN ChildEnds(128 + 9) ELSE UNCHANGED <<childVars, ends>>
    /\ UNCHANGED <<use, left, ans, pipe, wrote, got>>

CloseStdin ==
    /\ Calls("idle")
    /\ Has("parent", "in", "w")
    /\ Drop("parent", "in", "w")
    /\ UNCHANGED <<use, left, ans, pipe, wrote, got, childVars>>

StartWrite(n) ==
    /\ Calls("write")
    /\ Has("parent", "in", "w")
    /\ wrote["in"] + n <= MaxIn
    /\ left' = n
    /\ UNCHANGED <<use, ans, ends, pipe, wrote, got, childVars>>

\* One write() of proc_write's loop.  SIGPIPE ends the parent unless the
\* program ignores it, and then proc_write answers false.
WriteSome ==
    /\ pc = "write"
    /\ IF Held("in", "r")
         THEN LET n == Min2(left, PipeCap - pipe["in"]) IN
              /\ n > 0
              /\ pipe' = [pipe EXCEPT !["in"] = @ + n]
              /\ wrote' = [wrote EXCEPT !["in"] = @ + n]
              /\ left' = left - n
              /\ IF left' = 0 THEN pc' = "idle" /\ ans' = 1 ELSE UNCHANGED <<pc, ans>>
              /\ UNCHANGED ends
         ELSE /\ left' = 0
              /\ \/ pc' = "idle" /\ ans' = 0 /\ UNCHANGED ends
                 \/ /\ pc' = "killed"
                    /\ ends' = {e \in ends : e[1] # "parent"}
                    /\ UNCHANGED ans
              /\ UNCHANGED <<pipe, wrote>>
    /\ UNCHANGED <<use, got, childVars>>

\* proc_read and proc_read_err, by the stream they read.
Reading == [out |-> "readOut", err |-> "readErr"]

StartRead(s) ==
    /\ Calls(Reading[s])
    /\ UNCHANGED <<use, left, ans, ends, pipe, wrote, got, childVars>>

ReadReturns(s) ==
    /\ pc = Reading[s]
    /\ CanRead(s)
    /\ TakeChunk(s)
    /\ pc' = "idle"
    /\ UNCHANGED <<use, left, ends, wrote, childVars>>

\* The parent forks again: nothing is marked close-on-exec.
SpawnOther ==
    /\ Calls("idle")
    /\ \A e \in ends : e[1] # "other"
    /\ ends' = ends \union {<<"other", e[2], e[3]>> : e \in {f \in ends : f[1] = "parent"}}
    /\ UNCHANGED <<use, left, ans, pipe, wrote, got, childVars>>

Parent ==
    \/ Spawn
    \/ \E s \in Outputs : Collect(s)
    \/ WaitReturns
    \/ WriteSome
    \/ \E s \in Outputs : ReadReturns(s)

Caller ==
    \/ StartWait
    \/ Running
    \/ Kill
    \/ CloseStdin
    \/ \E n \in 1 .. MaxIn : StartWrite(n)
    \/ \E s \in Outputs : StartRead(s)
    \/ SpawnOther

-----------------------------------------------------------------------------
(* The children, external *)

ChildStarts(s) ==
    /\ status = "running" /\ doing = "run"
    /\ Has("child", s, ChildSide(s))
    /\ s \in Outputs => wrote[s] < Writes[s]
    /\ doing' = s
    /\ UNCHANGED <<parentVars, ends, pipe, wrote, got, status, code>>

ChildWrites(s) ==
    /\ doing = s
    /\ IF Held(s, "r")
         THEN /\ pipe[s] < PipeCap
              /\ pipe' = [pipe EXCEPT ![s] = @ + 1]
              /\ wrote' = [wrote EXCEPT ![s] = @ + 1]
              /\ doing' = "run"
              /\ UNCHANGED <<ends, status, code>>
         ELSE ChildEnds(128 + 13) /\ UNCHANGED <<pipe, wrote>>
    /\ UNCHANGED <<parentVars, got>>

\* At the end of its input the child closes it, so as not to read again.
ChildReads ==
    /\ doing = "in"
    /\ CanRead("in")
    /\ IF pipe["in"] > 0
         THEN /\ pipe' = [pipe EXCEPT !["in"] = @ - 1]
              /\ got' = [got EXCEPT !["in"] = @ + 1]
              /\ UNCHANGED ends
         ELSE Drop("child", "in", "r") /\ UNCHANGED <<pipe, got>>
    /\ doing' = "run"
    /\ UNCHANGED <<parentVars, wrote, status, code>>

ChildCloses(s) ==
    /\ doing = "run" /\ status = "running"
    /\ Has("child", s, "w")
    /\ Drop("child", s, "w")
    /\ UNCHANGED <<parentVars, pipe, wrote, got, childVars>>

ChildExits(c) ==
    /\ status = "running" /\ doing = "run"
    /\ ChildEnds(c)
    /\ UNCHANGED <<parentVars, pipe, wrote, got>>

OtherExits ==
    /\ \E e \in ends : e[1] = "other"
    /\ ends' = {e \in ends : e[1] # "other"}
    /\ UNCHANGED <<parentVars, pipe, wrote, got, childVars>>

Child ==
    \/ \E s \in Streams : ChildStarts(s)
    \/ \E s \in Outputs : ChildWrites(s) \/ ChildCloses(s)
    \/ ChildReads
    \/ \E c \in ExitCodes : ChildExits(c)

ProcNext == Parent \/ Caller \/ Child \/ OtherExits

ProcSpec == ProcInit /\ [][ProcNext]_procVars

\* The scheduler runs the parent inside a call and the child whenever they
\* are not blocked.  Nothing makes the caller call, or "other" exit.
FairProcSpec == ProcSpec /\ WF_procVars(Parent) /\ WF_procVars(Child)

-----------------------------------------------------------------------------
Holders == {"parent", "child", "other"}

(* Types; and what the kernel and the reading loops move is conserved: a   *)
(* unit written to a stream is in its pipe or was read, once.              *)
ProcTypeOK ==
    /\ use \in Uses
    /\ pc \in {"start", "idle", "wait", "write", "returned", "killed"}
             \union Outputs \union {Reading[s] : s \in Outputs}
    /\ left \in 0 .. MaxIn /\ (left > 0 => pc = "write")
    /\ ends \subseteq Holders \X Streams \X {"r", "w"}
    /\ \A s \in Streams : pipe[s] \in 0 .. PipeCap /\ wrote[s] = got[s] + pipe[s]
    /\ doing \in Streams \union {"run", "gone"}
    /\ status \in {"none", "running", "zombie", "reaped"}
    /\ status \in {"zombie", "reaped"} <=> doing = "gone"
    /\ doing = "gone" => \A e \in ends : e[1] # "child"

Collecting == use \in {"capture", "stdout"}

(* proc_run_capture and proc_run_stdout answer with everything the child   *)
(* wrote to the streams they collect and with what it ended with, leave no *)
(* zombie and no descriptor behind, and never kill the child with SIGPIPE. *)
CaptureComplete ==
    Collecting /\ pc = "returned" =>
        /\ \A s \in Wanted : got[s] = wrote[s] /\ pipe[s] = 0
        /\ status = "reaped" /\ ans = code /\ code \in ExitCodes
        /\ \A e \in ends : e[1] # "parent"

(* Nothing a child wrote is lost or read twice on its way through the      *)
(* pipes, and the calls that collect it return with all of it.             *)
CaptureSound == ProcTypeOK /\ CaptureComplete

(* A collecting call returns: the parent, reading stdout and stderr in     *)
(* turn, and the child, writing them as it likes, never wait for each      *)
(* other.  It holds for a child whose output fits into the pipes.          *)
CaptureReturns == (Collecting /\ pc = "out") ~> (pc = "returned")

(* After proc_close_stdin a child that reads its input to the end gets     *)
(* there, unless another child inherited the write end and keeps it open.  *)
StdinEnds ==
    (doing = "in" /\ ~Has("parent", "in", "w")) ~>
        (doing # "in" \/ Has("other", "in", "w"))

(* "Wait for proc to exit.  Returns the exit code (0 = success)."          *)
WaitTellsExit ==
    [][pc = "wait" /\ pc' # "wait" => ans' = code']_procVars
=============================================================================
