----------------------------- MODULE ConnQueue -----------------------------
(***************************************************************************)
(* What a pooled HTTP server promises about the connections it accepts,    *)
(* with no threads, locks or ring in sight: they wait in one bounded FIFO  *)
(* line, each is handed to one server, and each is closed exactly once.    *)
(* HttpPool implements this specification.                                 *)
(***************************************************************************)
EXTENDS Naturals, Sequences

CONSTANTS Conns,   \* the client connections
          Cap      \* the length of the waiting line

VARIABLES fresh,     \* connections not accepted yet
          arriving,  \* accepted, not in the line yet
          line,      \* the waiting line, oldest first
          serving,   \* handed to a server
          done       \* closed

qvars == <<fresh, arriving, line, serving, done>>

Init ==
    /\ fresh = Conns
    /\ arriving = {}
    /\ line = <<>>
    /\ serving = {}
    /\ done = {}

Arrive(c) ==
    /\ c \in fresh
    /\ arriving = {}
    /\ fresh' = fresh \ {c}
    /\ arriving' = {c}
    /\ UNCHANGED <<line, serving, done>>

Join(c) ==
    /\ c \in arriving
    /\ Len(line) < Cap
    /\ line' = Append(line, c)
    /\ arriving' = arriving \ {c}
    /\ UNCHANGED <<fresh, serving, done>>

Serve ==
    /\ line # <<>>
    /\ serving' = serving \union {Head(line)}
    /\ line' = Tail(line)
    /\ UNCHANGED <<fresh, arriving, done>>

Leave(c) ==
    /\ c \in serving
    /\ serving' = serving \ {c}
    /\ done' = done \union {c}
    /\ UNCHANGED <<fresh, arriving, line>>

Next ==
    \/ Serve
    \/ \E c \in Conns : Arrive(c) \/ Join(c) \/ Leave(c)

Spec == Init /\ [][Next]_qvars
============================================================================
