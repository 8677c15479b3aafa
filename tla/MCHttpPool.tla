----------------------------- MODULE MCHttpPool -----------------------------
(***************************************************************************)
(* The pooled server on an instance small enough for TLC: two workers, a   *)
(* ring of two slots, four clients of which one never sends anything, and  *)
(* one spurious wakeup.  Four connections wrap head around the ring twice, *)
(* fill it, and make both the acceptor and the workers wait.               *)
(***************************************************************************)
EXTENDS HttpPool

CONSTANTS w1, w2, c1, c2, c3, c4

MCWorkers == {w1, w2}
MCConns == {c1, c2, c3, c4}
MCSilent == {c1}
============================================================================
