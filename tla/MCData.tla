------------------------------- MODULE MCData -------------------------------
(***************************************************************************)
(* The data structures of barebuf.h, barepool.h and barenet.h, the arena   *)
(* of barestd.h with the builder, and the file tree of bareos.h share no   *)
(* state: each behaviour exercises one of them ("subject") and leaves the  *)
(* others in an initial state.                                             *)
(***************************************************************************)
EXTENDS RingBuf, Pool, ConnPool, Memory, Files

CONSTANTS a, b, to

VARIABLE subject

MCN == Rounded(2, 3)
\* Every length from nothing to more than the ring holds.
MCInputs == {<<>>, <<a>>, <<b>>, <<a, b>>, <<b, a, b>>, <<a, b, b, a, b>>}
MCSizes == 0 .. MCN + 1
MCJunk == 0 .. SlotCount - 1

\* A directory, a file or link of the same name as one within it, and one within.
MCPaths == {<<a>>, <<b>>, <<a, b>>}
MCLinks == {[path |-> <<a, b>>, target |-> to]}
MCContents == {<<to>>}

DataInit ==
    /\ PoolInit /\ ConnInit /\ MemInit /\ FilesInit
    /\ subject \in {"ring", "pool", "connections", "memory", "files"}
    /\ IF subject = "ring" THEN RingInit
                           ELSE RingInit /\ buf = [i \in 0 .. N - 1 |-> a]

DataNext ==
    /\ UNCHANGED subject
    /\ \/ /\ subject = "ring" /\ RingNext
          /\ UNCHANGED <<poolVars, connVars, memVars, fileVars>>
       \/ /\ subject = "pool" /\ PoolNext
          /\ UNCHANGED <<ringVars, connVars, memVars, fileVars>>
       \/ /\ subject = "connections" /\ ConnNext
          /\ UNCHANGED <<ringVars, poolVars, memVars, fileVars>>
       \/ /\ subject = "memory" /\ MemNext
          /\ UNCHANGED <<ringVars, poolVars, connVars, fileVars>>
       \/ /\ subject = "files" /\ FilesNext
          /\ UNCHANGED <<ringVars, poolVars, connVars, memVars>>

dataVars == <<subject, ringVars, poolVars, connVars, memVars, fileVars>>

DataSpec == DataInit /\ [][DataNext]_dataVars
=============================================================================
