------------------------------ MODULE ByteQueue ------------------------------
(***************************************************************************)
(* What a ring of barebuf.h promises: a bounded queue of bytes.  A write   *)
(* that does not fit keeps what does, a read that asks for too much gets   *)
(* what there is; "taken" is what the last call copied out.                *)
(***************************************************************************)
EXTENDS Integers, Sequences

CONSTANTS
    Inputs,    \* the byte strings a caller writes
    Sizes,     \* the numbers of bytes a caller asks for
    Capacity

VARIABLES queue, taken

Least(m, n) == IF m < n THEN m ELSE n
Front(n) == SubSeq(queue, 1, Least(n, Len(queue)))
Rest(n) == SubSeq(queue, Least(n, Len(queue)) + 1, Len(queue))

QueueInit == queue = <<>> /\ taken = <<>>

Enqueue(s) ==
    /\ queue' = queue \o SubSeq(s, 1, Least(Len(s), Capacity - Len(queue)))
    /\ UNCHANGED taken

Dequeue(n) == queue' = Rest(n) /\ taken' = Front(n)

Look(n) == taken' = Front(n) /\ UNCHANGED queue

Drop(n) == queue' = Rest(n) /\ UNCHANGED taken

Reset == queue' = <<>> /\ UNCHANGED taken

QueueNext ==
    \/ \E s \in Inputs : Enqueue(s)
    \/ \E n \in Sizes : Dequeue(n) \/ Look(n) \/ Drop(n)
    \/ Reset

QueueSpec == QueueInit /\ [][QueueNext]_<<queue, taken>>
=============================================================================
