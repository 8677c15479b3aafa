------------------------------ MODULE ArenaOps ------------------------------
(***************************************************************************)
(* The arena of barestd.h as a value: the chain of its chunks, head first, *)
(* each with a capacity and a position.  A push tries the chunks from the  *)
(* head on and adds a chunk at the end when none has room; scratch_end     *)
(* rewinds the position of the head chunk alone.                           *)
(***************************************************************************)
EXTENDS Integers, Sequences

Chunk(cap) == [cap |-> cap, pos |-> 0]

\* The AlignUp macro; align is a power of two.
AlignUp(n, align) == ((n + align - 1) \div align) * align

Larger(x, y) == IF x > y THEN x ELSE y

Fits(chunk, size, align) == AlignUp(chunk.pos, align) + size <= chunk.cap

\* The chain as arena_push leaves it before it takes the memory: as it was if
\* some chunk has room, one chunk longer if not.
Grown(chunks, size, align) ==
    IF \E i \in DOMAIN chunks : Fits(chunks[i], size, align)
    THEN chunks
    ELSE Append(chunks, Chunk(Larger(2 * chunks[Len(chunks)].cap,
                                     AlignUp(size, align) + align)))

Push_ForgetsPadding(chunks, size, align) ==
    LET grown == Grown(chunks, size, align)
        at == CHOOSE i \in DOMAIN grown :
                 /\ Fits(grown[i], size, align)
                 /\ \A j \in 1..(i - 1) : ~Fits(grown[j], size, align)
        lo == AlignUp(grown[at].pos, align)
    IN  [chunks |-> [grown EXCEPT ![at].pos = @ + size],
         block  |-> [chunk |-> at, lo |-> lo, hi |-> lo + size]]

\* arena_push: the new chain and the block pushed, chunk and bytes lo..hi-1.
Push(chunks, size, align) ==
    LET grown == Grown(chunks, size, align)
        at == CHOOSE i \in DOMAIN grown :
                 /\ Fits(grown[i], size, align)
                 /\ \A j \in 1..(i - 1) : ~Fits(grown[j], size, align)
        lo == AlignUp(grown[at].pos, align)
    IN  [chunks |-> [grown EXCEPT ![at].pos = lo + size],
         block  |-> [chunk |-> at, lo |-> lo, hi |-> lo + size]]

\* arena_pop_to, which scratch_end calls with the position scratch_begin saved.
PopTo(chunks, pos) == [chunks EXCEPT ![1].pos = pos]

\* arena_reset.
Rewound(chunks) == [i \in DOMAIN chunks |-> Chunk(chunks[i].cap)]

----------------------------------------------------------------------------
Overlap(b, c) == b.chunk = c.chunk /\ b.lo < c.hi /\ c.lo < b.hi

\* No later push can touch block b: it lies below its chunk's position.
Protected(chunks, b) == b.hi <= chunks[b.chunk].pos
============================================================================
