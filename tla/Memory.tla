------------------------------- MODULE Memory -------------------------------
(***************************************************************************)
(* One arena of barestd.h and its clients: direct pushes, nested scratch   *)
(* scopes, and a StrBuilder of barebuilder.h, whose buffer is a slice of   *)
(* the arena and whose mark is a scratch scope of its own.  Clients follow *)
(* the one discipline the code asserts in part (barestd.h:318): scopes end *)
(* innermost first, and a builder is used while its scope is the innermost.*)
(*                                                                         *)
(* A block belongs to the scope it was pushed in and lives until that      *)
(* scope ends.  What is written into a block is left out: a block keeps    *)
(* its contents exactly when no other live block overlaps it.              *)
(***************************************************************************)
EXTENDS ArenaOps, FiniteSets

CONSTANTS
    HeadCap,     \* the capacity of the arena's first chunk
    PushSizes,       \* the sizes clients push
    Aligns,      \* the alignments they ask for
    SliceHdr,    \* SLICE_HDR_OFFSET
    SliceAlign,  \* the alignment _slice_make asks for (16 in the code)
    SbInitial,   \* the capacity a builder starts with (256 in the code)
    MaxLen,      \* bound: characters in the builder
    MaxScopes,   \* bound: nested scopes
    MaxBlocks,   \* bound: live blocks
    MaxChunks,   \* bound: chunks in the chain
    NoBuilder

ASSUME MemoryAssumption ==
    /\ HeadCap \in Nat \ {0}
    /\ PushSizes \subseteq Nat
    /\ Aligns \subseteq Nat \ {0}
    /\ SliceHdr \in Nat /\ SliceAlign \in Nat \ {0} /\ SbInitial \in Nat \ {0}
    /\ MaxLen \in Nat /\ MaxScopes \in Nat /\ MaxBlocks \in Nat
    /\ MaxChunks \in Nat \ {0}

VARIABLES
    chunks,  \* the arena
    scopes,  \* the positions saved by the open scratches, outermost first
    blocks,  \* the live blocks, each with the number of scopes it is inside
    sb       \* the StrBuilder, NoBuilder when there is none

memVars == <<chunks, scopes, blocks, sb>>

Owned(block, scope) ==
    [chunk |-> block.chunk, lo |-> block.lo, hi |-> block.hi, scope |-> scope]

\* What is left of a set of blocks when the innermost n scopes remain open.
Outside(set, n) == {b \in set : b.scope <= n}

MemInit ==
    /\ chunks = <<Chunk(HeadCap)>>
    /\ scopes = <<>>
    /\ blocks = {}
    /\ sb = NoBuilder

----------------------------------------------------------------------------
(* barestd.h *)

Alloc(size, align) ==
    LET pushed == Push(chunks, size, align)
    IN  /\ Cardinality(blocks) < MaxBlocks
        /\ chunks' = pushed.chunks /\ Len(chunks') <= MaxChunks
        /\ blocks' = blocks \union {Owned(pushed.block, Len(scopes))}
        /\ UNCHANGED <<scopes, sb>>

ScratchBegin ==
    /\ Len(scopes) < MaxScopes
    /\ scopes' = Append(scopes, chunks[1].pos)
    /\ UNCHANGED <<chunks, blocks, sb>>

BuilderScope == IF sb = NoBuilder THEN 0 ELSE sb.scope
Mark == scopes[Len(scopes)]

ScratchEnd ==
    /\ Len(scopes) > BuilderScope
    /\ chunks' = PopTo(chunks, Mark)
    /\ scopes' = SubSeq(scopes, 1, Len(scopes) - 1)
    /\ blocks' = Outside(blocks, Len(scopes) - 1)
    /\ UNCHANGED sb

\* arena_reset: the caller has given up everything the arena holds.
Reset ==
    /\ chunks' = Rewound(chunks)
    /\ scopes' = <<>>
    /\ blocks' = {}
    /\ sb' = NoBuilder

----------------------------------------------------------------------------
(* barebuilder.h, and the slice a builder writes into *)

\* _slice_make: a header and cap elements, of one byte each for a builder.
SliceMake(ar, cap) == Push(ar, SliceHdr + cap, SliceAlign)

Builder(buf, scope, len, cap) == [buf |-> buf, scope |-> scope, len |-> len, cap |-> cap]

SbMake(cap) ==
    LET scope == Len(scopes) + 1
        made == SliceMake(chunks, cap)
        buf == Owned(made.block, scope)
    IN  /\ sb = NoBuilder
        /\ Len(scopes) < MaxScopes
        /\ scopes' = Append(scopes, chunks[1].pos)
        /\ chunks' = made.chunks /\ Len(chunks') <= MaxChunks
        /\ blocks' = blocks \union {buf}
        /\ sb' = Builder(buf, scope, 0, cap)

BuilderInUse == sb # NoBuilder /\ Len(scopes) = sb.scope

SbWrite_OldPointer ==
    /\ BuilderInUse
    /\ sb.len < MaxLen
    /\ \/ /\ sb.len < sb.cap
          /\ UNCHANGED <<chunks, blocks>>
       \/ LET made == SliceMake(chunks, 2 * sb.cap)
          IN  /\ sb.len >= sb.cap
              /\ chunks' = made.chunks /\ Len(chunks') <= MaxChunks
              /\ UNCHANGED blocks
    /\ sb' = [sb EXCEPT !.len = @ + 1]
    /\ UNCHANGED scopes

\* sb_write_char; the other writers of the builder repeat it.  _slice_push_raw
\* moves a full slice to a block of twice its capacity and leaves the old one.
SbWrite ==
    /\ BuilderInUse
    /\ sb.len < MaxLen
    /\ \/ /\ sb.len < sb.cap
          /\ sb' = [sb EXCEPT !.len = @ + 1]
          /\ UNCHANGED <<chunks, blocks>>
       \/ LET newCap == 2 * sb.cap
              made == SliceMake(chunks, newCap)
              buf == Owned(made.block, sb.scope)
          IN  /\ sb.len >= sb.cap
              /\ chunks' = made.chunks /\ Len(chunks') <= MaxChunks
              /\ blocks' = (blocks \ {sb.buf}) \union {buf}
              /\ sb' = Builder(buf, sb.scope, sb.len + 1, newCap)
    /\ UNCHANGED scopes

\* The builder's scope ends, begins again at the same mark, and holds a new
\* slice: the common part of sb_to_cstr and sb_reset.
Restarted == SliceMake(PopTo(chunks, Mark), SbInitial)

SbReset ==
    LET buf == Owned(Restarted.block, sb.scope)
    IN  /\ BuilderInUse
        /\ chunks' = Restarted.chunks /\ Len(chunks') <= MaxChunks
        /\ blocks' = Outside(blocks, sb.scope - 1) \union {buf}
        /\ sb' = Builder(buf, sb.scope, 0, SbInitial)
        /\ UNCHANGED scopes

\* sb_to_cstr with the builder's own arena as the destination.  The text goes
\* through a local array, so the string is pushed after the scope has started
\* again: to the code it is part of the builder's scope.
SbToCstr ==
    LET buf == Owned(Restarted.block, sb.scope)
        out == Push(Restarted.chunks, sb.len + 1, 1)
    IN  /\ BuilderInUse
        /\ chunks' = out.chunks /\ Len(chunks') <= MaxChunks
        /\ blocks' = Outside(blocks, sb.scope - 1) \union {buf, Owned(out.block, sb.scope)}
        /\ sb' = Builder(buf, sb.scope, 0, SbInitial)
        /\ UNCHANGED scopes

\* The caller abandons a builder, keeping what its scope holds: the enclosing
\* scope takes it over.
SbDrop ==
    /\ BuilderInUse
    /\ sb' = NoBuilder
    /\ scopes' = SubSeq(scopes, 1, sb.scope - 1)
    /\ blocks' = {[b EXCEPT !.scope = IF @ >= sb.scope THEN sb.scope - 1 ELSE @] :
                    b \in blocks \ {sb.buf}}
    /\ UNCHANGED chunks

----------------------------------------------------------------------------
MemNext ==
    \/ \E size \in PushSizes, align \in Aligns : Alloc(size, align)
    \/ ScratchBegin
    \/ ScratchEnd
    \/ Reset
    \/ SbMake(SbInitial)
    \/ SbWrite
    \/ SbReset
    \/ SbToCstr
    \/ SbDrop

MemSpec == MemInit /\ [][MemNext]_memVars

----------------------------------------------------------------------------
BlockType == [chunk : DOMAIN chunks, lo : Nat, hi : Nat, scope : 0..MaxScopes]

\* Types; a chunk's position never passes its capacity (Arena, barestd.h:69).
MemTypeOK ==
    /\ \A i \in DOMAIN chunks : chunks[i].pos \in 0..chunks[i].cap
    /\ Len(scopes) \in 0..MaxScopes
    /\ blocks \subseteq BlockType
    /\ sb # NoBuilder => sb.buf \in BlockType /\ sb.scope \in 1..MaxScopes

\* No two live blocks share a byte, wherever the pushes landed: a scope that
\* ends gives back only what was pushed inside it, also when pushes went to
\* other chunks of the chain in between (arena_push, scratch_end).
LiveDisjoint == \A b, c \in blocks : b # c => ~Overlap(b, c)

\* Every live block is below its chunk's position, out of reach of the next
\* arena_push.
LiveProtected == \A b \in blocks : Protected(chunks, b)

\* arena_pop_to's assertion never fires: the marks of the open scopes never
\* run ahead of the head chunk's position, and grow from the outermost in.
MarksInOrder ==
    /\ \A i \in DOMAIN scopes : scopes[i] <= chunks[1].pos
    /\ \A i, j \in DOMAIN scopes : i < j => scopes[i] <= scopes[j]

\* The builder's buffer is a live block that holds its text, whatever grew,
\* ended or was converted before.
BuilderBuffer ==
    sb # NoBuilder => /\ sb.buf \in blocks
                 /\ sb.len <= sb.cap
                 /\ sb.buf.hi - sb.buf.lo = SliceHdr + sb.cap
                 /\ sb.scope <= Len(scopes)

\* What a holder of a block relies on, whatever scopes began and ended around it,
\* wherever the pushes landed: nobody else has a byte of it, the next arena_push
\* does not reach it, and the scopes still open can end in their order.
ArenaSound == MemTypeOK /\ LiveDisjoint /\ LiveProtected /\ MarksInOrder
============================================================================
