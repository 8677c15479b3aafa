----------------------------- MODULE MemoryDocs -----------------------------
(***************************************************************************)
(* Memory, with the history that the documentation's promise about         *)
(* sb_to_cstr speaks of.                                                   *)
(***************************************************************************)
EXTENDS Memory

VARIABLE
    cstrs   \* the strings sb_to_cstr returned that no enclosing scope has freed

docVars == <<memVars, cstrs>>

DocInit == MemInit /\ cstrs = {}

\* The strings of the scopes that remain open.
KeepOutside(n) == cstrs' = {s \in cstrs : s.scope <= n}

DocNext ==
    \/ /\ \/ \E size \in PushSizes, align \in Aligns : Alloc(size, align)
          \/ SbWrite \/ SbReset
          \/ ScratchBegin \/ SbMake(SbInitial)
       /\ UNCHANGED cstrs
    \/ (ScratchEnd \/ SbDrop) /\ KeepOutside(Len(scopes) - 1)
    \/ /\ SbToCstr
       /\ cstrs' = cstrs \union {[b EXCEPT !.scope = @ - 1] : b \in blocks' \ (blocks \union {sb'.buf})}
    \/ Reset /\ cstrs' = {}

DocSpec == DocInit /\ [][DocNext]_docVars

----------------------------------------------------------------------------
\* "Copy accumulated bytes + NUL into arena a ... The returned pointer is
\* stable for the lifetime of a." (barebuilder.h:65-69)  A string once
\* returned stays out of reach of later pushes and of the builder's buffer.
CStrStable ==
    \A s \in cstrs :
        /\ Protected(chunks, s)
        /\ sb # NoBuilder => ~Overlap(s, sb.buf)
============================================================================
