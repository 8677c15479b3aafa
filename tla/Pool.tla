-------------------------------- MODULE Pool --------------------------------
(***************************************************************************)
(* The slab of barepool.h: cap slots whose first word is the link of the   *)
(* free list while the slot is free, and the user's data while it is lent. *)
(* A pointer is the index of its slot; None is NULL.  The callers keep the *)
(* contract of the header: pool_free gets a pointer that pool_alloc        *)
(* returned and that was not freed since (or NULL), and a pointer is not   *)
(* used after pool_reset.                                                  *)
(***************************************************************************)
EXTENDS Integers, FiniteSets

CONSTANTS
    SlotCount,   \* p->cap
    None,        \* NULL
    Junk         \* what a user may write over the first word of a slot

ASSUME PoolAssumption ==
    /\ SlotCount \in Nat \ {0}
    /\ None \notin Nat
    /\ Junk \subseteq Nat \union {None}

VARIABLES
    word,       \* the first word of each slot
    freeList,   \* p->free_list
    used,       \* p->used
    lent        \* the slots callers hold

poolVars == <<word, freeList, used, lent>>

Slots == 0 .. SlotCount - 1

\* The loop of pool_make and pool_reset that threads all slots.
Threaded_OneShort ==
    [s \in Slots |-> IF s + 2 < SlotCount THEN s + 1 ELSE None]
Threaded ==
    [s \in Slots |-> IF s + 1 < SlotCount THEN s + 1 ELSE None]

PoolInit ==
    /\ word = Threaded
    /\ freeList = 0
    /\ used = 0
    /\ lent = {}

Popped_KeepsHead == freeList
Popped == word[freeList]

PoolAlloc ==
    /\ freeList # None
    /\ lent' = lent \union {freeList}
    /\ freeList' = Popped
    /\ used' = used + 1
    /\ UNCHANGED word

\* pool_alloc on an exhausted pool answers NULL and changes nothing, as does
\* pool_free of NULL.
PoolFree(s) ==
    /\ s \in lent
    /\ word' = [word EXCEPT ![s] = freeList]
    /\ freeList' = s
    /\ used' = used - 1
    /\ lent' = lent \ {s}

PoolReset ==
    /\ word' = Threaded
    /\ freeList' = 0
    /\ used' = 0
    /\ lent' = {}

\* The holder of a slot writes its object over the link.
UserWrites(s, j) ==
    /\ s \in lent
    /\ word' = [word EXCEPT ![s] = j]
    /\ UNCHANGED <<freeList, used, lent>>

PoolNext ==
    \/ PoolAlloc
    \/ \E s \in Slots : PoolFree(s) \/ \E j \in Junk : UserWrites(s, j)
    \/ PoolReset

PoolSpec == PoolInit /\ [][PoolNext]_poolVars

-----------------------------------------------------------------------------

(* The head of the free list is a slot or NULL, never an address beyond    *)
(* the slab.                                                               *)
PoolTypeOK ==
    /\ word \in [Slots -> Nat \union {None}]
    /\ freeList \in Slots \union {None}
    /\ used \in 0 .. SlotCount
    /\ lent \subseteq Slots

\* c lists the m free slots in the order of the links.
FreeChain(c, m) ==
    /\ \A i, j \in 0 .. m - 1 : c[i] = c[j] => i = j
    /\ \A s \in Slots : s \in lent <=> \A i \in 0 .. m - 1 : c[i] # s
    /\ freeList = IF m = 0 THEN None ELSE c[0]
    /\ \A i \in 0 .. m - 1 : word[c[i]] = IF i + 1 < m THEN c[i + 1] ELSE None

(* Following the links from free_list meets every slot nobody holds once   *)
(* and no slot anybody holds, in as many steps as cap - used, whatever the *)
(* holders write into their slots and in whatever order they free them.    *)
(* So pool_is_full answers what pool_alloc's NULL does, and no free slot   *)
(* is lost.                                                                *)
FreeListExact ==
    LET m == SlotCount - used
    IN  \E c \in [0 .. m - 1 -> Slots] : FreeChain(c, m)

(* pool_alloc never hands out a slot somebody holds.                       *)
FreshLoan == [][used' > used => lent' # lent]_poolVars
=============================================================================
