------------------------------ MODULE RobinHood ------------------------------
(***************************************************************************)
(* The hash map of barestd.h: an open-addressed table whose capacity is a  *)
(* power of two, filled by the Robin Hood rule (the entry further from its *)
(* home bucket keeps the bucket), emptied by shifting the run behind the   *)
(* deleted entry back, and doubled at three quarters full.  One action is  *)
(* one turn of one of the loops, so that every table the loops pass        *)
(* through is a state.  A bucket is empty when its hash field is 0.          *)
(***************************************************************************)
EXTENDS Integers, FiniteSets

CONSTANTS Keys, Vals, Absent,
          Raw,      \* the FNV-1a hash of each key, before the 0 is replaced
          MinCap,   \* the least capacity (8 in the code)
          MaxCap    \* bound: no call may grow the table beyond it

\* A power of two has no odd divisor but 1.
IsPow2(n) == n > 0 /\ \A d \in 2 .. n : n % d = 0 => d % 2 = 0

ASSUME MapAssumption ==
    /\ Absent \notin Keys \union Vals /\ "nothing" \notin Vals \union {Absent}
    /\ Raw \in [Keys -> Nat]
    /\ MinCap \in Nat /\ MaxCap \in Nat
    /\ IsPow2(MinCap) /\ MinCap >= 4

VARIABLES
    tab,     \* the buckets, a function from 0 .. cap - 1
    len,     \* hdr->len
    pc,      \* the loop that is running, "idle" between calls
    idx,     \* the bucket the loop looks at
    psl,     \* the probe length the loop has counted
    tmp,     \* the entry _map_insert holds in its hand
    arg,     \* the key and value the caller passed
    old,     \* the table being rehashed and the next bucket to move
    ret,     \* the answer of the last call, gone when the next is made
    it,      \* MapIter.i
    seen,    \* the keys this pass of the iterator has returned
    steady   \* whether no entry was moved, added or removed in this pass

callVars == <<pc, idx, psl, tmp, arg, old>>
iterVars == <<it, seen, steady>>
mapVars == <<tab, len, callVars, ret, iterVars>>

CapOf(t) == Cardinality(DOMAIN t)
cap == CapOf(tab)
NextIdx(t, i) == (i + 1) % CapOf(t)
Zeroed == [hash |-> 0, psl |-> 0, key |-> Absent, val |-> Absent]
Empty(n) == [i \in 0 .. n - 1 |-> Zeroed]
NoArg == [key |-> Absent, val |-> Absent]
NoOld == [tab |-> Empty(0), i |-> 0]

\* An all-zero hash would read as an empty bucket, so it becomes 1.
Hash(k) == IF Raw[k] = 0 THEN 1 ELSE Raw[k]

Home(t, k) == Hash(k) % CapOf(t)
Entry(k, v) == [hash |-> Hash(k), psl |-> 0, key |-> k, val |-> v]
IsFree(b) == b.hash = 0
Matches(b, k) == b.hash = Hash(k) /\ b.key = k

\* The load at which _map_set doubles the table before it inserts.
MustGrow(n, c) == n * 4 >= c * 3

MapInit ==
    /\ tab = Empty(MinCap)
    /\ len = 0
    /\ pc = "idle" /\ idx = 0 /\ psl = 0
    /\ tmp = Absent /\ arg = NoArg /\ old = NoOld
    /\ ret = Absent
    /\ it = 0 /\ seen = {} /\ steady = TRUE

\* The entries are about to move: this pass of the iterator is no longer
\* covered by what map_next promises.
Disturb == steady' = FALSE /\ seen' = {} /\ UNCHANGED it

Finish(answer) ==
    /\ pc' = "idle" /\ idx' = 0 /\ psl' = 0
    /\ tmp' = Absent /\ arg' = NoArg /\ old' = NoOld
    /\ ret' = answer

Probe(loop, k, v) ==
    /\ pc = "idle"
    /\ pc' = loop
    /\ idx' = Home(tab, k) /\ psl' = 0
    /\ arg' = [key |-> k, val |-> v] /\ ret' = Absent
    /\ UNCHANGED <<tab, len, tmp, old, iterVars>>

Advance ==
    /\ idx' = NextIdx(tab, idx)
    /\ psl' = psl + 1
    /\ UNCHANGED <<tab, len, pc, tmp, arg, old, ret, iterVars>>

\* A probe has passed every bucket the key could be in.
Missed_AnyPsl(b) == IsFree(b) \/ b.psl <= psl
Missed(b) == IsFree(b) \/ b.psl < psl

MapGet(k) == Probe("get", k, Absent)

GetStep ==
    /\ pc = "get"
    /\ LET b == tab[idx] IN
         IF Missed(b)
           THEN Finish(Absent) /\ UNCHANGED <<tab, len, iterVars>>
         ELSE IF Matches(b, arg.key)
           THEN Finish(b.val) /\ UNCHANGED <<tab, len, iterVars>>
         ELSE Advance

Del(k) == Probe("del", k, Absent)

DelStep ==
    /\ pc = "del"
    /\ LET b == tab[idx] IN
         IF Missed(b)
           THEN Finish("false") /\ UNCHANGED <<tab, len, iterVars>>
         ELSE IF Matches(b, arg.key)
           THEN /\ pc' = "shift"
                /\ Disturb
                /\ UNCHANGED <<tab, len, idx, psl, tmp, arg, old, ret>>
         ELSE Advance

\* The run ends at an empty bucket or at an entry that is at home.
ShiftEnds(nb) == IsFree(nb) \/ nb.psl = 0

ShiftStep ==
    /\ pc = "shift"
    /\ LET next == NextIdx(tab, idx)
           nb   == tab[next]
       IN IF ShiftEnds(nb)
            THEN /\ tab' = [tab EXCEPT ![idx] = Zeroed]
                 /\ len' = len - 1
                 /\ Finish("true")
                 /\ UNCHANGED iterVars
            ELSE /\ tab' = [tab EXCEPT ![idx] = [nb EXCEPT !.psl = @ - 1]]
                 /\ idx' = next
                 /\ UNCHANGED <<len, pc, psl, tmp, arg, old, ret, iterVars>>

StartInsert(t, e) ==
    /\ pc' = "insert"
    /\ idx' = e.hash % CapOf(t)
    /\ tmp' = [e EXCEPT !.psl = 0]

Set(k, v) ==
    /\ pc = "idle"
    /\ arg' = [key |-> k, val |-> v] /\ ret' = Absent
    /\ psl' = 0
    /\ IF MustGrow(len, cap)
         THEN /\ 2 * cap <= MaxCap
              /\ tab' = Empty(2 * cap)
              /\ len' = 0
              /\ old' = [tab |-> tab, i |-> 0]
              /\ pc' = "rehash" /\ idx' = 0 /\ tmp' = Absent
              /\ Disturb
         ELSE /\ StartInsert(tab, Entry(k, v))
              /\ UNCHANGED <<tab, len, old, iterVars>>

Moving == old # NoOld

NextToMove_StaysOnFree(i) == IF IsFree(old.tab[i]) THEN i ELSE i + 1
NextToMove(i) == i + 1

\* The rehash loop takes the next bucket, or ends and inserts the argument.
Rehash ==
    /\ pc = "rehash"
    /\ IF old.i < CapOf(old.tab)
         THEN /\ old' = [old EXCEPT !.i = NextToMove(@)]
              /\ LET b == old.tab[old.i] IN
                   IF IsFree(b) THEN UNCHANGED <<pc, idx, tmp>>
                                ELSE StartInsert(tab, b)
         ELSE /\ old' = NoOld
              /\ StartInsert(tab, Entry(arg.key, arg.val))
    /\ UNCHANGED <<tab, len, psl, arg, ret, iterVars>>

\* _map_insert returns: to the rehash loop, or to the caller.
InsertReturns ==
    IF Moving
      THEN pc' = "rehash" /\ idx' = 0 /\ tmp' = Absent
           /\ UNCHANGED <<psl, arg, old, ret>>
      ELSE Finish("void")

PutInFree ==
    /\ IsFree(tab[idx])
    /\ tab' = [tab EXCEPT ![idx] = tmp]
    /\ len' = len + 1
    /\ InsertReturns
    /\ Disturb

Overwrite ==
    /\ ~IsFree(tab[idx]) /\ Matches(tab[idx], tmp.key)
    /\ tab' = [tab EXCEPT ![idx].val = tmp.val]
    /\ InsertReturns
    /\ UNCHANGED <<len, iterVars>>

\* The entry in hand is further from home: it takes the bucket.
Richer(b, e) == b.psl < e.psl

Carry_KeepsPsl(b) == b
Carry(b) == [b EXCEPT !.psl = @ + 1]

PassOn ==
    LET b == tab[idx] IN
    /\ ~IsFree(b) /\ ~Matches(b, tmp.key)
    /\ IF Richer(b, tmp)
         THEN tab' = [tab EXCEPT ![idx] = tmp] /\ tmp' = Carry(b) /\ Disturb
         ELSE tmp' = Carry(tmp) /\ UNCHANGED <<tab, iterVars>>
    /\ idx' = NextIdx(tab, idx)
    /\ UNCHANGED <<len, pc, psl, arg, old, ret>>

InsertStep == pc = "insert" /\ (PutInFree \/ Overwrite \/ PassOn)

\* map_clear zeroes the buckets and the length.
ClearMap ==
    /\ pc = "idle"
    /\ tab' = Empty(cap)
    /\ len' = 0
    /\ Disturb
    /\ ret' = Absent
    /\ UNCHANGED callVars

\* A caller sets MapIter.i to 0.
StartIteration ==
    /\ pc = "idle"
    /\ it' = 0 /\ seen' = {} /\ steady' = TRUE
    /\ UNCHANGED <<tab, len, callVars, ret>>

NextFull_Skips(i) == {j \in i + 1 .. cap - 1 : ~IsFree(tab[j])}
NextFull(i) == {j \in i .. cap - 1 : ~IsFree(tab[j])}

\* map_next: the loop over empty buckets is one step.
MapNext ==
    /\ pc = "idle"
    /\ it < cap
    /\ IF NextFull(it) = {}
         THEN /\ it' = cap
              /\ UNCHANGED seen
         ELSE LET j == CHOOSE j \in NextFull(it) :
                         \A h \in NextFull(it) : j <= h
              IN /\ it' = j + 1
                 /\ seen' = IF steady THEN seen \union {tab[j].key} ELSE {}
    /\ UNCHANGED <<tab, len, callVars, ret, steady>>

Step == GetStep \/ DelStep \/ ShiftStep \/ Rehash \/ InsertStep

MapCall ==
    \/ \E k \in Keys : MapGet(k) \/ Del(k)
    \/ \E k \in Keys, v \in Vals : Set(k, v)
    \/ ClearMap
    \/ StartIteration
    \/ MapNext

TableNext == Step \/ MapCall

MapSpec == MapInit /\ [][TableNext]_mapVars

\* A call runs to its end: nothing preempts a loop for ever.
FairMapSpec == MapSpec /\ WF_mapVars(Step)

-----------------------------------------------------------------------------
Full(t) == {i \in DOMAIN t : ~IsFree(t[i])}
Prev(t, i) == (i + CapOf(t) - 1) % CapOf(t)

Bucket(e) ==
    /\ DOMAIN e = {"hash", "psl", "key", "val"}
    /\ e.hash \in Nat /\ e.psl \in Nat
    /\ e.key \in Keys /\ e.val \in Vals
    /\ e.hash = Hash(e.key)

Table(t) ==
    /\ DOMAIN t = 0 .. CapOf(t) - 1
    /\ IsPow2(CapOf(t)) /\ CapOf(t) >= MinCap
    /\ \A i \in DOMAIN t : t[i] = Zeroed \/ Bucket(t[i])

(* The variables are what the C declarations and the loops allow: a table  *)
(* of a power-of-two capacity (so that "& (cap - 1)" is "% cap"), a hand   *)
(* that holds an entry exactly while _map_insert runs, an old table        *)
(* exactly while a rehash runs.                                            *)
MapTypeOK ==
    /\ Table(tab)
    /\ len \in 0 .. cap
    /\ pc \in {"idle", "get", "del", "shift", "insert", "rehash"}
    /\ idx \in DOMAIN tab
    /\ psl \in Nat
    /\ IF pc = "insert" THEN Bucket(tmp) ELSE tmp = Absent
    /\ arg = NoArg <=> pc = "idle"
    /\ arg.key \in Keys \union {Absent} /\ arg.val \in Vals \union {Absent}
    /\ pc = "rehash" => Moving
    /\ Moving => pc \in {"insert", "rehash"} /\ Table(old.tab)
                 /\ old.i \in 0 .. CapOf(old.tab)
    /\ it \in Nat
    /\ seen \in SUBSET Keys
    /\ steady \in BOOLEAN

(* The rule every early exit of _map_get and _map_del relies on: an entry  *)
(* lies psl buckets behind its home, and the bucket before a displaced     *)
(* entry holds one that is displaced at least as far, less one.  It holds  *)
(* in the middle of an insertion, a backward shift and a rehash as well.   *)
RobinHoodOrder ==
    \A i \in Full(tab) :
        /\ (Home(tab, tab[i].key) + tab[i].psl) % cap = i
        /\ tab[i].psl < cap
        /\ tab[i].psl > 0 => /\ Prev(tab, i) \in Full(tab)
                             /\ tab[Prev(tab, i)].psl >= tab[i].psl - 1

\* The bucket a backward shift is emptying still holds a copy of the entry
\* it moved: it is no longer the map's.
Held == IF pc = "shift" THEN Full(tab) \ {idx} ELSE Full(tab)

Unmoved == IF Moving THEN {i \in Full(old.tab) : i >= old.i} ELSE {}

\* The entry in hand belongs to the map unless it is the caller's new one.
Displaced == pc = "insert" /\ (Moving \/ tmp.key # arg.key)

(* No key is in two places, whatever was displaced, shifted or rehashed:   *)
(* the table, the entries still to be rehashed and the entry in hand hold  *)
(* each key once.                                                          *)
OneEntryPerKey ==
    /\ \A i, j \in Held : tab[i].key = tab[j].key => i = j
    /\ \A i \in Held, j \in Unmoved : tab[i].key # old.tab[j].key
    /\ Displaced => /\ \A i \in Held : tab[i].key # tmp.key
                    /\ \A j \in Unmoved : old.tab[j].key # tmp.key

(* hdr->len is the number of entries, which the load test and the slices   *)
(* of map_keys and map_values rely on, and it stays below the capacity, so *)
(* that every probe meets an empty bucket.                                 *)
LenIsCount ==
    /\ len = IF pc = "shift" THEN Cardinality(Held) + 1 ELSE Cardinality(Full(tab))
    /\ len < cap

(* Every table the loops of set, del, rehash and clear pass through is one *)
(* the early exits of every probe may trust: well-formed, in Robin Hood    *)
(* order, with each key in one place and an empty bucket to stop at.       *)
MapSound == MapTypeOK /\ RobinHoodOrder /\ OneEntryPerKey /\ LenIsCount

Present == {tab[i].key : i \in Full(tab)}

(* A pass of map_next that no call disturbs returns every key of the map   *)
(* once and then ends; overwriting a value below the load limit does not   *)
(* disturb it, wherever the iterator stands.                               *)
IterationExact ==
    [][steady /\ it' > it =>
         \/ \E k \in Present \ seen : seen' = seen \union {k}
         \/ it' = cap /\ seen' = seen /\ seen = Present]_mapVars

-----------------------------------------------------------------------------

ValueIn(t, S, k) ==
    IF \E i \in S : t[i].key = k
      THEN t[CHOOSE i \in S : t[i].key = k].val
      ELSE Absent

StoredAt(k) ==
    IF Displaced /\ tmp.key = k THEN tmp.val
    ELSE IF ValueIn(tab, Held, k) # Absent THEN ValueIn(tab, Held, k)
    ELSE ValueIn(old.tab, Unmoved, k)

Setting == pc \in {"insert", "rehash"}
Deleting == pc \in {"del", "shift"}

\* The finite map the buckets, the hand, the old table and the call stand for.
MapContents ==
    [k \in Keys |-> IF k = arg.key /\ Setting THEN arg.val
                    ELSE IF k = arg.key /\ Deleting THEN Absent
                    ELSE StoredAt(k)]

Due ==
    IF pc = "get" THEN StoredAt(arg.key)
    ELSE IF pc = "shift" THEN "true"
    ELSE IF pc = "del" THEN IF StoredAt(arg.key) = Absent THEN "false" ELSE "true"
    ELSE IF Setting THEN "void"
    ELSE "nothing"

Abstract == INSTANCE Dict WITH dict <- MapContents, due <- Due

(* The table implements a finite map: whatever the collisions, the         *)
(* displacements, the shifts and the rehashes, a get answers the value of  *)
(* the last set of its key and a del whether the key was there.            *)
ImplementsDict == Abstract!DictSpec

(* No probe loop runs for ever: every call returns.                        *)
EveryCallReturns == []<>(pc = "idle")
=============================================================================
