-------------------------- MODULE RobinHood_proofs --------------------------
(***************************************************************************)
(* Proofs about the hash map, for any keys, any hash function and any      *)
(* capacity.  A step of a loop changes one bucket, so the first part says  *)
(* what one changed bucket does to the Robin Hood order of a table         *)
(* (Place, Shift, Vacate) and what that order tells a probe (ChainBack,    *)
(* Reached, RoomLeft); the second follows the calls; the third follows     *)
(* the caller's argument and shows that the table implements a finite map. *)
(***************************************************************************)
EXTENDS RobinHood, RingLemmas, FiniteSetTheorems, TLAPS

-----------------------------------------------------------------------------
\* Doubling keeps the capacity a power of two.
LEMMA PowDouble ==
    ASSUME NEW n \in Nat, IsPow2(n)
    PROVE  IsPow2(2 * n)
<1> SUFFICES ASSUME NEW d \in 2 .. 2 * n, (2 * n) % d = 0, d % 2 # 0
             PROVE  FALSE
    BY DEF IsPow2
<1> DEFINE a == d \div 2
           q == (2 * n) \div d
<1>1. a \in Int /\ d = 2 * a + (d % 2) /\ (d % 2) \in 0 .. 1
    BY DivMod
<1>2. d = 2 * a + 1
    BY <1>1
<1>3. q \in Int /\ 2 * n = d * q + ((2 * n) % d)
    BY DivMod
<1>4. 2 * n = d * q
    BY <1>3
<1> HIDE DEF a, q
<1> DEFINE p == a * q
<1>5. p \in Int /\ d * q = 2 * p + q
    <2>1. (2 * a + 1) * q = (2 * a) * q + 1 * q
        BY <1>1, <1>3
    <2>2. (2 * a) * q = 2 * p
        BY <1>1, <1>3
    <2> QED
        BY <1>1, <1>2, <1>3, <2>1, <2>2
<1> HIDE DEF p
<1> DEFINE r == n - p
<1>6. r \in Int /\ q = 2 * r
    BY <1>3, <1>4, <1>5
<1> HIDE DEF r
<1>7. d * q = 2 * (d * r) /\ d * r \in Int
    BY <1>6
<1>8. d * r = n
    BY <1>4, <1>7
<1>9. n % d = 0
    <2>0. d \in Nat \ {0} /\ 0 \in Int
        OBVIOUS
    <2>1. (0 + d * r) % d = 0 % d
        BY <1>6, <2>0, ModPlusMultiple
    <2>2. 0 % d = 0
        BY ModSmall
    <2> QED
        BY <1>8, <2>1, <2>2
<1>10. n > 0
    BY DEF IsPow2
<1>11. r >= 1
    <2> SUFFICES ASSUME r <= 0 PROVE FALSE
        BY <1>6
    <2>1. d * r <= 0
        BY <1>6
    <2> QED
        BY <1>8, <1>10, <2>1
<1>12. d <= n
    <2>1. d * (r - 1) >= 0 /\ d * (r - 1) = d * r - d
        BY <1>6, <1>11
    <2> QED
        BY <1>8, <2>1
<1> QED
    BY <1>9, <1>12 DEF IsPow2

\* The bucket before and the bucket behind.
Before(i, n) == (i + n - 1) % n
After(i, n) == (i + 1) % n

\* Around the table there is always a bucket before and a bucket behind.
LEMMA Neighbours ==
    ASSUME NEW n \in Nat, n >= 4, NEW i \in 0 .. n - 1
    PROVE  /\ Before(i, n) = IF i = 0 THEN n - 1 ELSE i - 1
           /\ After(i, n) = IF i = n - 1 THEN 0 ELSE i + 1
<1> DEFINE x == i + n - 1
           y == i + 1
<1>1. x \in 0 .. (2 * n - 1) /\ y \in 0 .. (2 * n - 1) /\ n \in Nat \ {0}
    OBVIOUS
<1>2. Before(i, n) = x % n /\ After(i, n) = y % n
    BY DEF Before, After
<1>3. (x < n <=> i = 0) /\ (y < n <=> i # n - 1) /\ x - n = i - 1 /\ y - n = i + 1 - n
    OBVIOUS
<1> HIDE DEF x, y
<1>4. x % n = IF x < n THEN x ELSE x - n
    BY <1>1, ModBelow
<1>5. y % n = IF y < n THEN y ELSE y - n
    BY <1>1, ModBelow
<1> QED
    BY <1>2, <1>3, <1>4, <1>5 DEF x, y

\* They undo each other, and neither is the bucket itself.
LEMMA NeighboursAreApart ==
    ASSUME NEW n \in Nat, n >= 4, NEW i \in 0 .. n - 1
    PROVE  /\ Before(i, n) \in 0 .. n - 1 /\ After(i, n) \in 0 .. n - 1
           /\ Before(After(i, n), n) = i /\ After(Before(i, n), n) = i
           /\ Before(i, n) # i /\ After(i, n) # i
           /\ \A j \in 0 .. n - 1 : Before(j, n) = i => j = After(i, n)
<1>1. \A k \in 0 .. n - 1 :
         /\ Before(k, n) = IF k = 0 THEN n - 1 ELSE k - 1
         /\ After(k, n) = IF k = n - 1 THEN 0 ELSE k + 1
    BY Neighbours
<1>2. Before(i, n) \in 0 .. n - 1 /\ After(i, n) \in 0 .. n - 1
    BY <1>1
<1>3. Before(After(i, n), n) = i /\ After(Before(i, n), n) = i
    BY <1>1, <1>2
<1>4. Before(i, n) # i /\ After(i, n) # i
    BY <1>1
<1>5. \A j \in 0 .. n - 1 : Before(j, n) = i => j = After(i, n)
    BY <1>1
<1> QED
    BY <1>2, <1>3, <1>4, <1>5

-----------------------------------------------------------------------------
EntryType == [hash : Nat, psl : Nat, key : Keys, val : Vals]
Good(e) == e \in EntryType /\ e.hash = Hash(e.key)

\* A table of n buckets.
Tab(t, n) ==
    /\ n \in Nat /\ n >= 4
    /\ t = [i \in 0 .. n - 1 |-> t[i]]
    /\ \A i \in 0 .. n - 1 : t[i] = Zeroed \/ Good(t[i])

Used(t, n) == {i \in 0 .. n - 1 : t[i] # Zeroed}

\* The bucket an entry is in follows from its hash and its probe length; one of
\* probe length x may stand behind a bucket whose entry is not much nearer home.
At(e, n, i) == (e.hash + e.psl) % n = i /\ e.psl < n
May(t, n, i, x) == x > 0 => t[Before(i, n)] # Zeroed /\ t[Before(i, n)].psl >= x - 1

Order(t, n) == \A i \in 0 .. n - 1 : t[i] # Zeroed => At(t[i], n, i) /\ May(t, n, i, t[i].psl)

\* The bucket of an entry never reads as empty: its hash is not 0.
LEMMA GoodIsFull ==
    ASSUME NEW e, Good(e)
    PROVE  e # Zeroed /\ ~IsFree(e) /\ e.psl \in Nat /\ e.hash \in Nat /\ e.key \in Keys /\ e.val \in Vals
<1>1. e.psl \in Nat /\ e.hash \in Nat /\ e.key \in Keys /\ e.val \in Vals /\ e.hash = Hash(e.key)
    BY DEF Good, EntryType
<1>2. e.hash # 0
    BY <1>1, MapAssumption DEF Hash
<1> QED
    BY <1>1, <1>2 DEF Zeroed, IsFree

\* A bucket that reads as empty is all zero.
LEMMA FreeIsZeroed ==
    ASSUME NEW t, NEW n, Tab(t, n), NEW i \in 0 .. n - 1
    PROVE  /\ IsFree(t[i]) <=> t[i] = Zeroed
           /\ t[i] # Zeroed => Good(t[i]) /\ t[i].psl \in Nat /\ t[i].hash \in Nat
<1>1. IsFree(Zeroed)
    BY DEF IsFree, Zeroed
<1> QED
    BY <1>1, GoodIsFull DEF Tab

\* From a bucket where an entry of probe length x may stand, the x buckets before
\* it are full, each with an entry at least as far from home as it must be.
LEMMA ChainBack ==
    ASSUME NEW t, NEW n, Tab(t, n), Order(t, n), NEW i \in 0 .. n - 1,
           NEW x \in Nat, May(t, n, i, x), NEW j \in 1 .. x
    PROVE  t[(i - j) % n] # Zeroed /\ t[(i - j) % n].psl >= x - j
<1> DEFINE B(k) == (i - k) % n
           S == {k \in 1 .. x : ~(t[B(k)] # Zeroed /\ t[B(k)].psl >= x - k)}
<1>0. n \in Nat \ {0} /\ n >= 4 /\ n - 1 \in Int /\ n % n = 0
    BY ModSelf DEF Tab
<1>1. ASSUME S # {} PROVE FALSE
    <2>1. S \subseteq Nat
        OBVIOUS
    <2>2. PICK k \in S : \A h \in S : ~(h < k)
        BY <1>1, <2>1, FirstExists
    <2>3. k \in 1 .. x /\ ~(t[B(k)] # Zeroed /\ t[B(k)].psl >= x - k)
        OBVIOUS
    <2>4. CASE k = 1
        <3>1. i - 1 \in Int /\ 1 \in Int
            OBVIOUS
        <3>2. ((i - 1) + n * 1) % n = (i - 1) % n
            BY <1>0, <3>1, ModPlusMultiple
        <3>3. i + n - 1 = (i - 1) + n * 1
            BY <1>0
        <3>4. Before(i, n) = B(1)
            BY <3>2, <3>3 DEF Before
        <3> QED
            BY <2>3, <2>4, <3>4 DEF May
    <2>5. CASE k > 1
        <3> DEFINE c == B(k - 1)
        <3>1. k - 1 \in 1 .. x /\ k - 1 < k /\ i - (k - 1) \in Int
            BY <2>3, <2>5
        <3>2. k - 1 \notin S
            BY <2>2, <3>1
        <3>3. t[c] # Zeroed /\ t[c].psl >= x - (k - 1)
            BY <3>1, <3>2
        <3>4. c \in 0 .. n - 1
            BY <1>0, <3>1, DivMod
        <3>5. Before(c, n) = B(k)
            <4> DEFINE y == i - (k - 1)
                       z == n - 1
            <4>1. y \in Int /\ z \in Int /\ c = y % n /\ i - k \in Int /\ 1 \in Int
                BY <1>0, <2>3, <3>1
            <4>2. y + z = (i - k) + n * 1 /\ c + n - 1 = c + z
                BY <1>0, <2>3, <3>4
            <4> HIDE DEF y, z, c
            <4>3. ((y % n) + z) % n = (y + z) % n
                <5>1. y \in Int /\ z \in Int /\ n \in Nat \ {0} /\ n % n = 0
                    BY <1>0, <4>1
                <5> QED
                    BY <5>1, ModInSum, Zenon
            <4>4. ((i - k) + n * 1) % n = (i - k) % n
                BY <1>0, <4>1, ModPlusMultiple
            <4> QED
                BY <4>1, <4>2, <4>3, <4>4 DEF Before
        <3> HIDE DEF c, B
        <3>6. t[c].psl \in Nat /\ t[c].psl > 0
            BY <2>3, <3>3, <3>4, FreeIsZeroed
        <3>7. t[B(k)] # Zeroed /\ t[B(k)].psl >= t[c].psl - 1
            BY <3>3, <3>4, <3>5, <3>6 DEF Order, May
        <3>8. B(k) \in 0 .. n - 1
            <4>1. i - k \in Int
                BY <2>3
            <4> QED
                BY <1>0, <4>1, DivMod DEF B
        <3>9. t[B(k)].psl \in Nat
            BY <3>7, <3>8, FreeIsZeroed
        <3> QED
            BY <2>3, <3>3, <3>6, <3>7, <3>9
    <2> QED
        BY <2>3, <2>4, <2>5
<1> QED
    BY <1>1

\* Every bucket a probe for a present key passes is full, with an entry at least as
\* far from home as the probe has come: the early exits miss nothing.
LEMMA Reached ==
    ASSUME NEW t, NEW n, Tab(t, n), Order(t, n), NEW i \in 0 .. n - 1, t[i] # Zeroed,
           NEW q \in Nat, q <= t[i].psl
    PROVE  LET b == (t[i].hash + q) % n IN
           /\ t[b] # Zeroed /\ t[b].psl >= q
           /\ q = t[i].psl => b = i
<1> DEFINE p == t[i].psl
           h == t[i].hash
           j == p - q
<1>0. n \in Nat \ {0} /\ n % n = 0
    BY ModSelf DEF Tab
<1>1. p \in Nat /\ h \in Nat
    BY FreeIsZeroed
<1>2. (h + p) % n = i /\ May(t, n, i, p)
    BY DEF Order, At
<1> HIDE DEF p, h
<1>3. CASE q = p
    BY <1>1, <1>2, <1>3 DEF p, h
<1>4. CASE q < p
    <2>1. j \in 1 .. p /\ -j \in Int /\ h + p \in Int
        BY <1>1, <1>4
    <2>2. t[(i - j) % n] # Zeroed /\ t[(i - j) % n].psl >= p - j
        BY <1>1, <1>2, <2>1, ChainBack
    <2>3. (((h + p) % n) + (-j)) % n = ((h + p) + (-j)) % n
        BY <1>0, <2>1, ModInSum
    <2>4. (h + p) + (-j) = h + q /\ i - j = i + (-j) /\ p - j = q
        BY <1>1, <2>1
    <2>5. (i - j) % n = (h + q) % n
        BY <1>2, <2>3, <2>4
    <2> HIDE DEF j
    <2> QED
        BY <1>4, <2>2, <2>4, <2>5 DEF p, h
<1> QED
    BY <1>1, <1>3, <1>4 DEF p

\* While a bucket is free no probe length reaches the capacity.
LEMMA RoomLeft ==
    ASSUME NEW t, NEW n, Tab(t, n), Order(t, n), NEW i \in 0 .. n - 1,
           NEW x \in 0 .. n, May(t, n, i, x), NEW f \in 0 .. n - 1, t[f] = Zeroed
    PROVE  x < n
<1> SUFFICES ASSUME x = n PROVE FALSE
    BY DEF Tab
<1>0. n \in Nat \ {0} /\ n >= 4
    BY DEF Tab
<1> DEFINE j == IF f < i THEN i - f ELSE i - f + n
<1>1. j \in 1 .. n
    BY <1>0
<1>2. (i - j) % n = f
    <2>1. f % n = f
        BY <1>0, ModSmall
    <2>20. f - n \in Int /\ 1 \in Int
        BY <1>0
    <2>2. ((f - n) + n * 1) % n = (f - n) % n
        BY <1>0, <2>20, ModPlusMultiple
    <2>3. (f - n) + n * 1 = f
        BY <1>0
    <2>4. i - j = f \/ i - j = f - n
        BY <1>0
    <2> HIDE DEF j
    <2> QED
        BY <2>1, <2>2, <2>3, <2>4
<1>3. x \in Nat /\ j \in 1 .. x
    BY <1>0, <1>1
<1> HIDE DEF j
<1>4. t[(i - j) % n] # Zeroed
    BY <1>3, ChainBack
<1> QED
    BY <1>2, <1>4

\* The table with another bucket.
Puts(u, t, i, e) == u = [t EXCEPT ![i] = e]

\* An entry that takes a bucket from nobody, or from one no further from home.
LEMMA Place ==
    ASSUME NEW t, NEW n, Tab(t, n), Order(t, n), NEW i \in 0 .. n - 1,
           NEW e, Good(e), At(e, n, i), May(t, n, i, e.psl),
           t[i] # Zeroed => t[i].psl <= e.psl,
           NEW u, Puts(u, t, i, e)
    PROVE  /\ Tab(u, n) /\ Order(u, n)
           /\ u[i] = e /\ \A j \in 0 .. n - 1 : j # i => u[j] = t[j]
           /\ Used(u, n) = Used(t, n) \union {i}
<1>1. DOMAIN t = 0 .. n - 1 /\ n \in Nat /\ n >= 4
    BY DEF Tab
<1>2. u[i] = e /\ \A j \in 0 .. n - 1 : j # i => u[j] = t[j]
    BY <1>1 DEF Puts
<1>3. u = [j \in 0 .. n - 1 |-> u[j]]
    BY <1>1 DEF Puts
<1>4. Tab(u, n)
    BY <1>1, <1>2, <1>3 DEF Tab
<1>5. e # Zeroed /\ e.psl \in Nat
    BY GoodIsFull
<1>6. Used(u, n) = Used(t, n) \union {i}
    BY <1>2, <1>5 DEF Used
<1>7. ASSUME NEW j \in 0 .. n - 1, u[j] # Zeroed
      PROVE  At(u[j], n, j) /\ May(u, n, j, u[j].psl)
    <2>1. CASE j = i
        <3>1. Before(i, n) \in 0 .. n - 1 /\ Before(i, n) # i
            BY <1>1, NeighboursAreApart
        <3> QED
            BY <1>2, <2>1, <3>1 DEF May
    <2>2. CASE j # i
        <3>1. u[j] = t[j] /\ At(t[j], n, j) /\ May(t, n, j, t[j].psl)
            BY <1>2, <1>7, <2>2 DEF Order
        <3>2. Before(j, n) \in 0 .. n - 1
            BY <1>1, NeighboursAreApart
        <3>3. CASE Before(j, n) = i
            <4>1. t[i] # Zeroed => t[i].psl \in Nat
                BY FreeIsZeroed
            <4>2. t[j].psl \in Nat
                BY <1>7, <3>1, FreeIsZeroed
            <4> QED
                BY <1>2, <1>5, <3>1, <3>3, <4>1, <4>2 DEF May
        <3>4. CASE Before(j, n) # i
            BY <1>2, <3>1, <3>2, <3>4 DEF May
        <3> QED
            BY <3>1, <3>3, <3>4
    <2> QED
        BY <2>1, <2>2
<1> QED
    BY <1>2, <1>4, <1>6, <1>7 DEF Order

\* An entry that moves back one bucket, over the one before it.
LEMMA Shift ==
    ASSUME NEW t, NEW n, Tab(t, n), Order(t, n), NEW i \in 0 .. n - 1, t[i] # Zeroed,
           t[After(i, n)] # Zeroed, t[After(i, n)].psl # 0
    PROVE  LET e == [t[After(i, n)] EXCEPT !.psl = @ - 1]
               u == [t EXCEPT ![i] = e]
           IN  /\ Tab(u, n) /\ Order(u, n) /\ e.key = t[After(i, n)].key
               /\ u[i] = e /\ \A j \in 0 .. n - 1 : j # i => u[j] = t[j]
               /\ Used(u, n) = Used(t, n)
<1> DEFINE a == After(i, n)
           b == t[a]
           e == [b EXCEPT !.psl = @ - 1]
           u == [t EXCEPT ![i] = e]
<1>0. DOMAIN t = 0 .. n - 1 /\ n \in Nat \ {0} /\ n >= 4 /\ n % n = 0
    BY ModSelf DEF Tab
<1>1. a \in 0 .. n - 1 /\ a # i /\ Before(a, n) = i /\ \A j \in 0 .. n - 1 : Before(j, n) = i => j = a
    BY <1>0, NeighboursAreApart
<1>2. Good(b) /\ b.psl \in Nat /\ b.hash \in Nat /\ b.psl # 0
    BY <1>1, FreeIsZeroed
<1>3. b \in EntryType /\ b.hash = Hash(b.key)
    BY <1>2 DEF Good
<1>4. t[i].psl \in Nat /\ t[i].psl >= b.psl - 1 /\ At(b, n, a)
    BY <1>1, <1>2, FreeIsZeroed DEF Order, May
<1> HIDE DEF b
<1>5. e = [hash |-> b.hash, psl |-> b.psl - 1, key |-> b.key, val |-> b.val]
    BY <1>3 DEF EntryType
<1>6. b.psl - 1 \in Nat
    BY <1>2
<1> DEFINE p == b.psl - 1
<1>7. e.hash = b.hash /\ e.psl = p /\ e.key = b.key /\ e.val = b.val /\ p \in Nat
    BY <1>5, <1>6
<1>8. Good(e)
    BY <1>3, <1>5, <1>6 DEF Good, EntryType
<1>9. At(e, n, i)
    <2> DEFINE x == b.hash + b.psl
               z == n - 1
    <2>1. x \in Int /\ z \in Int /\ n \in Nat \ {0} /\ n % n = 0
        BY <1>0, <1>2
    <2>2. ((x % n) + z) % n = (x + z) % n
        BY <2>1, ModInSum, Zenon
    <2>3. x % n = a /\ b.psl < n
        BY <1>4 DEF At
    <2>4. b.hash + p \in Int /\ 1 \in Int /\ x + z = (b.hash + p) + n * 1
        <3>1. n * 1 = n /\ n \in Nat
            BY <1>0
        <3>2. b.hash \in Nat /\ b.psl \in Nat
            BY <1>2
        <3> QED
            BY <3>1, <3>2
    <2>5. p < n
        BY <1>0, <1>2, <2>3
    <2> HIDE DEF x, p
    <2>6. ((b.hash + p) + n * 1) % n = (b.hash + p) % n
        BY <2>1, <2>4, ModPlusMultiple
    <2>7. a + z = a + n - 1
        BY <1>0, <1>1
    <2>8. (b.hash + p) % n = i
        <3>1. (a + n - 1) % n = i
            BY <1>1 DEF Before
        <3> HIDE DEF z
        <3>2. (a + z) % n = i
            BY <3>1, <2>7
        <3> QED
            BY <2>2, <2>3, <2>4, <2>6, <3>2
    <2> QED
        BY <1>7, <2>5, <2>8 DEF At
<1> HIDE DEF e, a
<1>10. u[i] = e /\ \A j \in 0 .. n - 1 : j # i => u[j] = t[j]
    BY <1>0
<1>11. u = [j \in 0 .. n - 1 |-> u[j]]
    BY <1>0
<1> HIDE DEF u
<1>12. Tab(u, n)
    BY <1>0, <1>8, <1>10, <1>11 DEF Tab
<1>13. e # Zeroed
    BY <1>8, GoodIsFull
<1>14. Used(u, n) = Used(t, n)
    BY <1>10, <1>13 DEF Used
<1>15. ASSUME NEW j \in 0 .. n - 1, u[j] # Zeroed
       PROVE  At(u[j], n, j) /\ May(u, n, j, u[j].psl)
    <2>0. Before(j, n) \in 0 .. n - 1 /\ Before(j, n) # j
        BY <1>0, NeighboursAreApart
    <2>1. CASE j = i
        <3>1. May(t, n, i, t[i].psl)
            BY DEF Order
        <3>2. p > 0 => t[Before(i, n)] # Zeroed /\ t[Before(i, n)].psl >= t[i].psl - 1
            BY <1>4, <1>6, <3>1 DEF May
        <3>3. t[Before(i, n)] # Zeroed => t[Before(i, n)].psl \in Nat
            BY <2>0, <2>1, FreeIsZeroed
        <3>4. p > 0 => t[Before(i, n)] # Zeroed /\ t[Before(i, n)].psl >= p - 1
            BY <1>4, <1>6, <3>2, <3>3
        <3>5. u[Before(i, n)] = t[Before(i, n)]
            BY <1>10, <2>0, <2>1
        <3> QED
            BY <1>7, <1>9, <1>10, <2>1, <3>4, <3>5 DEF May
    <2>2. CASE j # i
        <3>1. u[j] = t[j] /\ At(t[j], n, j) /\ May(t, n, j, t[j].psl)
            BY <1>10, <1>15, <2>2 DEF Order
        <3>2. CASE j = a
            <4>1. t[j] = b /\ Before(j, n) = i
                BY <1>1, <3>2 DEF a, b
            <4>2. u[Before(j, n)] # Zeroed /\ u[Before(j, n)].psl = b.psl - 1
                BY <1>7, <1>10, <1>13, <4>1
            <4>3. b.psl - 1 >= b.psl - 1
                BY <1>6
            <4> QED
                BY <3>1, <4>1, <4>2, <4>3 DEF May
        <3>3. CASE j # a
            <4>1. Before(j, n) # i
                BY <1>1, <3>3
            <4> QED
                BY <1>10, <2>0, <3>1, <4>1 DEF May
        <3> QED
            BY <3>2, <3>3
    <2> QED
        BY <2>1, <2>2
<1> QED
    BY <1>7, <1>10, <1>12, <1>14, <1>15 DEF Order, u, e, b, a

AtRest(b) == b = Zeroed \/ b.psl = 0

\* A bucket that is emptied in front of a free one or an entry that is at home.
LEMMA Vacate ==
    ASSUME NEW t, NEW n, Tab(t, n), Order(t, n), NEW i \in 0 .. n - 1,
           AtRest(t[After(i, n)]),
           NEW u, Puts(u, t, i, Zeroed)
    PROVE  /\ Tab(u, n) /\ Order(u, n)
           /\ u[i] = Zeroed /\ \A j \in 0 .. n - 1 : j # i => u[j] = t[j]
           /\ Used(u, n) = Used(t, n) \ {i}
<1>0. DOMAIN t = 0 .. n - 1 /\ n \in Nat /\ n >= 4
    BY DEF Tab
<1>1. u[i] = Zeroed /\ \A j \in 0 .. n - 1 : j # i => u[j] = t[j]
    BY <1>0 DEF Puts
<1>2. u = [j \in 0 .. n - 1 |-> u[j]]
    BY <1>0 DEF Puts
<1>3. Tab(u, n)
    BY <1>0, <1>1, <1>2 DEF Tab
<1>4. Used(u, n) = Used(t, n) \ {i}
    BY <1>1 DEF Used
<1>5. ASSUME NEW j \in 0 .. n - 1, u[j] # Zeroed
      PROVE  At(u[j], n, j) /\ May(u, n, j, u[j].psl)
    <2>1. j # i /\ u[j] = t[j] /\ At(t[j], n, j) /\ May(t, n, j, t[j].psl)
        BY <1>1, <1>5 DEF Order
    <2>2. Before(j, n) \in 0 .. n - 1
        BY <1>0, NeighboursAreApart
    <2>3. CASE Before(j, n) = i
        <3>1. j = After(i, n)
            BY <1>0, <2>3, NeighboursAreApart
        <3>2. t[j].psl = 0
            BY <1>5, <2>1, <3>1 DEF AtRest
        <3> QED
            BY <2>1, <3>2 DEF May
    <2>4. CASE Before(j, n) # i
        BY <1>1, <2>1, <2>2, <2>4 DEF May
    <2> QED
        BY <2>1, <2>3, <2>4
<1> QED
    BY <1>1, <1>3, <1>4, <1>5 DEF Order

\* How many buckets are used.
LEMMA UsedIsFinite ==
    ASSUME NEW t, NEW n \in Nat, NEW S \in SUBSET Used(t, n)
    PROVE  IsFiniteSet(S) /\ Cardinality(S) \in Nat /\ Cardinality(S) <= n
<1>1. IsFiniteSet(0 .. n - 1) /\ Cardinality(0 .. n - 1) = n
    <2>1. 0 \in Int /\ n - 1 \in Int
        OBVIOUS
    <2>2. Cardinality(0 .. n - 1) = IF 0 > n - 1 THEN 0 ELSE (n - 1) - 0 + 1
        BY <2>1, FS_Interval
    <2> QED
        BY <2>1, <2>2, FS_Interval
<1>2. S \subseteq 0 .. n - 1
    BY DEF Used
<1>3. IsFiniteSet(S) /\ Cardinality(S) <= Cardinality(0 .. n - 1)
    BY <1>1, <1>2, FS_Subset, Zenon
<1>4. Cardinality(S) \in Nat
    BY <1>3, FS_CardinalityType, Zenon
<1> QED
    BY <1>1, <1>3, <1>4

\* The number of buckets.
LEMMA SizeOfDomain ==
    ASSUME NEW n \in Nat
    PROVE  Cardinality(0 .. n - 1) = n
<1>1. 0 \in Int /\ n - 1 \in Int
    OBVIOUS
<1>2. Cardinality(0 .. n - 1) = IF 0 > n - 1 THEN 0 ELSE (n - 1) - 0 + 1
    BY <1>1, FS_Interval
<1> QED
    BY <1>1, <1>2

\* A table with fewer entries than buckets has a free bucket.
LEMMA FreeExists ==
    ASSUME NEW t, NEW n, Tab(t, n), Cardinality(Used(t, n)) < n
    PROVE  \E f \in 0 .. n - 1 : t[f] = Zeroed
<1> SUFFICES ASSUME \A f \in 0 .. n - 1 : t[f] # Zeroed PROVE FALSE
    OBVIOUS
<1>1. Used(t, n) = 0 .. n - 1
    BY DEF Used
<1>2. n \in Nat
    BY DEF Tab
<1> QED
    BY <1>1, <1>2, SizeOfDomain

\* The capacity of a table is that of its domain.
LEMMA CapIs ==
    ASSUME NEW t, NEW n, Tab(t, n)
    PROVE  CapOf(t) = n /\ DOMAIN t = 0 .. n - 1 /\ n \in Nat /\ n >= 4
<1>1. DOMAIN t = 0 .. n - 1 /\ n \in Nat /\ n >= 4
    BY DEF Tab
<1> QED
    BY <1>1, SizeOfDomain DEF CapOf

\* An empty table.
LEMMA EmptyTable ==
    ASSUME NEW n \in Nat, n >= 4
    PROVE  /\ Tab(Empty(n), n) /\ Order(Empty(n), n) /\ Used(Empty(n), n) = {}
           /\ CapOf(Empty(n)) = n /\ Cardinality(Used(Empty(n), n)) = 0
<1>1. \A i \in 0 .. n - 1 : Empty(n)[i] = Zeroed
    BY DEF Empty
<1>2. Empty(n) = [i \in 0 .. n - 1 |-> Empty(n)[i]]
    BY DEF Empty
<1>3. Tab(Empty(n), n)
    BY <1>1, <1>2 DEF Tab
<1>4. Used(Empty(n), n) = {} /\ Order(Empty(n), n)
    BY <1>1 DEF Used, Order
<1> QED
    BY <1>3, <1>4, CapIs, FS_EmptySet

\* An entry that begins its way at its home.
LEMMA StartsAtHome ==
    ASSUME NEW t, NEW n, Tab(t, n), NEW e, Good(e)
    PROVE  LET x == [e EXCEPT !.psl = 0]
               i == e.hash % n
           IN  /\ Good(x) /\ At(x, n, i) /\ May(t, n, i, x.psl) /\ i \in 0 .. n - 1
               /\ x.key = e.key /\ x.val = e.val /\ x.psl = 0
<1>0. n \in Nat \ {0} /\ n >= 4
    BY DEF Tab
<1>1. e \in EntryType /\ e.hash = Hash(e.key) /\ e.hash \in Nat
    BY DEF Good, EntryType
<1> DEFINE x == [e EXCEPT !.psl = 0]
<1>2. x = [hash |-> e.hash, psl |-> 0, key |-> e.key, val |-> e.val]
    BY <1>1 DEF EntryType
<1>3. x.hash = e.hash /\ x.psl = 0 /\ x.key = e.key /\ x.val = e.val
    BY <1>2
<1>4. Good(x)
    BY <1>1, <1>2 DEF Good, EntryType
<1> HIDE DEF x
<1>5. e.hash % n \in 0 .. n - 1
    <2> DEFINE h == e.hash
    <2>1. h \in Int /\ n \in Nat \ {0}
        BY <1>0, <1>1
    <2> HIDE DEF h
    <2>2. h % n \in 0 .. n - 1
        BY <2>1, DivMod
    <2> QED
        BY <2>2 DEF h
<1>6. e.hash + 0 = e.hash /\ 0 < n
    BY <1>0, <1>1
<1>7. At(x, n, e.hash % n) /\ May(t, n, e.hash % n, x.psl)
    BY <1>3, <1>6 DEF At, May
<1> QED
    BY <1>3, <1>4, <1>5, <1>7 DEF x

\* The entry made for a call is one the table may hold.
LEMMA EntryIsGood ==
    ASSUME NEW k \in Keys, NEW v \in Vals
    PROVE  /\ Good(Entry(k, v)) /\ Entry(k, v).key = k /\ Entry(k, v).val = v
           /\ Entry(k, v).hash = Hash(k)
<1>1. Hash(k) \in Nat
    BY MapAssumption DEF Hash
<1> QED
    BY <1>1 DEF Good, EntryType, Entry

\* An entry that goes on to the bucket behind.
LEMMA GoesOn ==
    ASSUME NEW n \in Nat, n >= 4, NEW i \in 0 .. n - 1, NEW e, Good(e), At(e, n, i)
    PROVE  LET x == [e EXCEPT !.psl = @ + 1] IN
           /\ Good(x) /\ x.hash = e.hash /\ x.key = e.key /\ x.val = e.val /\ x.psl = e.psl + 1
           /\ (x.hash + x.psl) % n = After(i, n)
<1> DEFINE x == [e EXCEPT !.psl = @ + 1]
<1>1. e \in EntryType /\ e.hash = Hash(e.key) /\ e.hash \in Nat /\ e.psl \in Nat
    BY DEF Good, EntryType
<1>2. x = [hash |-> e.hash, psl |-> e.psl + 1, key |-> e.key, val |-> e.val]
    BY <1>1 DEF EntryType
<1>3. x.hash = e.hash /\ x.psl = e.psl + 1 /\ x.key = e.key /\ x.val = e.val
    BY <1>2
<1>4. Good(x)
    BY <1>1, <1>2 DEF Good, EntryType
<1> HIDE DEF x
<1> DEFINE y == e.hash + e.psl
<1>5. n \in Nat \ {0} /\ n % n = 0 /\ y \in Int /\ 1 \in Int
    BY <1>1, ModSelf
<1>6. x.hash + x.psl = y + 1 /\ y % n = i
    BY <1>1, <1>3 DEF At
<1> HIDE DEF y
<1>7. ((y % n) + 1) % n = (y + 1) % n
    BY <1>5, ModInSum, Zenon
<1> QED
    BY <1>3, <1>4, <1>6, <1>7 DEF After, x

-----------------------------------------------------------------------------
Unique(t, S) == \A i, j \in S : t[i].key = t[j].key => i = j

\* The entries that are the map's, those still to be rehashed, the keys behind the
\* iterator.
Live == IF pc = "shift" THEN Used(tab, cap) \ {idx} ELSE Used(tab, cap)
Left == {j \in Used(old.tab, CapOf(old.tab)) : j >= old.i}
Passed(t, n, i) == {t[j].key : j \in {k \in Used(t, n) : k < i}}

TableInv ==
    /\ Tab(tab, cap) /\ IsPow2(cap) /\ cap >= MinCap
    /\ Order(tab, cap)
    /\ len = Cardinality(Used(tab, cap)) /\ len < cap

CallInv ==
    /\ pc \in {"idle", "get", "del", "shift", "insert", "rehash"}
    /\ idx \in 0 .. cap - 1 /\ psl \in Nat
    /\ pc # "insert" => tmp = Absent
    /\ pc = "idle" => arg = NoArg
    /\ pc \in {"get", "del", "shift"} => arg \in [key : Keys, val : {Absent}]
    /\ pc \in {"insert", "rehash"} => arg \in [key : Keys, val : Vals]
    /\ pc = "shift" => idx \in Used(tab, cap)
    /\ pc = "rehash" => old # NoOld
    /\ old # NoOld => pc \in {"insert", "rehash"}

\* The hand of _map_insert: its entry could stand in the bucket looked at, and no
\* bucket passed holds its key; only the caller's own entry may be ahead.
HandInv ==
    pc = "insert" =>
        /\ Good(tmp) /\ At(tmp, cap, idx) /\ May(tab, cap, idx, tmp.psl)
        /\ \A i \in Used(tab, cap) : tab[i].key = tmp.key => tab[i].psl >= tmp.psl
        /\ old # NoOld \/ tmp.key # arg.key => \A i \in Used(tab, cap) : tab[i].key # tmp.key
        /\ old = NoOld => 4 * len < 3 * cap

\* The rehash: what is left to move fits into the half of the new table.
OldInv ==
    old # NoOld =>
        /\ old = [tab |-> old.tab, i |-> old.i]
        /\ Tab(old.tab, CapOf(old.tab)) /\ IsPow2(CapOf(old.tab)) /\ CapOf(old.tab) >= MinCap
        /\ cap = 2 * CapOf(old.tab) /\ old.i \in 0 .. CapOf(old.tab)
        /\ Unique(old.tab, Left)
        /\ \A i \in Used(tab, cap), j \in Left : tab[i].key # old.tab[j].key
        /\ pc = "insert" => \A j \in Left : old.tab[j].key # tmp.key
        /\ len + Cardinality(Left) + (IF pc = "insert" THEN 1 ELSE 0) < CapOf(old.tab)

IterInv ==
    /\ it \in Nat /\ seen \subseteq Keys
    /\ steady => pc # "shift" /\ seen = Passed(tab, cap, it)

MapInv == TableInv /\ CallInv /\ HandInv /\ Unique(tab, Live) /\ OldInv /\ IterInv

\* The zeroed table satisfies the invariant.
LEMMA MapInitInv ==
    ASSUME MapInit
    PROVE  MapInv
<1>0. MinCap \in Nat /\ MinCap >= 4 /\ IsPow2(MinCap)
    BY MapAssumption
<1>1. /\ Tab(tab, MinCap) /\ Order(tab, MinCap) /\ Used(tab, MinCap) = {}
      /\ CapOf(tab) = MinCap /\ Cardinality(Used(tab, MinCap)) = 0
    BY <1>0, EmptyTable DEF MapInit
<1>2. cap = MinCap
    BY <1>1 DEF cap
<1>3. TableInv
    BY <1>0, <1>1, <1>2 DEF TableInv, MapInit
<1>4. CallInv
    BY <1>0, <1>2 DEF CallInv, MapInit
<1>5. HandInv /\ OldInv
    BY DEF HandInv, OldInv, MapInit
<1>6. Unique(tab, Live)
    BY <1>1, <1>2 DEF Unique, Live, MapInit
<1>7. IterInv
    BY <1>1, <1>2 DEF IterInv, Passed, MapInit
<1> QED
    BY <1>3, <1>4, <1>5, <1>6, <1>7 DEF MapInv

\* What the invariant says of the capacity and of the length.
LEMMA Sizes ==
    ASSUME TableInv
    PROVE  /\ cap \in Nat /\ cap >= 4 /\ DOMAIN tab = 0 .. cap - 1 /\ CapOf(tab) = cap
           /\ len \in Nat /\ Tab(tab, cap) /\ Order(tab, cap)
           /\ IsFiniteSet(Used(tab, cap)) /\ Used(tab, cap) \subseteq 0 .. cap - 1
<1>1. Tab(tab, cap) /\ Order(tab, cap) /\ len = Cardinality(Used(tab, cap))
    BY DEF TableInv
<1>2. cap \in Nat /\ cap >= 4 /\ DOMAIN tab = 0 .. cap - 1 /\ CapOf(tab) = cap
    BY <1>1, CapIs
<1>3. IsFiniteSet(Used(tab, cap)) /\ len \in Nat
    BY <1>1, <1>2, UsedIsFinite
<1> QED
    BY <1>1, <1>2, <1>3 DEF Used

\* An action that leaves the buckets alone.
LEMMA SameTable ==
    ASSUME TableInv, UNCHANGED <<tab, len>>
    PROVE  TableInv' /\ cap' = cap
<1>1. cap' = cap
    BY DEF cap
<1> QED
    BY <1>1 DEF TableInv

\* A call that returns.
LEMMA Returned ==
    ASSUME TableInv', NEW answer, Finish(answer)
    PROVE  CallInv' /\ HandInv' /\ OldInv' /\ Live' = Used(tab', cap')
<1>1. cap' \in Nat /\ cap' >= 4
    BY CapIs DEF TableInv
<1>2. pc' = "idle" /\ idx' = 0 /\ psl' = 0 /\ tmp' = Absent /\ arg' = NoArg /\ old' = NoOld
    BY DEF Finish
<1>3. idx' \in 0 .. cap' - 1 /\ psl' \in Nat
    <2>1. idx' = 0 /\ psl' = 0
        BY <1>2
    <2>2. \A n \in Nat : n >= 4 => 0 \in 0 .. n - 1
        OBVIOUS
    <2>3. 0 \in 0 .. cap' - 1
        BY <1>1, <2>2
    <2> QED
        BY <2>1, <2>3
<1>4. CallInv'
    BY <1>2, <1>3 DEF CallInv
<1> QED
    BY <1>2, <1>4 DEF HandInv, OldInv, Live

\* A get or a del begins.
LEMMA ProbeInv ==
    ASSUME MapInv, NEW loop \in {"get", "del"}, NEW k \in Keys, Probe(loop, k, Absent)
    PROVE  MapInv'
<1>0. TableInv /\ CallInv /\ IterInv /\ Unique(tab, Live)
    BY DEF MapInv
<1>1. TableInv' /\ cap' = cap
    BY <1>0, SameTable DEF Probe
<1>2. cap \in Nat \ {0} /\ CapOf(tab) = cap
    BY <1>0, Sizes
<1>3. Hash(k) \in Int
    BY MapAssumption DEF Hash
<1>4. Home(tab, k) \in 0 .. cap - 1
    BY <1>2, <1>3, DivMod DEF Home
<1>5. CallInv'
    BY <1>0, <1>1, <1>4 DEF CallInv, Probe
<1>6. HandInv' /\ OldInv'
    BY <1>0 DEF HandInv, OldInv, CallInv, Probe
<1>7. Unique(tab, Live)'
    BY <1>0, <1>1 DEF Unique, Live, Probe
<1>8. IterInv'
    BY <1>0, <1>1 DEF IterInv, Passed, Probe, iterVars
<1> QED
    BY <1>1, <1>5, <1>6, <1>7, <1>8 DEF MapInv

\* A probe of get or del that goes on.
LEMMA AdvanceInv ==
    ASSUME MapInv, pc \in {"get", "del"}, Advance
    PROVE  MapInv'
<1>0. TableInv /\ CallInv /\ IterInv /\ Unique(tab, Live)
    BY DEF MapInv
<1>1. TableInv' /\ cap' = cap
    BY <1>0, SameTable DEF Advance
<1>2. cap \in Nat /\ cap >= 4 /\ CapOf(tab) = cap
    BY <1>0, Sizes
<1>3. NextIdx(tab, idx) \in 0 .. cap - 1
    BY <1>0, <1>2, NeighboursAreApart DEF NextIdx, After, CallInv
<1>4. CallInv'
    BY <1>0, <1>1, <1>3 DEF CallInv, Advance
<1>5. HandInv' /\ OldInv'
    BY <1>0 DEF HandInv, OldInv, CallInv, Advance
<1>6. Unique(tab, Live)'
    BY <1>0, <1>1 DEF Unique, Live, Advance
<1>7. IterInv'
    BY <1>0, <1>1 DEF IterInv, Passed, Advance, iterVars
<1> QED
    BY <1>1, <1>4, <1>5, <1>6, <1>7 DEF MapInv

\* A get or del that returns without a change.
LEMMA AnswerInv ==
    ASSUME MapInv, pc \in {"get", "del"}, NEW answer, Finish(answer), UNCHANGED <<tab, len, iterVars>>
    PROVE  MapInv'
<1>0. TableInv /\ CallInv /\ IterInv /\ Unique(tab, Live)
    BY DEF MapInv
<1>1. TableInv' /\ cap' = cap
    BY <1>0, SameTable
<1>2. CallInv' /\ HandInv' /\ OldInv'
    BY <1>1, Returned
<1>3. pc' = "idle" /\ pc # "shift"
    BY DEF Finish
<1>4. Unique(tab, Live)'
    BY <1>0, <1>1, <1>3 DEF Unique, Live
<1>5. IterInv'
    BY <1>0, <1>1, <1>3 DEF IterInv, Passed, iterVars
<1> QED
    BY <1>1, <1>2, <1>4, <1>5 DEF MapInv

\* One turn of the loop of _map_get.
LEMMA GetStepInv ==
    ASSUME MapInv, GetStep
    PROVE  MapInv'
<1>1. pc = "get"
    BY DEF GetStep
<1>2. CASE Missed(tab[idx])
    BY <1>1, <1>2, AnswerInv DEF GetStep
<1>3. CASE ~Missed(tab[idx]) /\ Matches(tab[idx], arg.key)
    BY <1>1, <1>3, AnswerInv DEF GetStep
<1>4. CASE ~Missed(tab[idx]) /\ ~Matches(tab[idx], arg.key)
    BY <1>1, <1>4, AdvanceInv DEF GetStep
<1> QED
    BY <1>2, <1>3, <1>4

\* One turn of the loop of _map_del.
LEMMA DelStepInv ==
    ASSUME MapInv, DelStep
    PROVE  MapInv'
<1>0. TableInv /\ CallInv /\ IterInv /\ Unique(tab, Live)
    BY DEF MapInv
<1>1. pc = "del"
    BY DEF DelStep
<1>2. CASE Missed(tab[idx])
    BY <1>1, <1>2, AnswerInv DEF DelStep
<1>3. CASE ~Missed(tab[idx]) /\ ~Matches(tab[idx], arg.key)
    BY <1>1, <1>3, AdvanceInv DEF DelStep
<1>4. CASE ~Missed(tab[idx]) /\ Matches(tab[idx], arg.key)
    <2>1. /\ pc' = "shift" /\ Disturb
          /\ UNCHANGED <<tab, len, idx, psl, tmp, arg, old, ret>>
        BY <1>4 DEF DelStep
    <2>2. TableInv' /\ cap' = cap
        BY <1>0, <2>1, SameTable
    <2>3. Tab(tab, cap) /\ idx \in 0 .. cap - 1
        BY <1>0 DEF TableInv, CallInv
    <2>4. idx \in Used(tab, cap)
        BY <1>4, <2>3, FreeIsZeroed DEF Used, Missed
    <2>5. CallInv'
        BY <1>0, <1>1, <2>1, <2>2, <2>4 DEF CallInv
    <2>6. HandInv' /\ OldInv'
        BY <1>0, <1>1, <2>1 DEF HandInv, OldInv, CallInv
    <2>7. Unique(tab, Live)'
        BY <1>0, <1>1, <2>1, <2>2 DEF Unique, Live
    <2>8. IterInv'
        BY <1>0, <2>1 DEF IterInv, Disturb
    <2> QED
        BY <2>2, <2>5, <2>6, <2>7, <2>8 DEF MapInv
<1> QED
    BY <1>2, <1>3, <1>4

\* One turn of the backward shift: the run moves up, or its last bucket is zeroed.
LEMMA ShiftStepInv ==
    ASSUME MapInv, ShiftStep
    PROVE  MapInv'
<1>0. TableInv /\ CallInv /\ IterInv /\ Unique(tab, Live) /\ pc = "shift"
    BY DEF MapInv, ShiftStep
<1>1. /\ cap \in Nat /\ cap >= 4 /\ CapOf(tab) = cap /\ len \in Nat
      /\ Tab(tab, cap) /\ Order(tab, cap) /\ IsFiniteSet(Used(tab, cap))
    BY <1>0, Sizes
<1> DEFINE U == Used(tab, cap)
           next == After(idx, cap)
           nb == tab[next]
<1>2. idx \in 0 .. cap - 1 /\ idx \in U /\ tab[idx] # Zeroed /\ old = NoOld /\ Live = U \ {idx}
    BY <1>0 DEF CallInv, Live, Used
<1>3. next \in 0 .. cap - 1 /\ next # idx /\ NextIdx(tab, idx) = next
    BY <1>1, <1>2, NeighboursAreApart DEF NextIdx, After
<1>4. IsFree(nb) <=> nb = Zeroed
    BY <1>1, <1>3, FreeIsZeroed
<1> HIDE DEF next
<1>5. \A i, j \in U \ {idx} : tab[i].key = tab[j].key => i = j
    BY <1>0, <1>2 DEF Unique
<1>6. ~steady /\ IsPow2(cap) /\ cap >= MinCap /\ len = Cardinality(U) /\ len < cap
    BY <1>0 DEF IterInv, TableInv
<1>7. CASE ShiftEnds(nb)
    <2>1. /\ tab' = [tab EXCEPT ![idx] = Zeroed] /\ len' = len - 1
          /\ Finish("true") /\ UNCHANGED iterVars
        BY <1>3, <1>7 DEF ShiftStep
    <2>2. nb = Zeroed \/ nb.psl = 0
        BY <1>4, <1>7 DEF ShiftEnds
    <2>3. /\ Tab(tab', cap) /\ Order(tab', cap) /\ Used(tab', cap) = U \ {idx}
          /\ \A j \in 0 .. cap - 1 : j # idx => tab'[j] = tab[j]
        <3>1. Tab(tab, cap) /\ Order(tab, cap) /\ idx \in 0 .. cap - 1 /\ AtRest(tab[After(idx, cap)])
            BY <1>1, <1>2, <2>2 DEF next, AtRest
        <3>2. Puts(tab', tab, idx, Zeroed)
            BY <2>1 DEF Puts
        <3> QED
            BY <3>1, <3>2, Vacate
    <2>4. cap' = cap
        BY <2>3, CapIs DEF cap
    <2>5. Cardinality(U \ {idx}) = Cardinality(U) - 1
        BY <1>1, <1>2, FS_RemoveElement
    <2>6. TableInv'
        <3>1. Cardinality(U) - 1 < cap
            BY <1>1, <1>6
        <3>2. len' = Cardinality(Used(tab', cap))
            BY <1>6, <2>1, <2>3, <2>5
        <3> QED
            BY <1>6, <2>1, <2>3, <2>4, <3>1, <3>2 DEF TableInv
    <2>7. CallInv' /\ HandInv' /\ OldInv' /\ Live' = Used(tab', cap')
        BY <2>1, <2>6, Returned
    <2>8. Unique(tab, Live)'
        <3>1. U \subseteq 0 .. cap - 1
            BY DEF Used
        <3> QED
            BY <1>5, <2>3, <2>4, <2>7, <3>1 DEF Unique
    <2>9. IterInv'
        BY <1>0, <1>6, <2>1 DEF IterInv, iterVars
    <2> QED
        BY <2>6, <2>7, <2>8, <2>9 DEF MapInv
<1>8. CASE ~ShiftEnds(nb)
    <2>1. /\ tab' = [tab EXCEPT ![idx] = [nb EXCEPT !.psl = @ - 1]] /\ idx' = next
          /\ UNCHANGED <<len, pc, psl, tmp, arg, old, ret, iterVars>>
        BY <1>3, <1>8 DEF ShiftStep
    <2>2. nb # Zeroed /\ nb.psl # 0
        BY <1>4, <1>8 DEF ShiftEnds
    <2>3. /\ Tab(tab', cap) /\ Order(tab', cap) /\ Used(tab', cap) = U
          /\ tab'[idx].key = nb.key
          /\ \A j \in 0 .. cap - 1 : j # idx => tab'[j] = tab[j]
        <3> DEFINE e == [tab[After(idx, cap)] EXCEPT !.psl = @ - 1]
                   u == [tab EXCEPT ![idx] = e]
        <3>1. tab[After(idx, cap)] # Zeroed /\ tab[After(idx, cap)].psl # 0
            BY <2>2 DEF next
        <3>2. /\ Tab(u, cap) /\ Order(u, cap) /\ Used(u, cap) = Used(tab, cap)
              /\ e.key = tab[After(idx, cap)].key /\ u[idx] = e
              /\ \A j \in 0 .. cap - 1 : j # idx => u[j] = tab[j]
            BY <1>1, <1>2, <3>1, Shift
        <3>3. tab' = u
            BY <2>1 DEF next
        <3> HIDE DEF u, e
        <3> QED
            BY <3>2, <3>3 DEF next
    <2>4. cap' = cap
        BY <2>3, CapIs DEF cap
    <2>5. TableInv'
        BY <1>6, <2>1, <2>3, <2>4 DEF TableInv
    <2>6. next \in U
        BY <1>3, <2>2 DEF Used
    <2>7. CallInv'
        BY <1>0, <1>3, <2>1, <2>3, <2>4, <2>6 DEF CallInv
    <2>8. HandInv' /\ OldInv'
        BY <1>0, <1>2, <2>1 DEF HandInv, OldInv
    <2>9. Unique(tab, Live)'
        <3>1. Live' = U \ {next}
            BY <1>0, <2>1, <2>3, <2>4 DEF Live
        <3>2. U \subseteq 0 .. cap - 1
            BY DEF Used
        <3>3. ASSUME NEW i \in U \ {next}, NEW j \in U \ {next}, tab'[i].key = tab'[j].key
              PROVE  i = j
            <4> DEFINE f(x) == IF x = idx THEN next ELSE x
            <4>1. \A x \in U \ {next} : tab'[x].key = tab[f(x)].key /\ f(x) \in U \ {idx}
                BY <1>3, <2>3, <2>6, <3>2
            <4> HIDE DEF nb
            <4>2. f(i) = f(j)
                BY <1>5, <3>3, <4>1
            <4> QED
                BY <4>2
        <3> QED
            BY <3>1, <3>3 DEF Unique
    <2>10. IterInv'
        BY <1>0, <1>6, <2>1 DEF IterInv, iterVars
    <2> QED
        BY <2>5, <2>7, <2>8, <2>9, <2>10 DEF MapInv
<1> QED
    BY <1>7, <1>8

\* A table to rehash is never the empty one that stands for none.
LEMMA OldIsThere ==
    ASSUME NEW o, NEW n, Tab(o.tab, n)
    PROVE  o # NoOld
<1>1. 0 \in DOMAIN o.tab
    BY CapIs
<1>2. NoOld.tab = Empty(0) /\ DOMAIN Empty(0) = {}
    BY DEF NoOld, Empty
<1> QED
    BY <1>1, <1>2

\* _map_insert sets out from the home of its entry.
LEMMA SetsOut ==
    ASSUME TableInv, NEW e, Good(e), StartInsert(tab, e)
    PROVE  /\ Good(tmp') /\ At(tmp', cap, idx') /\ May(tab, cap, idx', tmp'.psl)
           /\ idx' \in 0 .. cap - 1 /\ tmp'.key = e.key /\ tmp'.val = e.val /\ tmp'.psl = 0
           /\ pc' = "insert"
<1>1. Tab(tab, cap) /\ CapOf(tab) = cap
    BY Sizes
<1> DEFINE x == [e EXCEPT !.psl = 0]
           i == e.hash % cap
<1>2. /\ Good(x) /\ At(x, cap, i) /\ May(tab, cap, i, x.psl) /\ i \in 0 .. cap - 1
      /\ x.key = e.key /\ x.val = e.val /\ x.psl = 0
    BY <1>1, StartsAtHome
<1>3. pc' = "insert" /\ idx' = i /\ tmp' = x
    BY <1>1 DEF StartInsert
<1> HIDE DEF x, i
<1> QED
    BY <1>2, <1>3

\* A set begins: it inserts, or doubles the table.
LEMMA SetInv ==
    ASSUME MapInv, NEW k \in Keys, NEW v \in Vals, Set(k, v)
    PROVE  MapInv'
<1>0. TableInv /\ CallInv /\ IterInv /\ Unique(tab, Live) /\ pc = "idle" /\ old = NoOld
    BY DEF MapInv, Set, CallInv
<1>1. /\ cap \in Nat /\ cap >= 4 /\ len \in Nat /\ Tab(tab, cap)
      /\ len = Cardinality(Used(tab, cap)) /\ len < cap /\ IsPow2(cap) /\ cap >= MinCap
      /\ MinCap \in Nat
    BY <1>0, Sizes, MapAssumption DEF TableInv
<1>2. arg' = [key |-> k, val |-> v] /\ arg' \in [key : Keys, val : Vals] /\ psl' = 0 /\ arg'.key = k
    BY DEF Set
<1>3. Live = Used(tab, cap)
    BY <1>0 DEF Live
<1>4. CASE MustGrow(len, cap)
    <2>1. /\ tab' = Empty(2 * cap) /\ len' = 0 /\ old' = [tab |-> tab, i |-> 0]
          /\ pc' = "rehash" /\ idx' = 0 /\ tmp' = Absent /\ Disturb
        BY <1>4 DEF Set
    <2> DEFINE n == 2 * cap
    <2>2. n \in Nat /\ n >= 4 /\ n >= MinCap /\ 0 < n
        BY <1>1
    <2>3. IsPow2(n)
        BY <1>1, PowDouble
    <2>4. n = 2 * cap
        OBVIOUS
    <2> HIDE DEF n
    <2>5. /\ Tab(tab', n) /\ Order(tab', n) /\ Used(tab', n) = {}
          /\ CapOf(tab') = n /\ Cardinality(Used(tab', n)) = 0
        BY <2>1, <2>2, <2>4, EmptyTable
    <2>6. cap' = n
        BY <2>5 DEF cap
    <2>7. TableInv'
        BY <2>1, <2>2, <2>3, <2>5, <2>6 DEF TableInv
    <2>8. old'.tab = tab /\ old'.i = 0 /\ old' # NoOld /\ old' = [tab |-> old'.tab, i |-> old'.i]
        BY <1>1, <2>1, OldIsThere
    <2>9. CapOf(old'.tab) = cap
        BY <1>1, <2>8, CapIs
    <2>10. CallInv'
        <3>1. idx' \in 0 .. cap' - 1
            BY <2>1, <2>2, <2>6
        <3> QED
            BY <1>2, <2>1, <2>8, <3>1 DEF CallInv
    <2>11. HandInv'
        BY <2>1 DEF HandInv
    <2>12. Left' = Used(tab, cap)
        BY <2>8, <2>9 DEF Left, Used
    <2>13. OldInv'
        <3>1. Unique(old'.tab, Left')
            BY <1>0, <1>3, <2>8, <2>12
        <3>2. len' + Cardinality(Left') + 0 < CapOf(old'.tab)
            BY <1>1, <2>1, <2>9, <2>12
        <3>3. /\ Tab(old'.tab, CapOf(old'.tab)) /\ IsPow2(CapOf(old'.tab)) /\ CapOf(old'.tab) >= MinCap
              /\ cap' = 2 * CapOf(old'.tab) /\ old'.i \in 0 .. CapOf(old'.tab)
            BY <1>1, <2>4, <2>6, <2>8, <2>9
        <3> QED
            BY <2>1, <2>5, <2>6, <2>8, <3>1, <3>2, <3>3 DEF OldInv
    <2>14. Unique(tab, Live)'
        BY <2>1, <2>5, <2>6 DEF Unique, Live
    <2>15. IterInv'
        BY <1>0, <2>1 DEF IterInv, Disturb
    <2> QED
        BY <2>7, <2>10, <2>11, <2>13, <2>14, <2>15 DEF MapInv
<1>5. CASE ~MustGrow(len, cap)
    <2>1. StartInsert(tab, Entry(k, v)) /\ UNCHANGED <<tab, len, old, iterVars>>
        BY <1>5 DEF Set
    <2>2. TableInv' /\ cap' = cap
        BY <1>0, <2>1, SameTable
    <2>3. Good(Entry(k, v)) /\ Entry(k, v).key = k
        BY EntryIsGood
    <2>4. /\ Good(tmp') /\ At(tmp', cap, idx') /\ May(tab, cap, idx', tmp'.psl)
          /\ idx' \in 0 .. cap - 1 /\ tmp'.key = k /\ tmp'.psl = 0 /\ pc' = "insert"
        BY <1>0, <2>1, <2>3, SetsOut
    <2>5. CallInv'
        BY <1>0, <1>2, <2>1, <2>2, <2>4 DEF CallInv
    <2>6. 4 * len < 3 * cap
        BY <1>1, <1>5 DEF MustGrow
    <2>7. \A i \in Used(tab, cap) : tab[i].psl >= 0
        BY <1>1, FreeIsZeroed DEF Used
    <2>8. HandInv'
        BY <1>0, <1>2, <2>1, <2>2, <2>4, <2>6, <2>7 DEF HandInv
    <2>9. OldInv'
        BY <1>0, <2>1 DEF OldInv
    <2>10. Unique(tab, Live)'
        BY <1>0, <1>3, <2>1, <2>2, <2>4 DEF Unique, Live
    <2>11. IterInv'
        BY <1>0, <2>1, <2>2, <2>4 DEF IterInv, Passed, iterVars
    <2> QED
        BY <2>2, <2>5, <2>8, <2>9, <2>10, <2>11 DEF MapInv
<1> QED
    BY <1>4, <1>5

\* The bucket the rehash loop looks at next.
LEMMA MoveOn ==
    ASSUME OldInv, old # NoOld, old.i < CapOf(old.tab),
           old' = [old EXCEPT !.i = NextToMove(@)]
    PROVE  /\ old'.tab = old.tab /\ old'.i = old.i + 1 /\ old' = [tab |-> old'.tab, i |-> old'.i]
           /\ old' # NoOld /\ old'.i \in 0 .. CapOf(old.tab)
           /\ old.i \in 0 .. CapOf(old.tab) - 1
           /\ Left' = Left \ {old.i}
           /\ old.tab[old.i] # Zeroed <=> old.i \in Left
<1>1. /\ old = [tab |-> old.tab, i |-> old.i] /\ Tab(old.tab, CapOf(old.tab))
      /\ old.i \in 0 .. CapOf(old.tab)
    BY DEF OldInv
<1>2. CapOf(old.tab) \in Nat
    BY <1>1 DEF Tab
<1>3. old' = [tab |-> old.tab, i |-> old.i + 1]
    BY <1>1 DEF NextToMove
<1>4. old'.tab = old.tab /\ old'.i = old.i + 1
    BY <1>3
<1>5. old' # NoOld
    BY <1>1, <1>4, OldIsThere
<1>6. old.i \in 0 .. CapOf(old.tab) - 1 /\ old'.i \in 0 .. CapOf(old.tab)
    BY <1>1, <1>2, <1>4
<1>7. Left' = Left \ {old.i}
    BY <1>1, <1>2, <1>4 DEF Left, Used
<1>8. old.tab[old.i] # Zeroed <=> old.i \in Left
    BY <1>6 DEF Left, Used
<1> QED
    BY <1>3, <1>4, <1>5, <1>6, <1>7, <1>8

\* One turn of the rehash.
LEMMA RehashInv ==
    ASSUME MapInv, Rehash
    PROVE  MapInv'
<1>0. TableInv /\ CallInv /\ IterInv /\ Unique(tab, Live) /\ pc = "rehash" /\ old # NoOld /\ OldInv
    BY DEF MapInv, Rehash, CallInv
<1>1. UNCHANGED <<tab, len, psl, arg, ret, iterVars>>
    BY DEF Rehash
<1>2. TableInv' /\ cap' = cap
    BY <1>0, <1>1, SameTable
<1>3. cap \in Nat /\ cap >= 4 /\ len \in Nat
    BY <1>0, Sizes
<1> DEFINE m == CapOf(old.tab)
<1>4. /\ old = [tab |-> old.tab, i |-> old.i]
      /\ Tab(old.tab, m) /\ IsPow2(m) /\ m >= MinCap
      /\ cap = 2 * m /\ old.i \in 0 .. m
      /\ Unique(old.tab, Left)
      /\ \A i \in Used(tab, cap), j \in Left : tab[i].key # old.tab[j].key
      /\ len + Cardinality(Left) + 0 < m
    BY <1>0 DEF OldInv
<1>5. Left \subseteq Used(old.tab, m) /\ m \in Nat
    BY <1>4 DEF Left, Tab
<1> HIDE DEF m
<1>6. IsFiniteSet(Left) /\ Cardinality(Left) \in Nat
    BY <1>5, UsedIsFinite
<1>7. arg \in [key : Keys, val : Vals] /\ arg.key \in Keys /\ arg.val \in Vals
    BY <1>0 DEF CallInv
<1>8. Live' = Used(tab, cap) /\ Unique(tab, Live)' /\ IterInv' /\ pc' \in {"insert", "rehash"}
    <2>1. pc' \in {"insert", "rehash"}
        BY <1>0 DEF Rehash, StartInsert
    <2> QED
        BY <1>0, <1>1, <1>2, <2>1 DEF Live, Unique, IterInv, Passed, iterVars
<1>9. CASE old.i < m
    <2>1. old' = [old EXCEPT !.i = NextToMove(@)]
        BY <1>9 DEF Rehash, m
    <2>2. /\ old'.tab = old.tab /\ old'.i = old.i + 1 /\ old' = [tab |-> old'.tab, i |-> old'.i]
          /\ old' # NoOld /\ old'.i \in 0 .. m /\ old.i \in 0 .. m - 1
          /\ Left' = Left \ {old.i}
          /\ old.tab[old.i] # Zeroed <=> old.i \in Left
        BY <1>0, <1>9, <2>1, MoveOn DEF m
    <2>3. CapOf(old'.tab) = m
        BY <2>2 DEF m
    <2>4. /\ Unique(old'.tab, Left')
          /\ \A i \in Used(tab, cap), j \in Left' : tab[i].key # old.tab[j].key
        BY <1>4, <2>2 DEF Unique
    <2>5. IsFree(old.tab[old.i]) <=> old.tab[old.i] = Zeroed
        BY <1>4, <2>2, FreeIsZeroed
    <2>6. CASE old.tab[old.i] = Zeroed
        <3>1. UNCHANGED <<pc, idx, tmp>>
            BY <1>9, <2>5, <2>6 DEF Rehash, m
        <3>2. CallInv' /\ HandInv'
            BY <1>0, <1>1, <1>2, <2>2, <3>1 DEF CallInv, HandInv
        <3>3. Left' = Left
            BY <2>2, <2>6
        <3>4. OldInv'
            <4>1. /\ Tab(old'.tab, m) /\ IsPow2(m) /\ m >= MinCap
                  /\ cap' = 2 * m /\ old'.i \in 0 .. m /\ pc' = "rehash"
                BY <1>0, <1>2, <1>4, <2>2, <3>1
            <4>2. /\ \A i \in Used(tab', cap'), j \in Left' : tab'[i].key # old'.tab[j].key
                  /\ Unique(old'.tab, Left')
                BY <1>1, <1>2, <2>2, <2>4
            <4>3. len' + Cardinality(Left') + 0 < m
                BY <1>1, <1>4, <3>3
            <4> QED
                BY <2>2, <2>3, <4>1, <4>2, <4>3 DEF OldInv
        <3> QED
            BY <1>2, <1>8, <3>2, <3>4 DEF MapInv
    <2>7. CASE old.tab[old.i] # Zeroed
        <3> DEFINE b == old.tab[old.i]
        <3>1. Good(b) /\ old.i \in Left /\ StartInsert(tab, b)
            BY <1>4, <1>9, <2>2, <2>5, <2>7, FreeIsZeroed DEF Rehash, m
        <3>2. /\ Good(tmp') /\ At(tmp', cap, idx') /\ May(tab, cap, idx', tmp'.psl)
              /\ idx' \in 0 .. cap - 1 /\ tmp'.key = b.key /\ pc' = "insert"
            BY <1>0, <3>1, SetsOut
        <3>3. \A i \in Used(tab, cap) : tab[i].key # tmp'.key
            BY <1>4, <3>1, <3>2
        <3>4. \A j \in Left' : old.tab[j].key # tmp'.key
            BY <1>4, <2>2, <3>1, <3>2 DEF Unique
        <3>5. Cardinality(Left') = Cardinality(Left) - 1
            BY <1>6, <2>2, <3>1, FS_RemoveElement
        <3>6. len + Cardinality(Left') + 1 < m
            BY <1>3, <1>4, <1>5, <1>6, <3>5
        <3>7. CallInv'
            BY <1>0, <1>1, <1>2, <2>2, <3>2 DEF CallInv
        <3>8. HandInv'
            BY <1>1, <1>2, <2>2, <3>2, <3>3 DEF HandInv
        <3>9. OldInv'
            BY <1>1, <1>2, <1>4, <2>2, <2>3, <2>4, <3>2, <3>4, <3>6 DEF OldInv
        <3> QED
            BY <1>2, <1>8, <3>7, <3>8, <3>9 DEF MapInv
    <2> QED
        BY <2>6, <2>7
<1>10. CASE ~(old.i < m)
    <2>1. old' = NoOld /\ StartInsert(tab, Entry(arg.key, arg.val))
        BY <1>10 DEF Rehash, m
    <2>2. Good(Entry(arg.key, arg.val)) /\ Entry(arg.key, arg.val).key = arg.key
        BY <1>7, EntryIsGood
    <2>3. /\ Good(tmp') /\ At(tmp', cap, idx') /\ May(tab, cap, idx', tmp'.psl)
          /\ idx' \in 0 .. cap - 1 /\ tmp'.key = arg.key /\ tmp'.psl = 0 /\ pc' = "insert"
        BY <1>0, <2>1, <2>2, SetsOut
    <2>4. 4 * len < 3 * cap
        BY <1>3, <1>4, <1>5, <1>6
    <2>5. Tab(tab, cap)
        BY <1>0 DEF TableInv
    <2>6. \A i \in Used(tab, cap) : tab[i].psl >= 0
        BY <2>5, FreeIsZeroed DEF Used
    <2>7. CallInv'
        BY <1>0, <1>1, <1>2, <2>1, <2>3 DEF CallInv
    <2>8. HandInv'
        BY <1>1, <1>2, <2>1, <2>3, <2>4, <2>6 DEF HandInv
    <2>9. OldInv'
        BY <2>1 DEF OldInv
    <2> QED
        BY <1>2, <1>8, <2>7, <2>8, <2>9 DEF MapInv
<1> QED
    BY <1>9, <1>10

\* A key the entry in hand shares with the table is not behind the bucket looked at:
\* that bucket is full and its entry at least as far from home.
LEMMA HandReach ==
    ASSUME TableInv, HandInv, CallInv, pc = "insert",
           NEW j \in Used(tab, cap), tab[j].key = tmp.key
    PROVE  tab[idx] # Zeroed /\ tab[idx].psl >= tmp.psl /\ (tab[j].psl = tmp.psl => idx = j)
<1>1. Tab(tab, cap) /\ Order(tab, cap) /\ j \in 0 .. cap - 1 /\ tab[j] # Zeroed
    BY Sizes DEF Used
<1>2. Good(tmp) /\ At(tmp, cap, idx) /\ tab[j].psl >= tmp.psl
    BY DEF HandInv
<1>3. Good(tab[j]) /\ tab[j].psl \in Nat
    BY <1>1, FreeIsZeroed
<1>4. tab[j].hash = tmp.hash
    BY <1>2, <1>3 DEF Good
<1> DEFINE q == tmp.psl
           b == (tab[j].hash + q) % cap
<1>5. q \in Nat /\ q <= tab[j].psl
    BY <1>2, <1>3, GoodIsFull
<1>6. b = idx
    BY <1>2, <1>4 DEF At
<1> HIDE DEF q
<1>7. tab[b] # Zeroed /\ tab[b].psl >= q /\ (q = tab[j].psl => b = j)
    BY <1>1, <1>5, Reached
<1> HIDE DEF b
<1> QED
    BY <1>6, <1>7 DEF q

\* _map_insert returns, to the caller or to the rehash loop.
LEMMA InsertEnds ==
    ASSUME MapInv, pc = "insert", InsertReturns, TableInv', cap' = cap,
           \A i \in Used(tab', cap), j \in Left : old # NoOld => tab'[i].key # old.tab[j].key,
           old # NoOld => len' + Cardinality(Left) + 0 < CapOf(old.tab)
    PROVE  CallInv' /\ HandInv' /\ OldInv' /\ Live' = Used(tab', cap)
<1>0. CallInv /\ OldInv
    BY DEF MapInv
<1>1. cap' \in Nat /\ cap' >= 4
    BY CapIs DEF TableInv
<1>2. CASE old = NoOld
    <2>1. Finish("void")
        BY <1>2 DEF InsertReturns, Moving
    <2> QED
        BY <2>1, Returned
<1>3. CASE old # NoOld
    <2>1. /\ pc' = "rehash" /\ idx' = 0 /\ tmp' = Absent
          /\ UNCHANGED <<psl, arg, old, ret>>
        BY <1>3 DEF InsertReturns, Moving
    <2>2. CallInv'
        BY <1>0, <1>1, <1>3, <2>1 DEF CallInv
    <2>3. HandInv' /\ Live' = Used(tab', cap)
        BY <2>1 DEF HandInv, Live
    <2>4. Left' = Left
        BY <2>1 DEF Left
    <2>5. /\ old = [tab |-> old.tab, i |-> old.i]
          /\ Tab(old.tab, CapOf(old.tab)) /\ IsPow2(CapOf(old.tab)) /\ CapOf(old.tab) >= MinCap
          /\ cap = 2 * CapOf(old.tab) /\ old.i \in 0 .. CapOf(old.tab)
          /\ Unique(old.tab, Left)
        BY <1>0, <1>3 DEF OldInv
    <2>6. /\ \A i \in Used(tab', cap'), j \in Left' : tab'[i].key # old'.tab[j].key
          /\ len' + Cardinality(Left') + 0 < CapOf(old'.tab)
        BY <1>3, <2>1, <2>4
    <2>7. OldInv'
        BY <1>3, <2>1, <2>4, <2>5, <2>6 DEF OldInv
    <2> QED
        BY <2>2, <2>3, <2>7
<1> QED
    BY <1>2, <1>3

\* What an insertion may rely on.
LEMMA Inserting ==
    ASSUME MapInv, pc = "insert"
    PROVE  /\ TableInv /\ CallInv /\ IterInv /\ HandInv /\ OldInv
           /\ cap \in Nat /\ cap >= 4 /\ CapOf(tab) = cap /\ len \in Nat
           /\ len = Cardinality(Used(tab, cap)) /\ len < cap /\ IsFiniteSet(Used(tab, cap))
           /\ IsPow2(cap) /\ cap >= MinCap
           /\ Tab(tab, cap) /\ Order(tab, cap)
           /\ Good(tmp) /\ At(tmp, cap, idx) /\ May(tab, cap, idx, tmp.psl)
           /\ tmp # Zeroed /\ tmp.psl \in Nat
           /\ idx \in 0 .. cap - 1
           /\ Unique(tab, Used(tab, cap)) /\ Used(tab, cap) \subseteq 0 .. cap - 1
           /\ IsFree(tab[idx]) <=> tab[idx] = Zeroed
<1>1. TableInv /\ CallInv /\ IterInv /\ HandInv /\ OldInv /\ Unique(tab, Live)
    BY DEF MapInv
<1>2. /\ cap \in Nat /\ cap >= 4 /\ CapOf(tab) = cap /\ len \in Nat
      /\ Tab(tab, cap) /\ Order(tab, cap) /\ IsFiniteSet(Used(tab, cap))
      /\ Used(tab, cap) \subseteq 0 .. cap - 1
    BY <1>1, Sizes
<1>3. Good(tmp) /\ At(tmp, cap, idx) /\ May(tab, cap, idx, tmp.psl)
    BY <1>1 DEF HandInv
<1>4. tmp # Zeroed /\ tmp.psl \in Nat
    BY <1>3, GoodIsFull
<1>5. idx \in 0 .. cap - 1 /\ Unique(tab, Used(tab, cap))
    BY <1>1 DEF CallInv, Live
<1>6. IsFree(tab[idx]) <=> tab[idx] = Zeroed
    BY <1>2, <1>5, FreeIsZeroed
<1>7. len = Cardinality(Used(tab, cap)) /\ len < cap /\ IsPow2(cap) /\ cap >= MinCap
    BY <1>1 DEF TableInv
<1> QED
    BY <1>1, <1>2, <1>3, <1>4, <1>5, <1>6, <1>7

\* The hand is emptied into a free bucket.
LEMMA PutInFreeInv ==
    ASSUME MapInv, pc = "insert", PutInFree
    PROVE  MapInv'
<1>0. TableInv /\ CallInv /\ IterInv /\ HandInv /\ OldInv
    BY Inserting
<1> DEFINE U == Used(tab, cap)
<1>1. /\ cap \in Nat /\ cap >= 4 /\ len \in Nat /\ len = Cardinality(U) /\ len < cap
      /\ IsFiniteSet(U) /\ IsPow2(cap) /\ cap >= MinCap /\ U \subseteq 0 .. cap - 1
      /\ Unique(tab, U)
    BY Inserting
<1>2. tab[idx] = Zeroed /\ tab' = [tab EXCEPT ![idx] = tmp] /\ len' = len + 1 /\ InsertReturns /\ Disturb
    BY Inserting DEF PutInFree
<1>3. idx \in 0 .. cap - 1 /\ idx \notin U
    BY <1>2, Inserting DEF Used
<1>4. /\ Tab(tab', cap) /\ Order(tab', cap) /\ tab'[idx] = tmp
      /\ \A j \in 0 .. cap - 1 : j # idx => tab'[j] = tab[j]
      /\ Used(tab', cap) = U \union {idx}
    <2>1. /\ Tab(tab, cap) /\ Order(tab, cap) /\ idx \in 0 .. cap - 1
          /\ Good(tmp) /\ At(tmp, cap, idx) /\ May(tab, cap, idx, tmp.psl)
          /\ tab[idx] # Zeroed => tab[idx].psl <= tmp.psl
        BY <1>2, Inserting
    <2>2. Puts(tab', tab, idx, tmp)
        BY <1>2 DEF Puts
    <2> QED
        BY <2>1, <2>2, Place
<1>5. cap' = cap
    BY <1>4, CapIs DEF cap
<1>6. \A j \in U : tab[j].key # tmp.key
    BY <1>0, <1>2, HandReach
<1>7. Cardinality(U \union {idx}) = Cardinality(U) + 1
    BY <1>1, <1>3, FS_AddElement
<1>8. old # NoOld =>
        /\ cap = 2 * CapOf(old.tab) /\ CapOf(old.tab) \in Nat /\ Cardinality(Left) \in Nat
        /\ \A i \in U, j \in Left : tab[i].key # old.tab[j].key
        /\ \A j \in Left : old.tab[j].key # tmp.key
        /\ len + Cardinality(Left) + 1 < CapOf(old.tab)
    <2> SUFFICES ASSUME old # NoOld
                 PROVE  /\ cap = 2 * CapOf(old.tab) /\ CapOf(old.tab) \in Nat /\ Cardinality(Left) \in Nat
                        /\ \A i \in U, j \in Left : tab[i].key # old.tab[j].key
                        /\ \A j \in Left : old.tab[j].key # tmp.key
                        /\ len + Cardinality(Left) + 1 < CapOf(old.tab)
        OBVIOUS
    <2>1. Tab(old.tab, CapOf(old.tab))
        BY <1>0 DEF OldInv
    <2>2. CapOf(old.tab) \in Nat /\ Left \subseteq Used(old.tab, CapOf(old.tab))
        BY <2>1 DEF Tab, Left
    <2>3. Cardinality(Left) \in Nat
        BY <2>2, UsedIsFinite
    <2> QED
        BY <1>0, <2>2, <2>3 DEF OldInv
<1>9. len + 1 < cap
    <2>1. CASE old = NoOld
        <3>1. 4 * len < 3 * cap
            BY <1>0, <2>1 DEF HandInv
        <3> QED
            BY <1>1, <3>1
    <2>2. CASE old # NoOld
        BY <1>1, <1>8, <2>2
    <2> QED
        BY <2>1, <2>2
<1>10. TableInv'
    <2>1. len' = Cardinality(Used(tab', cap')) /\ len' < cap'
        BY <1>1, <1>2, <1>4, <1>5, <1>7, <1>9
    <2> QED
        BY <1>1, <1>4, <1>5, <2>1 DEF TableInv
<1>11. CallInv' /\ HandInv' /\ OldInv' /\ Live' = Used(tab', cap)
    <2>1. ASSUME old # NoOld, NEW i \in Used(tab', cap), NEW j \in Left
          PROVE  tab'[i].key # old.tab[j].key
        BY <1>1, <1>4, <1>8, <2>1
    <2>2. ASSUME old # NoOld
          PROVE  len' + Cardinality(Left) + 0 < CapOf(old.tab)
        <3>1. /\ CapOf(old.tab) \in Nat /\ Cardinality(Left) \in Nat
              /\ len + Cardinality(Left) + 1 < CapOf(old.tab)
            BY <1>8, <2>2
        <3> QED
            BY <1>1, <1>2, <3>1
    <2> QED
        BY <1>2, <1>5, <1>10, <2>1, <2>2, InsertEnds
<1>12. Unique(tab, Live)'
    <2>1. ASSUME NEW i \in U \union {idx}, NEW j \in U \union {idx}, tab'[i].key = tab'[j].key
          PROVE  i = j
        BY <1>1, <1>3, <1>4, <1>6, <2>1 DEF Unique
    <2> QED
        BY <1>4, <1>5, <1>11, <2>1 DEF Unique
<1>13. IterInv'
    BY <1>0, <1>2 DEF IterInv, Disturb
<1> QED
    BY <1>10, <1>11, <1>12, <1>13 DEF MapInv

\* The key was there: its value is replaced.
LEMMA OverwriteInv ==
    ASSUME MapInv, pc = "insert", Overwrite
    PROVE  MapInv'
<1>0. TableInv /\ CallInv /\ IterInv /\ HandInv /\ OldInv
    BY Inserting
<1> DEFINE U == Used(tab, cap)
           b == tab[idx]
           e == [b EXCEPT !.val = tmp.val]
<1>1. /\ cap \in Nat /\ cap >= 4 /\ len \in Nat /\ len = Cardinality(U) /\ len < cap
      /\ IsPow2(cap) /\ cap >= MinCap /\ U \subseteq 0 .. cap - 1
      /\ Unique(tab, U) /\ idx \in 0 .. cap - 1 /\ Tab(tab, cap) /\ Order(tab, cap)
    BY Inserting
<1>2. /\ b # Zeroed /\ tab' = [tab EXCEPT ![idx].val = tmp.val]
      /\ InsertReturns /\ UNCHANGED <<len, iterVars>> /\ b.key = tmp.key
    BY Inserting DEF Overwrite, Matches
<1>3. Good(b) /\ b.psl \in Nat /\ At(b, cap, idx) /\ May(tab, cap, idx, b.psl) /\ idx \in U
    BY <1>1, <1>2, FreeIsZeroed DEF Order, Used
<1>4. Good(e) /\ e.psl = b.psl /\ e.key = b.key /\ At(e, cap, idx)
    <2>1. b \in EntryType /\ b.hash = Hash(b.key) /\ tmp.val \in Vals
        BY <1>3, Inserting, GoodIsFull DEF Good
    <2> HIDE DEF b
    <2>2. e = [hash |-> b.hash, psl |-> b.psl, key |-> b.key, val |-> tmp.val]
        BY <2>1 DEF EntryType
    <2>3. e.hash = b.hash /\ e.psl = b.psl /\ e.key = b.key
        BY <2>2
    <2>4. Good(e)
        BY <2>1, <2>2 DEF Good, EntryType
    <2> HIDE DEF e
    <2> QED
        BY <1>3, <2>3, <2>4 DEF At
<1>5. tab' = [tab EXCEPT ![idx] = e]
    BY <1>2
<1> HIDE DEF e
<1>6. /\ Tab(tab', cap) /\ Order(tab', cap) /\ tab'[idx] = e
      /\ \A j \in 0 .. cap - 1 : j # idx => tab'[j] = tab[j]
      /\ Used(tab', cap) = U
    <2>1. /\ Tab(tab, cap) /\ Order(tab, cap) /\ idx \in 0 .. cap - 1
          /\ Good(e) /\ At(e, cap, idx) /\ May(tab, cap, idx, e.psl)
          /\ tab[idx] # Zeroed => tab[idx].psl <= e.psl
        BY <1>1, <1>3, <1>4
    <2>2. Puts(tab', tab, idx, e)
        BY <1>5 DEF Puts
    <2>3. /\ Tab(tab', cap) /\ Order(tab', cap) /\ tab'[idx] = e
          /\ \A j \in 0 .. cap - 1 : j # idx => tab'[j] = tab[j]
          /\ Used(tab', cap) = Used(tab, cap) \union {idx}
        BY <2>1, <2>2, Place
    <2> QED
        BY <1>3, <2>3
<1>7. cap' = cap
    BY <1>6, CapIs DEF cap
<1>8. \A j \in U : tab'[j].key = tab[j].key
    BY <1>1, <1>4, <1>6
<1>9. TableInv'
    BY <1>1, <1>2, <1>6, <1>7 DEF TableInv
<1>10. CallInv' /\ HandInv' /\ OldInv' /\ Live' = Used(tab', cap)
    <2>1. ASSUME old # NoOld, NEW i \in Used(tab', cap), NEW j \in Left
          PROVE  tab'[i].key # old.tab[j].key
        BY <1>0, <1>6, <1>8, <2>1 DEF OldInv
    <2>2. ASSUME old # NoOld
          PROVE  len' + Cardinality(Left) + 0 < CapOf(old.tab)
        <3>1. Tab(old.tab, CapOf(old.tab)) /\ len + Cardinality(Left) + 1 < CapOf(old.tab)
            BY <1>0, <2>2 DEF OldInv
        <3>2. CapOf(old.tab) \in Nat /\ Left \subseteq Used(old.tab, CapOf(old.tab))
            BY <3>1 DEF Tab, Left
        <3>3. Cardinality(Left) \in Nat
            BY <3>2, UsedIsFinite
        <3> QED
            BY <1>1, <1>2, <3>1, <3>2, <3>3
    <2> QED
        BY <1>2, <1>7, <1>9, <2>1, <2>2, InsertEnds
<1>11. Unique(tab, Live)'
    BY <1>1, <1>6, <1>7, <1>8, <1>10 DEF Unique
<1>12. IterInv'
    <2>1. pc' # "shift"
        BY <1>2 DEF InsertReturns, Finish
    <2>2. it' = it /\ seen' = seen /\ steady' = steady
        BY <1>2 DEF iterVars
    <2>3. Passed(tab', cap, it) = Passed(tab, cap, it)
        BY <1>6, <1>8 DEF Passed
    <2> QED
        BY <1>0, <1>7, <2>1, <2>2, <2>3 DEF IterInv
<1> QED
    BY <1>9, <1>10, <1>11, <1>12 DEF MapInv

\* Another entry's bucket: the hand takes it or passes.
LEMMA PassOnInv ==
    ASSUME MapInv, pc = "insert", PassOn
    PROVE  MapInv'
<1>0. TableInv /\ CallInv /\ IterInv /\ HandInv /\ OldInv
    BY Inserting
<1> DEFINE U == Used(tab, cap)
           b == tab[idx]
           next == After(idx, cap)
<1>1. /\ cap \in Nat /\ cap >= 4 /\ len \in Nat /\ len = Cardinality(U) /\ len < cap
      /\ IsPow2(cap) /\ cap >= MinCap /\ U \subseteq 0 .. cap - 1 /\ CapOf(tab) = cap
      /\ Unique(tab, U) /\ idx \in 0 .. cap - 1 /\ Tab(tab, cap) /\ Order(tab, cap)
      /\ Good(tmp) /\ At(tmp, cap, idx) /\ May(tab, cap, idx, tmp.psl)
      /\ tmp # Zeroed /\ tmp.psl \in Nat
    BY Inserting
<1>2. /\ b # Zeroed /\ ~Matches(b, tmp.key)
      /\ UNCHANGED <<len, pc, psl, arg, old, ret>>
    BY Inserting DEF PassOn
<1>3. Good(b) /\ b.psl \in Nat /\ At(b, cap, idx) /\ idx \in U
    BY <1>1, <1>2, FreeIsZeroed DEF Order, Used
<1>4. b.key # tmp.key
    BY <1>1, <1>2, <1>3 DEF Matches, Good
<1>5. next \in 0 .. cap - 1 /\ next # idx /\ Before(next, cap) = idx /\ idx' = next
    BY <1>1, NeighboursAreApart DEF PassOn, NextIdx, After
<1>6. tmp.psl < cap
    BY <1>1 DEF At
<1> HIDE DEF next
<1>7. CASE Richer(b, tmp)
    <2>1. tab' = [tab EXCEPT ![idx] = tmp] /\ tmp' = [b EXCEPT !.psl = @ + 1] /\ Disturb
        BY <1>7 DEF PassOn, Carry
    <2>2. b.psl < tmp.psl
        BY <1>7 DEF Richer
    <2>3. \A j \in U : tab[j].key # tmp.key
        <3> SUFFICES ASSUME NEW j \in U, tab[j].key = tmp.key PROVE FALSE
            OBVIOUS
        <3>1. b.psl >= tmp.psl
            BY <1>0, HandReach
        <3> QED
            BY <1>1, <1>3, <2>2, <3>1
    <2>4. /\ Tab(tab', cap) /\ Order(tab', cap) /\ tab'[idx] = tmp
          /\ \A j \in 0 .. cap - 1 : j # idx => tab'[j] = tab[j]
          /\ Used(tab', cap) = U
        <3>1. /\ Tab(tab, cap) /\ Order(tab, cap) /\ idx \in 0 .. cap - 1
              /\ Good(tmp) /\ At(tmp, cap, idx) /\ May(tab, cap, idx, tmp.psl)
              /\ tab[idx] # Zeroed => tab[idx].psl <= tmp.psl
            BY <1>1, <1>3, <2>2
        <3>2. Puts(tab', tab, idx, tmp)
            BY <2>1 DEF Puts
        <3>3. /\ Tab(tab', cap) /\ Order(tab', cap) /\ tab'[idx] = tmp
              /\ \A j \in 0 .. cap - 1 : j # idx => tab'[j] = tab[j]
              /\ Used(tab', cap) = Used(tab, cap) \union {idx}
            BY <3>1, <3>2, Place
        <3> QED
            BY <1>3, <3>3
    <2>5. cap' = cap
        BY <2>4, CapIs DEF cap
    <2>6. /\ Good(tmp') /\ tmp'.key = b.key /\ tmp'.psl = b.psl + 1
          /\ (tmp'.hash + tmp'.psl) % cap = next
        BY <1>1, <1>3, <2>1, GoesOn DEF next
    <2>7. At(tmp', cap, next)
        BY <1>1, <1>3, <1>6, <2>2, <2>6 DEF At
    <2>8. May(tab', cap, next, tmp'.psl)
        BY <1>1, <1>3, <1>5, <2>2, <2>4, <2>6 DEF May
    <2>9. \A i \in Used(tab', cap) : tab'[i].key # tmp'.key
        BY <1>1, <1>3, <1>4, <2>4, <2>6 DEF Unique
    <2>10. TableInv'
        BY <1>1, <1>2, <2>4, <2>5 DEF TableInv
    <2>11. CallInv'
        BY <1>0, <1>2, <1>5, <2>5 DEF CallInv
    <2>12. HandInv'
        <3>1. old = NoOld => 4 * len < 3 * cap
            BY <1>0 DEF HandInv
        <3> QED
            BY <1>2, <1>5, <2>5, <2>6, <2>7, <2>8, <2>9, <3>1 DEF HandInv
    <2>13. OldInv'
        <3> SUFFICES ASSUME old # NoOld PROVE OldInv'
            BY <1>2 DEF OldInv
        <3>1. /\ old = [tab |-> old.tab, i |-> old.i]
              /\ Tab(old.tab, CapOf(old.tab)) /\ IsPow2(CapOf(old.tab)) /\ CapOf(old.tab) >= MinCap
              /\ cap = 2 * CapOf(old.tab) /\ old.i \in 0 .. CapOf(old.tab)
              /\ Unique(old.tab, Left)
              /\ \A i \in U, j \in Left : tab[i].key # old.tab[j].key
              /\ \A j \in Left : old.tab[j].key # tmp.key
              /\ len + Cardinality(Left) + 1 < CapOf(old.tab)
            BY <1>0 DEF OldInv
        <3>2. old' = old /\ Left' = Left
            BY <1>2 DEF Left
        <3>3. \A i \in Used(tab', cap'), j \in Left' : tab'[i].key # old'.tab[j].key
            BY <1>1, <2>4, <2>5, <3>1, <3>2
        <3>4. \A j \in Left' : old'.tab[j].key # tmp'.key
            BY <1>3, <2>6, <3>1, <3>2
        <3> QED
            BY <1>2, <2>5, <3>1, <3>2, <3>3, <3>4 DEF OldInv
    <2>14. Unique(tab, Live)'
        <3>1. Live' = U
            BY <1>2, <2>4, <2>5 DEF Live
        <3>2. ASSUME NEW i \in U, NEW j \in U, tab'[i].key = tab'[j].key
              PROVE  i = j
            BY <1>1, <2>3, <2>4, <3>2 DEF Unique
        <3> QED
            BY <3>1, <3>2 DEF Unique
    <2>15. IterInv'
        BY <1>0, <2>1 DEF IterInv, Disturb
    <2> QED
        BY <2>10, <2>11, <2>12, <2>13, <2>14, <2>15 DEF MapInv
<1>8. CASE ~Richer(b, tmp)
    <2>1. tmp' = [tmp EXCEPT !.psl = @ + 1] /\ UNCHANGED <<tab, iterVars>>
        BY <1>8 DEF PassOn, Carry
    <2>2. b.psl >= tmp.psl
        BY <1>1, <1>3, <1>8 DEF Richer
    <2>3. TableInv' /\ cap' = cap
        BY <1>0, <1>2, <2>1, SameTable
    <2>4. /\ Good(tmp') /\ tmp'.key = tmp.key /\ tmp'.psl = tmp.psl + 1
          /\ (tmp'.hash + tmp'.psl) % cap = next
        BY <1>1, <2>1, GoesOn DEF next
    <2>5. May(tab, cap, next, tmp'.psl)
        BY <1>1, <1>2, <1>3, <1>5, <2>2, <2>4 DEF May
    <2>6. tmp'.psl < cap
        <3>1. PICK f \in 0 .. cap - 1 : tab[f] = Zeroed
            BY <1>1, FreeExists
        <3>2. tmp'.psl \in 0 .. cap
            BY <1>1, <1>6, <2>4
        <3> QED
            BY <1>1, <1>5, <2>5, <3>1, <3>2, RoomLeft
    <2>7. At(tmp', cap, next)
        BY <2>4, <2>6 DEF At
    <2>8. \A i \in U : tab[i].key = tmp.key => tab[i].psl >= tmp.psl + 1
        <3> SUFFICES ASSUME NEW i \in U, tab[i].key = tmp.key
                     PROVE  tab[i].psl >= tmp.psl + 1
            OBVIOUS
        <3>1. tab[i].psl >= tmp.psl
            BY <1>0 DEF HandInv
        <3>2. tab[i].psl # tmp.psl
            BY <1>0, <1>4, HandReach
        <3>3. tab[i].psl \in Nat
            BY <1>1, FreeIsZeroed DEF Used
        <3> QED
            BY <1>1, <3>1, <3>2, <3>3
    <2>9. CallInv'
        BY <1>0, <1>2, <1>5, <2>1, <2>3 DEF CallInv
    <2>10. HandInv'
        <3>1. /\ old # NoOld \/ tmp.key # arg.key => \A i \in U : tab[i].key # tmp.key
              /\ old = NoOld => 4 * len < 3 * cap
            BY <1>0 DEF HandInv
        <3> QED
            BY <1>2, <1>5, <2>1, <2>3, <2>4, <2>5, <2>7, <2>8, <3>1 DEF HandInv
    <2>11. OldInv'
        <3>1. Left' = Left
            BY <1>2 DEF Left
        <3> QED
            BY <1>0, <1>2, <2>1, <2>3, <2>4, <3>1 DEF OldInv
    <2>12. Unique(tab, Live)'
        BY <1>1, <1>2, <2>1, <2>3 DEF Unique, Live
    <2>13. IterInv'
        BY <1>0, <1>2, <2>1, <2>3 DEF IterInv, Passed, iterVars
    <2> QED
        BY <2>3, <2>9, <2>10, <2>11, <2>12, <2>13 DEF MapInv
<1> QED
    BY <1>7, <1>8

\* map_clear.
LEMMA ClearMapInv ==
    ASSUME MapInv, ClearMap
    PROVE  MapInv'
<1>0. TableInv /\ CallInv /\ IterInv /\ pc = "idle" /\ old = NoOld
    BY DEF MapInv, ClearMap, CallInv
<1>1. cap \in Nat /\ cap >= 4 /\ IsPow2(cap) /\ cap >= MinCap
    BY <1>0, Sizes DEF TableInv
<1>2. tab' = Empty(cap) /\ len' = 0 /\ Disturb /\ callVars' = callVars
    BY DEF ClearMap
<1>3. /\ Tab(tab', cap) /\ Order(tab', cap) /\ Used(tab', cap) = {}
      /\ CapOf(tab') = cap /\ Cardinality(Used(tab', cap)) = 0
    BY <1>1, <1>2, EmptyTable
<1>4. cap' = cap
    BY <1>3 DEF cap
<1>5. TableInv'
    BY <1>1, <1>2, <1>3, <1>4 DEF TableInv
<1>6. CallInv' /\ HandInv' /\ OldInv'
    BY <1>0, <1>2, <1>4 DEF CallInv, HandInv, OldInv, callVars
<1>7. Unique(tab, Live)'
    BY <1>0, <1>2, <1>3, <1>4 DEF Unique, Live, callVars
<1>8. IterInv'
    BY <1>0, <1>2 DEF IterInv, Disturb
<1> QED
    BY <1>5, <1>6, <1>7, <1>8 DEF MapInv

\* An iterator is reset.
LEMMA StartIterationInv ==
    ASSUME MapInv, StartIteration
    PROVE  MapInv'
<1>0. TableInv /\ CallInv /\ IterInv /\ HandInv /\ OldInv /\ Unique(tab, Live) /\ pc = "idle"
    BY DEF MapInv, StartIteration
<1>1. it' = 0 /\ seen' = {} /\ UNCHANGED <<tab, len, callVars, ret>>
    BY DEF StartIteration
<1>2. TableInv' /\ cap' = cap
    BY <1>0, <1>1, SameTable
<1>3. CallInv' /\ HandInv' /\ OldInv' /\ Unique(tab, Live)'
    BY <1>0, <1>1, <1>2 DEF CallInv, HandInv, OldInv, Unique, Live, callVars
<1>4. Passed(tab, cap, 0) = {}
    BY DEF Passed, Used
<1>5. IterInv'
    BY <1>0, <1>1, <1>2, <1>4 DEF IterInv, callVars
<1> QED
    BY <1>2, <1>3, <1>5 DEF MapInv

\* What map_next finds: nothing, or the first full bucket from the iterator on.
LEMMA NextFound ==
    ASSUME MapInv, MapNext
    PROVE  \/ /\ it' = cap /\ seen' = seen
              /\ Passed(tab, cap, cap) = Passed(tab, cap, it)
           \/ \E j \in Used(tab, cap) :
                /\ j >= it /\ it' = j + 1
                /\ seen' = IF steady THEN seen \union {tab[j].key} ELSE {}
                /\ Passed(tab, cap, j + 1) = Passed(tab, cap, it) \union {tab[j].key}
<1>0. TableInv /\ it \in Nat /\ pc = "idle"
    BY DEF MapInv, IterInv, MapNext
<1>1. cap \in Nat /\ Tab(tab, cap) /\ Used(tab, cap) \subseteq 0 .. cap - 1
    BY <1>0, Sizes
<1> DEFINE F == NextFull(it)
           U == Used(tab, cap)
<1>2. F = {j \in U : j >= it}
    BY <1>0, <1>1, FreeIsZeroed DEF NextFull, Used
<1> HIDE DEF F
<1>3. CASE F = {}
    <2>1. it' = cap /\ seen' = seen
        BY <1>3 DEF MapNext, F
    <2>2. \A k \in U : k < cap <=> k < it
        BY <1>0, <1>1, <1>2, <1>3
    <2>3. Passed(tab, cap, cap) = Passed(tab, cap, it)
        BY <2>2 DEF Passed
    <2> QED
        BY <2>1, <2>3
<1>4. CASE F # {}
    <2> DEFINE j == CHOOSE j \in F : \A h \in F : j <= h
    <2>1. F \subseteq Nat
        BY <1>1, <1>2
    <2>2. PICK x \in F : \A y \in F : ~(y < x)
        BY <1>4, <2>1, FirstExists
    <2>3. \E x1 \in F : \A h \in F : x1 <= h
        BY <2>1, <2>2
    <2>4. j \in F /\ \A h \in F : j <= h
        BY <2>3
    <2>5. it' = j + 1 /\ seen' = IF steady THEN seen \union {tab[j].key} ELSE {}
        BY <1>4 DEF MapNext, F
    <2> HIDE DEF j
    <2>6. j \in U /\ j >= it
        BY <1>2, <2>4
    <2>7. {k \in U : k < j + 1} = {k \in U : k < it} \union {j}
        BY <1>0, <1>1, <1>2, <2>4, <2>6
    <2>8. Passed(tab, cap, j + 1) = Passed(tab, cap, it) \union {tab[j].key}
        BY <2>7 DEF Passed
    <2> QED
        BY <2>5, <2>6, <2>8
<1> QED
    BY <1>3, <1>4

\* map_next.
LEMMA MapNextInv ==
    ASSUME MapInv, MapNext
    PROVE  MapInv'
<1>0. TableInv /\ CallInv /\ IterInv /\ HandInv /\ OldInv /\ Unique(tab, Live) /\ pc = "idle"
    BY DEF MapInv, MapNext
<1>1. UNCHANGED <<tab, len, callVars, ret, steady>>
    BY DEF MapNext
<1>2. TableInv' /\ cap' = cap
    BY <1>0, <1>1, SameTable
<1>3. CallInv' /\ HandInv' /\ OldInv' /\ Unique(tab, Live)'
    BY <1>0, <1>1, <1>2 DEF CallInv, HandInv, OldInv, Unique, Live, callVars
<1>4. cap \in Nat /\ Tab(tab, cap) /\ Used(tab, cap) \subseteq 0 .. cap - 1
    BY <1>0, Sizes
<1>5. pc' = "idle"
    BY <1>0, <1>1 DEF callVars
<1>6. CASE it' = cap /\ seen' = seen /\ Passed(tab, cap, cap) = Passed(tab, cap, it)
    <2>1. IterInv'
        BY <1>0, <1>1, <1>2, <1>4, <1>5, <1>6 DEF IterInv
    <2> QED
        BY <1>2, <1>3, <2>1 DEF MapInv
<1>7. ASSUME NEW j \in Used(tab, cap),
             /\ j >= it /\ it' = j + 1
             /\ seen' = IF steady THEN seen \union {tab[j].key} ELSE {}
             /\ Passed(tab, cap, j + 1) = Passed(tab, cap, it) \union {tab[j].key}
      PROVE  MapInv'
    <2>1. tab[j].key \in Keys
        <3>1. Good(tab[j])
            BY <1>4, FreeIsZeroed DEF Used
        <3> QED
            BY <3>1, GoodIsFull
    <2>2. IterInv'
        <3>1. it' \in Nat
            BY <1>4, <1>7
        <3>2. seen \subseteq Keys /\ (steady => seen = Passed(tab, cap, it))
            BY <1>0 DEF IterInv
        <3>3. steady => seen' = Passed(tab, cap, it')
            BY <1>7, <3>2
        <3>4. seen' \subseteq Keys
            BY <1>7, <2>1, <3>2
        <3> QED
            BY <1>1, <1>2, <1>5, <3>1, <3>3, <3>4 DEF IterInv
    <2> QED
        BY <1>2, <1>3, <2>2 DEF MapInv
<1> QED
    BY <1>6, <1>7, NextFound

\* Every step of the map keeps the invariant.
LEMMA MapStepInv ==
    ASSUME MapInv, [TableNext]_mapVars
    PROVE  MapInv'
<1>1. CASE Step
    BY <1>1, GetStepInv, DelStepInv, ShiftStepInv, RehashInv, PutInFreeInv, OverwriteInv, PassOnInv
       DEF Step, InsertStep
<1>2. CASE MapCall
    <2>1. ASSUME NEW k \in Keys, MapGet(k) \/ Del(k) PROVE MapInv'
        BY <2>1, ProbeInv DEF MapGet, Del
    <2> QED
        BY <1>2, <2>1, SetInv, ClearMapInv, StartIterationInv, MapNextInv DEF MapCall
<1>3. CASE UNCHANGED mapVars
    <2>1. UNCHANGED <<tab, len, pc, idx, psl, tmp, arg, old, ret, it, seen>> /\ steady' = steady
        BY <1>3 DEF mapVars, callVars, iterVars
    <2>2. cap' = cap
        BY <2>1 DEF cap
    <2> QED
        BY <2>1, <2>2 DEF MapInv, TableInv, CallInv, HandInv, Unique, Live, OldInv, Left, IterInv, Passed
<1> QED
    BY <1>1, <1>2, <1>3 DEF TableNext

\* Nothing but a truth value is ever stored in steady.
SteadyIsTruth == steady \in BOOLEAN

\* Whatever the hash table does, steady is a truth value.
LEMMA SteadyIsBoolean == MapSpec => []SteadyIsTruth
<1>1. MapInit => SteadyIsTruth
    BY DEF MapInit, SteadyIsTruth
<1>2. ASSUME SteadyIsTruth, [TableNext]_mapVars
      PROVE  SteadyIsTruth'
    <2>1. steady' = steady \/ steady' = FALSE \/ steady' = TRUE
        BY <1>2, Zenon
           DEF TableNext, Step, MapCall, GetStep, DelStep, ShiftStep, Rehash, InsertStep, PutInFree,
               Overwrite, PassOn, MapGet, Del, Set, Probe, Advance, ClearMap, StartIteration, MapNext,
               Disturb, iterVars, mapVars
    <2> QED
        BY <1>2, <2>1, Zenon DEF SteadyIsTruth
<1> QED
    BY <1>1, <1>2, PTL DEF MapSpec

\* The terms of the properties are those of the invariant.
LEMMA SameTerms ==
    ASSUME NEW t, NEW n, Tab(t, n)
    PROVE  /\ Full(t) = Used(t, n)
           /\ \A i \in Used(t, n) : Bucket(t[i])
           /\ \A i \in 0 .. n - 1 : t[i] = Zeroed \/ Bucket(t[i])
           /\ \A i \in 0 .. n - 1 : Prev(t, i) = Before(i, n)
<1>1. CapOf(t) = n /\ DOMAIN t = 0 .. n - 1
    BY CapIs
<1>2. Full(t) = Used(t, n)
    BY <1>1, FreeIsZeroed DEF Full, Used
<1>3. ASSUME NEW i \in 0 .. n - 1, t[i] # Zeroed PROVE Bucket(t[i])
    <2> DEFINE e == t[i]
    <2>1. e \in [hash : Nat, psl : Nat, key : Keys, val : Vals] /\ e.hash = Hash(e.key)
        BY <1>3, FreeIsZeroed DEF Good, EntryType
    <2> HIDE DEF e
    <2>2. Bucket(e)
        BY <2>1 DEF Bucket
    <2> QED
        BY <2>2 DEF e
<1> QED
    BY <1>1, <1>2, <1>3 DEF Used, Prev, Before

\* The invariant implies the property the run checks.
LEMMA InvIsSound ==
    ASSUME MapInv, SteadyIsTruth
    PROVE  MapSound
<1>0. TableInv /\ CallInv /\ IterInv /\ HandInv /\ OldInv /\ Unique(tab, Live)
    BY DEF MapInv
<1> DEFINE U == Used(tab, cap)
           m == CapOf(old.tab)
<1>1. /\ cap \in Nat /\ cap >= 4 /\ DOMAIN tab = 0 .. cap - 1 /\ CapOf(tab) = cap
      /\ len \in Nat /\ Tab(tab, cap) /\ Order(tab, cap) /\ IsFiniteSet(U) /\ U \subseteq 0 .. cap - 1
    BY <1>0, Sizes
<1>2. len = Cardinality(U) /\ len < cap /\ IsPow2(cap) /\ cap >= MinCap
    BY <1>0 DEF TableInv
<1>3. /\ Full(tab) = U /\ \A i \in U : Bucket(tab[i])
      /\ \A i \in 0 .. cap - 1 : tab[i] = Zeroed \/ Bucket(tab[i])
      /\ \A i \in 0 .. cap - 1 : Prev(tab, i) = Before(i, cap)
    BY <1>1, SameTerms
<1>4. Table(tab)
    BY <1>1, <1>2, <1>3 DEF Table
<1>5. old # NoOld => /\ Full(old.tab) = Used(old.tab, m) /\ Table(old.tab) /\ old.i \in 0 .. m
                     /\ DOMAIN old.tab = 0 .. m - 1
    <2> SUFFICES ASSUME old # NoOld
                 PROVE  /\ Full(old.tab) = Used(old.tab, m) /\ Table(old.tab) /\ old.i \in 0 .. m
                        /\ DOMAIN old.tab = 0 .. m - 1
        OBVIOUS
    <2>1. Tab(old.tab, m) /\ IsPow2(m) /\ m >= MinCap /\ old.i \in 0 .. m
        BY <1>0 DEF OldInv
    <2>2. DOMAIN old.tab = 0 .. m - 1 /\ CapOf(old.tab) = m
        BY <2>1, CapIs
    <2>3. Full(old.tab) = Used(old.tab, m) /\ \A i \in 0 .. m - 1 : old.tab[i] = Zeroed \/ Bucket(old.tab[i])
        BY <2>1, SameTerms
    <2> QED
        BY <2>1, <2>2, <2>3 DEF Table
<1>6. Held = Live /\ Unmoved = IF old # NoOld THEN Left ELSE {}
    BY <1>3, <1>5 DEF Held, Live, Unmoved, Left, Moving
<1>7. MapTypeOK
    <2>1. IF pc = "insert" THEN Bucket(tmp) ELSE tmp = Absent
        <3>1. CASE pc = "insert"
            <4>1. tmp \in [hash : Nat, psl : Nat, key : Keys, val : Vals] /\ tmp.hash = Hash(tmp.key)
                BY <1>0, <3>1 DEF HandInv, Good, EntryType
            <4>2. Bucket(tmp)
                BY <4>1 DEF Bucket
            <4> QED
                BY <3>1, <4>2
        <3>2. CASE pc # "insert"
            BY <1>0, <3>2 DEF CallInv
        <3> QED
            BY <3>1, <3>2
    <2>2. /\ arg = NoArg <=> pc = "idle"
          /\ arg.key \in Keys \union {Absent} /\ arg.val \in Vals \union {Absent}
        <3>1. CASE pc = "idle"
            BY <1>0, <3>1 DEF CallInv, NoArg
        <3>2. CASE pc # "idle"
            <4>1. arg.key \in Keys /\ arg.val \in Vals \union {Absent}
                BY <1>0, <3>2 DEF CallInv
            <4>2. arg.key # NoArg.key
                BY <4>1, MapAssumption DEF NoArg
            <4> QED
                BY <3>2, <4>1, <4>2
        <3> QED
            BY <3>1, <3>2
    <2>3. /\ pc \in {"idle", "get", "del", "shift", "insert", "rehash"}
          /\ idx \in DOMAIN tab /\ psl \in Nat
          /\ pc = "rehash" => Moving
        BY <1>0, <1>1 DEF CallInv, Moving
    <2>4. Moving => pc \in {"insert", "rehash"} /\ Table(old.tab) /\ old.i \in 0 .. CapOf(old.tab)
        BY <1>0, <1>5 DEF CallInv, Moving
    <2>5. len \in 0 .. cap /\ it \in Nat /\ seen \in SUBSET Keys
        BY <1>0, <1>1, <1>2 DEF IterInv
    <2> QED
        BY <1>4, <2>1, <2>2, <2>3, <2>4, <2>5, Zenon DEF MapTypeOK, SteadyIsTruth
<1>8. RobinHoodOrder
    <2> SUFFICES ASSUME NEW i \in U
                 PROVE  /\ (Home(tab, tab[i].key) + tab[i].psl) % cap = i
                        /\ tab[i].psl < cap
                        /\ tab[i].psl > 0 => /\ Prev(tab, i) \in Full(tab)
                                             /\ tab[Prev(tab, i)].psl >= tab[i].psl - 1
        BY <1>3 DEF RobinHoodOrder
    <2>1. i \in 0 .. cap - 1 /\ tab[i] # Zeroed
        BY DEF Used
    <2>2. At(tab[i], cap, i) /\ May(tab, cap, i, tab[i].psl)
        BY <1>1, <2>1 DEF Order
    <2>3. Good(tab[i]) /\ tab[i].psl \in Nat /\ tab[i].hash \in Nat
        BY <1>1, <2>1, FreeIsZeroed
    <2>4. (Home(tab, tab[i].key) + tab[i].psl) % cap = i
        <3> DEFINE h == tab[i].hash
                   p == tab[i].psl
        <3>1. Home(tab, tab[i].key) = h % cap
            BY <1>1, <2>3 DEF Home, Good
        <3>2. h \in Int /\ p \in Int /\ cap \in Nat \ {0} /\ cap % cap = 0
            BY <1>1, <2>3, ModSelf
        <3>3. (h + p) % cap = i
            BY <2>2 DEF At
        <3> HIDE DEF h
        <3>4. ((h % cap) + p) % cap = (h + p) % cap
            <4> HIDE DEF p
            <4> QED
                BY <3>2, ModInSum
        <3> QED
            BY <3>1, <3>3, <3>4
    <2>5. Prev(tab, i) = Before(i, cap) /\ Before(i, cap) \in 0 .. cap - 1
        BY <1>1, <1>3, <2>1, NeighboursAreApart
    <2> QED
        BY <1>3, <2>2, <2>4, <2>5 DEF At, May, Used
<1>9. OneEntryPerKey
    <2>1. \A i, j \in Held : tab[i].key = tab[j].key => i = j
        BY <1>0, <1>6 DEF Unique
    <2>2. Held \subseteq U
        BY <1>6 DEF Live
    <2>3. \A i \in Held, j \in Unmoved : tab[i].key # old.tab[j].key
        BY <1>0, <1>6, <2>2 DEF OldInv
    <2>4. Displaced => /\ \A i \in Held : tab[i].key # tmp.key
                       /\ \A j \in Unmoved : old.tab[j].key # tmp.key
        BY <1>0, <1>6, <2>2 DEF Displaced, Moving, HandInv, OldInv
    <2> QED
        BY <2>1, <2>3, <2>4 DEF OneEntryPerKey
<1>10. LenIsCount
    <2>1. CASE pc = "shift"
        <3>1. idx \in U /\ Held = U \ {idx}
            BY <1>0, <1>6, <2>1 DEF CallInv, Live
        <3>2. Cardinality(U \ {idx}) = Cardinality(U) - 1
            BY <1>1, <3>1, FS_RemoveElement
        <3>3. Cardinality(U) = Cardinality(U \ {idx}) + 1
            BY <1>1, <1>2, <3>2
        <3> QED
            BY <1>2, <2>1, <3>1, <3>3 DEF LenIsCount
    <2>2. CASE pc # "shift"
        BY <1>2, <1>3, <2>2 DEF LenIsCount
    <2> QED
        BY <2>1, <2>2
<1> QED
    BY <1>7, <1>8, <1>9, <1>10 DEF MapSound

(* Every table the loops of set, del, rehash and clear pass through is     *)
(* well-formed, in Robin Hood order, with each key in one place, its       *)
(* length counted and an empty bucket to stop at: for every hash function, *)
(* every set of keys and every capacity the table grows to.                *)
THEOREM MapIsSound == MapSpec => []MapSound
<1>1. MapInit => MapInv
    BY MapInitInv
<1>2. MapInv /\ [TableNext]_mapVars => MapInv'
    BY MapStepInv
<1>3. MapInv /\ SteadyIsTruth => MapSound
    BY InvIsSound
<1> QED
    BY <1>1, <1>2, <1>3, SteadyIsBoolean, PTL DEF MapSpec

\* What a step that moves the iterator of an undisturbed pass returns.
LEMMA StepIterates ==
    ASSUME MapInv, [TableNext]_mapVars, steady, it' > it
    PROVE  \/ \E k \in Present \ seen : seen' = seen \union {k}
           \/ it' = cap /\ seen' = seen /\ seen = Present
<1>0. TableInv /\ IterInv /\ pc # "shift" /\ Unique(tab, Live)
    BY DEF MapInv, IterInv
<1>1. /\ cap \in Nat /\ Tab(tab, cap) /\ Used(tab, cap) \subseteq 0 .. cap - 1
      /\ it \in Nat /\ seen = Passed(tab, cap, it)
    BY <1>0, Sizes DEF IterInv
<1>2. MapNext
    <2>1. it' = it \/ it' = 0 \/ MapNext
        BY DEF TableNext, Step, MapCall, GetStep, DelStep, ShiftStep, Rehash, InsertStep, PutInFree,
               Overwrite, PassOn, MapGet, Del, Set, Probe, Advance, ClearMap, StartIteration,
               Disturb, iterVars, mapVars
    <2> QED
        BY <1>1, <2>1
<1> DEFINE U == Used(tab, cap)
<1>3. Present = {tab[i].key : i \in U}
    <2>1. Full(tab) = U
        BY <1>1, SameTerms
    <2> QED
        BY <2>1 DEF Present
<1>4. CASE it' = cap /\ seen' = seen /\ Passed(tab, cap, cap) = Passed(tab, cap, it)
    <2>1. {k \in U : k < cap} = U
        BY <1>1
    <2>2. Passed(tab, cap, cap) = {tab[i].key : i \in U}
        BY <2>1 DEF Passed
    <2> QED
        BY <1>1, <1>3, <1>4, <2>2
<1>5. ASSUME NEW j \in U, j >= it, seen' = seen \union {tab[j].key}
      PROVE  \E k \in Present \ seen : seen' = seen \union {k}
    <2>1. tab[j].key \in Present
        BY <1>3
    <2>2. tab[j].key \notin seen
        <3> SUFFICES ASSUME NEW k \in U, k < it, tab[k].key = tab[j].key PROVE FALSE
            BY <1>1 DEF Passed
        <3>1. k = j
            BY <1>0 DEF Unique, Live
        <3> QED
            BY <1>1, <1>5, <3>1
    <2> QED
        BY <1>5, <2>1, <2>2
<1> QED
    BY <1>2, <1>4, <1>5, NextFound

(* A pass of map_next that nothing disturbs returns every key of the map   *)
(* once, and only then ends.                                               *)
THEOREM IterationIsExact == MapSpec => IterationExact
<1>1. MapInit => MapInv
    BY MapInitInv
<1>2. MapInv /\ [TableNext]_mapVars => MapInv'
    BY MapStepInv
<1>3. MapInv /\ [TableNext]_mapVars =>
        (steady /\ it' > it =>
          \/ \E k \in Present \ seen : seen' = seen \union {k}
          \/ it' = cap /\ seen' = seen /\ seen = Present)
    BY StepIterates
<1> QED
    BY <1>1, <1>2, <1>3, PTL DEF MapSpec, IterationExact

-----------------------------------------------------------------------------
\* The probe of a get or a del has passed no bucket that could hold its key; a shift
\* has none left; the caller's pair is in hand or in the table while it is inserted.
ProbeArg ==
    pc \in {"get", "del"} =>
        /\ (Hash(arg.key) + psl) % cap = idx
        /\ \A j \in Used(tab, cap) : tab[j].key = arg.key => tab[j].psl >= psl
ShiftArg == pc = "shift" => \A i \in Live : tab[i].key # arg.key
SetArg ==
    pc = "insert" /\ old = NoOld =>
        IF tmp.key = arg.key
          THEN tmp.val = arg.val
          ELSE \E i \in Used(tab, cap) : tab[i].key = arg.key /\ tab[i].val = arg.val

ArgInv == ProbeArg /\ ShiftArg /\ SetArg

\* A key the probe looks for is in no bucket passed, nor in this one if it is not seen.
LEMMA ProbeReach ==
    ASSUME TableInv, ArgInv, CallInv, pc \in {"get", "del"},
           NEW j \in Used(tab, cap), tab[j].key = arg.key
    PROVE  /\ tab[idx] # Zeroed /\ tab[idx].psl >= psl /\ ~Missed(tab[idx])
           /\ tab[j].psl = psl => idx = j
<1>1. Tab(tab, cap) /\ Order(tab, cap) /\ j \in 0 .. cap - 1 /\ tab[j] # Zeroed
    BY Sizes DEF Used
<1>2. (Hash(arg.key) + psl) % cap = idx /\ tab[j].psl >= psl /\ psl \in Nat /\ idx \in 0 .. cap - 1
    BY DEF ArgInv, ProbeArg, CallInv
<1>3. Good(tab[j]) /\ tab[j].psl \in Nat
    BY <1>1, FreeIsZeroed
<1>4. tab[j].hash = Hash(arg.key)
    BY <1>3 DEF Good
<1> DEFINE q == psl
           b == (tab[j].hash + q) % cap
<1>5. q \in Nat /\ q <= tab[j].psl
    BY <1>2, <1>3
<1>6. b = idx
    BY <1>2, <1>4
<1> HIDE DEF q
<1>7. tab[b] # Zeroed /\ tab[b].psl >= q /\ (q = tab[j].psl => b = j)
    BY <1>1, <1>5, Reached
<1> HIDE DEF b
<1>8. tab[idx] # Zeroed /\ tab[idx].psl >= psl /\ (tab[j].psl = psl => idx = j)
    BY <1>6, <1>7 DEF q
<1>9. ~IsFree(tab[idx]) /\ tab[idx].psl \in Nat
    BY <1>1, <1>2, <1>8, FreeIsZeroed
<1>10. ~Missed(tab[idx])
    BY <1>2, <1>8, <1>9 DEF Missed
<1> QED
    BY <1>8, <1>10

\* The bucket a probe stops at because it matches is the only one with its key.
LEMMA ProbeHits ==
    ASSUME MapInv, pc \in {"get", "del"}, ~Missed(tab[idx]), Matches(tab[idx], arg.key)
    PROVE  /\ idx \in Used(tab, cap) /\ tab[idx].key = arg.key
           /\ \A j \in Used(tab, cap) : tab[j].key = arg.key => j = idx
<1>1. TableInv /\ CallInv /\ Unique(tab, Used(tab, cap))
    BY DEF MapInv, Live
<1>2. Tab(tab, cap) /\ idx \in 0 .. cap - 1
    BY <1>1 DEF TableInv, CallInv
<1>3. idx \in Used(tab, cap) /\ tab[idx].key = arg.key
    BY <1>2, FreeIsZeroed DEF Missed, Used, Matches
<1> QED
    BY <1>1, <1>3 DEF Unique

\* A call of get or del begins.
LEMMA ProbeArgInv ==
    ASSUME MapInv, NEW loop \in {"get", "del"}, NEW k \in Keys, Probe(loop, k, Absent)
    PROVE  ArgInv'
<1>1. Tab(tab, cap) /\ CapOf(tab) = cap
    BY Sizes DEF MapInv
<1>2. UNCHANGED tab /\ cap' = cap /\ pc' = loop /\ psl' = 0 /\ arg'.key = k /\ idx' = Hash(k) % cap
    BY <1>1 DEF Probe, Home, cap
<1>3. Hash(k) + 0 = Hash(k)
    BY MapAssumption DEF Hash
<1>4. \A j \in Used(tab, cap) : tab[j].psl >= 0
    BY <1>1, FreeIsZeroed DEF Used
<1>5. ProbeArg'
    BY <1>2, <1>3, <1>4 DEF ProbeArg
<1> QED
    BY <1>2, <1>5 DEF ArgInv, ShiftArg, SetArg

\* It goes on.
LEMMA AdvanceArgInv ==
    ASSUME MapInv, ArgInv, pc \in {"get", "del"}, Advance,
           ~Missed(tab[idx]), ~Matches(tab[idx], arg.key)
    PROVE  ArgInv'
<1>0. TableInv /\ CallInv
    BY DEF MapInv
<1>1. cap \in Nat /\ cap >= 4 /\ Tab(tab, cap) /\ CapOf(tab) = cap /\ idx \in 0 .. cap - 1 /\ psl \in Nat
    BY <1>0, Sizes DEF CallInv
<1>2. UNCHANGED <<tab, pc, arg>> /\ cap' = cap /\ psl' = psl + 1 /\ idx' = (idx + 1) % cap
    BY <1>1 DEF Advance, NextIdx, cap
<1>3. arg.key \in Keys
    BY <1>0 DEF CallInv
<1>4. (Hash(arg.key) + (psl + 1)) % cap = (idx + 1) % cap
    <2> DEFINE y == Hash(arg.key) + psl
    <2>1. Hash(arg.key) \in Int /\ y % cap = idx
        BY <1>3, MapAssumption DEF Hash, ArgInv, ProbeArg
    <2>2. y \in Int /\ 1 \in Int /\ cap \in Nat \ {0} /\ cap % cap = 0
        BY <1>1, <2>1, ModSelf
    <2>3. Hash(arg.key) + (psl + 1) = y + 1
        BY <1>1, <2>1
    <2> HIDE DEF y
    <2>4. ((y % cap) + 1) % cap = (y + 1) % cap
        BY <2>2, ModInSum, Zenon
    <2> QED
        BY <2>1, <2>3, <2>4
<1>5. ASSUME NEW j \in Used(tab, cap), tab[j].key = arg.key
      PROVE  tab[j].psl >= psl + 1
    <2>1. Good(tab[j]) /\ tab[j].psl \in Nat
        BY <1>1, FreeIsZeroed DEF Used
    <2>2. tab[j].psl >= psl
        BY <1>5 DEF ArgInv, ProbeArg
    <2>3. tab[j].psl # psl
        <3> SUFFICES ASSUME tab[j].psl = psl PROVE FALSE
            OBVIOUS
        <3>1. idx = j
            BY <1>0, <1>5, ProbeReach
        <3>2. Matches(tab[j], arg.key)
            BY <1>5, <2>1 DEF Matches, Good
        <3> QED
            BY <3>1, <3>2
    <2> QED
        BY <1>1, <2>1, <2>2, <2>3
<1>6. ProbeArg'
    BY <1>2, <1>4, <1>5 DEF ProbeArg
<1> QED
    BY <1>2, <1>6 DEF ArgInv, ShiftArg, SetArg

\* A call that has returned owes the invariant nothing.
LEMMA ReturnedArgInv ==
    ASSUME pc' \in {"idle", "rehash"}
    PROVE  ArgInv'
BY DEF ArgInv, ProbeArg, ShiftArg, SetArg

\* A del has found its key.
LEMMA DelArgInv ==
    ASSUME MapInv, ArgInv, DelStep
    PROVE  ArgInv'
<1>1. pc = "del"
    BY DEF DelStep
<1>2. CASE Missed(tab[idx])
    BY <1>2, ReturnedArgInv DEF DelStep, Finish
<1>3. CASE ~Missed(tab[idx]) /\ ~Matches(tab[idx], arg.key)
    BY <1>1, <1>3, AdvanceArgInv DEF DelStep
<1>4. CASE ~Missed(tab[idx]) /\ Matches(tab[idx], arg.key)
    <2>1. pc' = "shift" /\ UNCHANGED <<tab, idx, arg>>
        BY <1>4 DEF DelStep
    <2>2. cap' = cap
        BY <2>1 DEF cap
    <2>3. \A j \in Used(tab, cap) : tab[j].key = arg.key => j = idx
        BY <1>1, <1>4, ProbeHits
    <2>4. ShiftArg'
        BY <2>1, <2>2, <2>3 DEF ShiftArg, Live
    <2> QED
        BY <2>1, <2>4 DEF ArgInv, ProbeArg, SetArg
<1> QED
    BY <1>2, <1>3, <1>4

\* The table before and after one turn of the backward shift.
LEMMA ShiftTurn ==
    ASSUME MapInv, ShiftStep
    PROVE  LET next == After(idx, cap) IN
           /\ cap' = cap /\ next \in 0 .. cap - 1 /\ next # idx /\ idx \in Used(tab, cap)
           /\ \A j \in 0 .. cap - 1 : j # idx => tab'[j] = tab[j]
           /\ \/ /\ Finish("true") /\ Used(tab', cap) = Used(tab, cap) \ {idx}
              \/ /\ idx' = next /\ next \in Used(tab, cap) /\ Used(tab', cap) = Used(tab, cap)
                 /\ UNCHANGED <<pc, arg, old, ret>>
                 /\ tab'[idx].key = tab[next].key /\ tab'[idx].val = tab[next].val
<1>0. TableInv /\ CallInv /\ pc = "shift"
    BY DEF MapInv, ShiftStep
<1>1. cap \in Nat /\ cap >= 4 /\ CapOf(tab) = cap /\ Tab(tab, cap) /\ Order(tab, cap)
    BY <1>0, Sizes
<1> DEFINE next == After(idx, cap)
           nb == tab[next]
<1>2. idx \in 0 .. cap - 1 /\ idx \in Used(tab, cap) /\ tab[idx] # Zeroed
    BY <1>0 DEF CallInv, Used
<1>3. next \in 0 .. cap - 1 /\ next # idx /\ NextIdx(tab, idx) = next
    BY <1>1, <1>2, NeighboursAreApart DEF NextIdx, After
<1>4. (IsFree(nb) <=> nb = Zeroed) /\ (nb # Zeroed => nb \in EntryType)
    BY <1>1, <1>3, FreeIsZeroed DEF Good
<1> HIDE DEF next
<1>5. CASE ShiftEnds(nb)
    <2>1. tab' = [tab EXCEPT ![idx] = Zeroed] /\ Finish("true")
        BY <1>3, <1>5 DEF ShiftStep
    <2>2. Tab(tab, cap) /\ Order(tab, cap) /\ idx \in 0 .. cap - 1 /\ AtRest(tab[After(idx, cap)])
        BY <1>1, <1>2, <1>4, <1>5 DEF ShiftEnds, AtRest, next
    <2>3. Puts(tab', tab, idx, Zeroed)
        BY <2>1 DEF Puts
    <2>4. /\ Tab(tab', cap) /\ \A j \in 0 .. cap - 1 : j # idx => tab'[j] = tab[j]
          /\ Used(tab', cap) = Used(tab, cap) \ {idx}
        BY <2>2, <2>3, Vacate
    <2>5. cap' = cap
        BY <2>4, CapIs DEF cap
    <2> QED
        BY <1>2, <1>3, <2>1, <2>4, <2>5 DEF next
<1>6. CASE ~ShiftEnds(nb)
    <2> DEFINE e == [tab[After(idx, cap)] EXCEPT !.psl = @ - 1]
               u == [tab EXCEPT ![idx] = e]
    <2>1. tab' = u /\ idx' = next /\ UNCHANGED <<pc, arg, old, ret>>
        BY <1>3, <1>6 DEF ShiftStep, next
    <2>2. tab[After(idx, cap)] # Zeroed /\ tab[After(idx, cap)].psl # 0
        BY <1>4, <1>6 DEF ShiftEnds, next
    <2>3. e.key = nb.key /\ e.val = nb.val
        BY <1>4, <2>2 DEF EntryType, next
    <2>4. /\ Tab(u, cap) /\ Used(u, cap) = Used(tab, cap) /\ u[idx] = e
          /\ \A j \in 0 .. cap - 1 : j # idx => u[j] = tab[j]
        BY <1>1, <1>2, <2>2, Shift
    <2> HIDE DEF u, e
    <2>5. cap' = cap
        BY <2>1, <2>4, CapIs DEF cap
    <2>6. next \in Used(tab, cap)
        BY <1>3, <2>2 DEF Used, next
    <2>7. /\ Used(tab', cap) = Used(tab, cap) /\ tab'[idx] = e
          /\ \A j \in 0 .. cap - 1 : j # idx => tab'[j] = tab[j]
        BY <2>1, <2>4
    <2> QED
        BY <1>2, <1>3, <2>1, <2>3, <2>5, <2>6, <2>7 DEF next
<1> QED
    BY <1>5, <1>6

\* A shift that goes on leaves its key nowhere.
LEMMA ShiftArgInv ==
    ASSUME MapInv, ArgInv, ShiftStep
    PROVE  ArgInv'
<1> DEFINE U == Used(tab, cap)
           next == After(idx, cap)
<1>0. pc = "shift" /\ U \subseteq 0 .. cap - 1
    BY DEF ShiftStep, Used
<1>1. /\ cap' = cap /\ next \in 0 .. cap - 1 /\ next # idx /\ idx \in U
      /\ \A j \in 0 .. cap - 1 : j # idx => tab'[j] = tab[j]
      /\ \/ Finish("true")
         \/ /\ idx' = next /\ next \in U /\ Used(tab', cap) = U /\ UNCHANGED <<pc, arg>>
            /\ tab'[idx].key = tab[next].key
    BY ShiftTurn
<1> HIDE DEF next
<1>2. CASE Finish("true")
    BY <1>2, ReturnedArgInv DEF Finish
<1>3. CASE /\ idx' = next /\ next \in U /\ Used(tab', cap) = U /\ UNCHANGED <<pc, arg>>
           /\ tab'[idx].key = tab[next].key
    <2>1. \A i \in U \ {idx} : tab[i].key # arg.key
        BY <1>0 DEF ArgInv, ShiftArg, Live
    <2>2. Live' = U \ {next}
        BY <1>0, <1>1, <1>3 DEF Live
    <2>3. \A i \in U \ {next} : tab'[i].key # arg.key
        <3> TAKE i \in U \ {next}
        <3>1. CASE i = idx
            BY <1>1, <1>3, <2>1, <3>1
        <3>2. CASE i # idx
            BY <1>0, <1>1, <2>1, <3>2
        <3> QED
            BY <3>1, <3>2
    <2>4. ShiftArg'
        BY <1>3, <2>2, <2>3 DEF ShiftArg
    <2> QED
        BY <1>0, <1>3, <2>4 DEF ArgInv, ProbeArg, SetArg
<1> QED
    BY <1>1, <1>2, <1>3

\* What an insertion step changes: the bucket looked at and the hand.
LEMMA PutTurn ==
    ASSUME MapInv, pc = "insert", PutInFree
    PROVE  /\ cap' = cap /\ Used(tab', cap) = Used(tab, cap) \union {idx} /\ idx \notin Used(tab, cap)
           /\ tab'[idx] = tmp /\ \A j \in 0 .. cap - 1 : j # idx => tab'[j] = tab[j]
           /\ \A j \in Used(tab, cap) : tab[j].key # tmp.key
<1>1. /\ TableInv /\ CallInv /\ HandInv /\ idx \in 0 .. cap - 1 /\ tab[idx] = Zeroed
      /\ tab' = [tab EXCEPT ![idx] = tmp]
    BY Inserting DEF PutInFree
<1>2. /\ Tab(tab, cap) /\ Order(tab, cap) /\ idx \in 0 .. cap - 1
      /\ Good(tmp) /\ At(tmp, cap, idx) /\ May(tab, cap, idx, tmp.psl)
      /\ tab[idx] # Zeroed => tab[idx].psl <= tmp.psl
    BY <1>1, Inserting
<1>3. Puts(tab', tab, idx, tmp)
    BY <1>1 DEF Puts
<1>4. /\ Tab(tab', cap) /\ tab'[idx] = tmp
      /\ \A j \in 0 .. cap - 1 : j # idx => tab'[j] = tab[j]
      /\ Used(tab', cap) = Used(tab, cap) \union {idx}
    BY <1>2, <1>3, Place
<1>5. cap' = cap
    BY <1>4, CapIs DEF cap
<1>6. \A j \in Used(tab, cap) : tab[j].key # tmp.key
    BY <1>1, HandReach
<1>7. idx \notin Used(tab, cap)
    BY <1>1 DEF Used
<1> QED
    BY <1>4, <1>5, <1>6, <1>7

\* Only the caller's key can be overwritten.
LEMMA OverwriteTurn ==
    ASSUME MapInv, pc = "insert", Overwrite
    PROVE  /\ cap' = cap /\ Used(tab', cap) = Used(tab, cap) /\ idx \in Used(tab, cap)
           /\ tab[idx].key = tmp.key /\ tab'[idx].key = tmp.key /\ tab'[idx].val = tmp.val
           /\ \A j \in 0 .. cap - 1 : j # idx => tab'[j] = tab[j]
           /\ old = NoOld /\ tmp.key = arg.key
<1> DEFINE b == tab[idx]
           e == [b EXCEPT !.val = tmp.val]
<1>1. /\ HandInv /\ idx \in 0 .. cap - 1 /\ Tab(tab, cap) /\ Order(tab, cap)
      /\ b # Zeroed /\ tab' = [tab EXCEPT ![idx] = e] /\ b.key = tmp.key
    BY Inserting DEF Overwrite, Matches
<1>2. Good(b) /\ b.psl \in Nat /\ At(b, cap, idx) /\ May(tab, cap, idx, b.psl) /\ idx \in Used(tab, cap)
    BY <1>1, FreeIsZeroed DEF Order, Used
<1>3. b \in EntryType /\ b.hash = Hash(b.key) /\ tmp.val \in Vals
    BY <1>2, Inserting, GoodIsFull DEF Good
<1> HIDE DEF b
<1>4. e = [hash |-> b.hash, psl |-> b.psl, key |-> b.key, val |-> tmp.val]
    BY <1>3 DEF EntryType
<1>5. e.hash = b.hash /\ e.psl = b.psl /\ e.key = b.key /\ e.val = tmp.val
    BY <1>4
<1>6. Good(e)
    BY <1>3, <1>4 DEF Good, EntryType
<1> HIDE DEF e
<1>7. At(e, cap, idx)
    BY <1>2, <1>5 DEF At
<1>8. /\ Tab(tab, cap) /\ Order(tab, cap) /\ idx \in 0 .. cap - 1
      /\ Good(e) /\ At(e, cap, idx) /\ May(tab, cap, idx, e.psl)
      /\ tab[idx] # Zeroed => tab[idx].psl <= e.psl
    BY <1>1, <1>2, <1>5, <1>6, <1>7 DEF b
<1>9. Puts(tab', tab, idx, e)
    BY <1>1 DEF Puts
<1>10. /\ Tab(tab', cap) /\ tab'[idx] = e
       /\ \A j \in 0 .. cap - 1 : j # idx => tab'[j] = tab[j]
       /\ Used(tab', cap) = Used(tab, cap) \union {idx}
    BY <1>8, <1>9, Place
<1>11. cap' = cap
    BY <1>10, CapIs DEF cap
<1>12. old = NoOld /\ tmp.key = arg.key
    BY <1>1, <1>2 DEF HandInv, b
<1> QED
    BY <1>1, <1>2, <1>5, <1>10, <1>11, <1>12 DEF b

\* The hand swaps its entry with the one in the bucket, or passes.
LEMMA PassTurn ==
    ASSUME MapInv, pc = "insert", PassOn
    PROVE  /\ cap' = cap /\ Used(tab', cap) = Used(tab, cap) /\ idx \in Used(tab, cap)
           /\ \A j \in 0 .. cap - 1 : j # idx => tab'[j] = tab[j]
           /\ UNCHANGED <<pc, arg, old, ret>> /\ tab[idx].key # tmp.key
           /\ \/ /\ tab'[idx] = tmp /\ tmp'.key = tab[idx].key /\ tmp'.val = tab[idx].val
                 /\ \A j \in Used(tab, cap) : tab[j].key # tmp.key
              \/ tab' = tab /\ tmp'.key = tmp.key /\ tmp'.val = tmp.val
<1> DEFINE b == tab[idx]
<1>1. /\ TableInv /\ CallInv /\ HandInv /\ idx \in 0 .. cap - 1 /\ Tab(tab, cap) /\ Order(tab, cap)
      /\ Good(tmp) /\ At(tmp, cap, idx) /\ May(tab, cap, idx, tmp.psl) /\ tmp.psl \in Nat
      /\ cap \in Nat /\ cap >= 4
      /\ b # Zeroed /\ ~Matches(b, tmp.key) /\ UNCHANGED <<pc, arg, old, ret>>
    BY Inserting DEF PassOn
<1>2. Good(b) /\ b.psl \in Nat /\ At(b, cap, idx) /\ idx \in Used(tab, cap)
    BY <1>1, FreeIsZeroed DEF Order, Used
<1>3. b.key # tmp.key
    BY <1>1, <1>2 DEF Matches, Good
<1>4. CASE Richer(b, tmp)
    <2>1. tab' = [tab EXCEPT ![idx] = tmp] /\ tmp' = [b EXCEPT !.psl = @ + 1]
        BY <1>4 DEF PassOn, Carry
    <2>2. b.psl < tmp.psl
        BY <1>4 DEF Richer
    <2>3. \A j \in Used(tab, cap) : tab[j].key # tmp.key
        <3> SUFFICES ASSUME NEW j \in Used(tab, cap), tab[j].key = tmp.key PROVE FALSE
            OBVIOUS
        <3>1. b.psl >= tmp.psl
            BY <1>1, HandReach
        <3> QED
            BY <1>1, <1>2, <2>2, <3>1
    <2>4. /\ Tab(tab, cap) /\ Order(tab, cap) /\ idx \in 0 .. cap - 1
          /\ Good(tmp) /\ At(tmp, cap, idx) /\ May(tab, cap, idx, tmp.psl)
          /\ tab[idx] # Zeroed => tab[idx].psl <= tmp.psl
        BY <1>1, <1>2, <2>2
    <2>5. Puts(tab', tab, idx, tmp)
        BY <2>1 DEF Puts
    <2>6. /\ Tab(tab', cap) /\ tab'[idx] = tmp
          /\ \A j \in 0 .. cap - 1 : j # idx => tab'[j] = tab[j]
          /\ Used(tab', cap) = Used(tab, cap) \union {idx}
        BY <2>4, <2>5, Place
    <2>7. cap' = cap
        BY <2>6, CapIs DEF cap
    <2>8. tmp'.key = b.key /\ tmp'.val = b.val
        BY <1>1, <1>2, <2>1, GoesOn
    <2> QED
        BY <1>1, <1>2, <1>3, <2>3, <2>6, <2>7, <2>8
<1>5. CASE ~Richer(b, tmp)
    <2>1. tmp' = [tmp EXCEPT !.psl = @ + 1] /\ tab' = tab
        BY <1>5 DEF PassOn, Carry
    <2>2. tmp'.key = tmp.key /\ tmp'.val = tmp.val
        BY <1>1, <2>1, GoesOn
    <2>3. cap' = cap
        BY <2>1 DEF cap
    <2> QED
        BY <1>1, <1>2, <1>3, <2>1, <2>2, <2>3
<1> QED
    BY <1>4, <1>5

\* A set begins.
LEMMA SetStartArgInv ==
    ASSUME MapInv, NEW k \in Keys, NEW v \in Vals, Set(k, v)
    PROVE  ArgInv'
<1>0. TableInv
    BY DEF MapInv
<1>1. CASE MustGrow(len, cap)
    BY <1>1, ReturnedArgInv DEF Set
<1>2. CASE ~MustGrow(len, cap)
    <2>1. StartInsert(tab, Entry(k, v)) /\ arg' = [key |-> k, val |-> v]
        BY <1>2 DEF Set
    <2>2. Good(Entry(k, v)) /\ Entry(k, v).key = k /\ Entry(k, v).val = v
        BY EntryIsGood
    <2>3. tmp'.key = k /\ tmp'.val = v /\ pc' = "insert"
        BY <1>0, <2>1, <2>2, SetsOut
    <2>4. arg'.key = k /\ arg'.val = v
        BY <2>1
    <2> QED
        BY <2>3, <2>4 DEF ArgInv, ProbeArg, ShiftArg, SetArg
<1> QED
    BY <1>1, <1>2

\* The rehash ends by taking the caller's pair in hand.
LEMMA RehashArgInv ==
    ASSUME MapInv, Rehash
    PROVE  ArgInv'
<1>0. TableInv /\ OldInv /\ pc = "rehash" /\ old # NoOld /\ arg \in [key : Keys, val : Vals]
    BY DEF MapInv, Rehash, CallInv
<1>1. pc' \in {"insert", "rehash"} /\ arg' = arg
    BY <1>0 DEF Rehash, StartInsert
<1>2. CASE old.i < CapOf(old.tab)
    <2>1. old' = [old EXCEPT !.i = NextToMove(@)]
        BY <1>2 DEF Rehash
    <2>2. old' # NoOld
        BY <1>0, <1>2, <2>1, MoveOn
    <2> QED
        BY <1>1, <2>2 DEF ArgInv, ProbeArg, ShiftArg, SetArg
<1>3. CASE ~(old.i < CapOf(old.tab))
    <2>1. StartInsert(tab, Entry(arg.key, arg.val))
        BY <1>3 DEF Rehash
    <2>2. /\ Good(Entry(arg.key, arg.val)) /\ Entry(arg.key, arg.val).key = arg.key
          /\ Entry(arg.key, arg.val).val = arg.val
        BY <1>0, EntryIsGood
    <2>3. tmp'.key = arg.key /\ tmp'.val = arg.val /\ pc' = "insert"
        BY <1>0, <2>1, <2>2, SetsOut
    <2> QED
        BY <1>1, <2>3 DEF ArgInv, ProbeArg, ShiftArg, SetArg
<1> QED
    BY <1>2, <1>3

\* The caller's pair leaves the hand for the table only.
LEMMA InsertArgInv ==
    ASSUME MapInv, ArgInv, InsertStep
    PROVE  ArgInv'
<1>0. pc = "insert"
    BY DEF InsertStep
<1>1. CASE PutInFree \/ Overwrite
    <2>1. pc' \in {"idle", "rehash"}
        BY <1>1 DEF PutInFree, Overwrite, InsertReturns, Finish
    <2> QED
        BY <2>1, ReturnedArgInv
<1>2. CASE PassOn
    <2> DEFINE U == Used(tab, cap)
    <2>1. /\ cap' = cap /\ Used(tab', cap) = U /\ idx \in U
          /\ \A j \in 0 .. cap - 1 : j # idx => tab'[j] = tab[j]
          /\ UNCHANGED <<pc, arg, old, ret>> /\ tab[idx].key # tmp.key
          /\ \/ /\ tab'[idx] = tmp /\ tmp'.key = tab[idx].key /\ tmp'.val = tab[idx].val
                /\ \A j \in U : tab[j].key # tmp.key
             \/ tab' = tab /\ tmp'.key = tmp.key /\ tmp'.val = tmp.val
        BY <1>0, <1>2, PassTurn
    <2>2. U \subseteq 0 .. cap - 1
        BY DEF Used
    <2>3. SetArg'
        <3> SUFFICES ASSUME old = NoOld
                     PROVE  IF tmp'.key = arg.key
                              THEN tmp'.val = arg.val
                              ELSE \E i \in U : tab'[i].key = arg.key /\ tab'[i].val = arg.val
            BY <2>1 DEF SetArg
        <3>1. IF tmp.key = arg.key
                THEN tmp.val = arg.val
                ELSE \E i \in U : tab[i].key = arg.key /\ tab[i].val = arg.val
            BY <1>0 DEF ArgInv, SetArg
        <3>2. CASE tab' = tab /\ tmp'.key = tmp.key /\ tmp'.val = tmp.val
            BY <3>1, <3>2
        <3>3. CASE tab'[idx] = tmp /\ tmp'.key = tab[idx].key /\ tmp'.val = tab[idx].val
            <4>1. CASE tmp.key = arg.key
                BY <2>1, <3>1, <3>3, <4>1
            <4>2. CASE tmp.key # arg.key
                <5>1. PICK i \in U : tab[i].key = arg.key /\ tab[i].val = arg.val
                    BY <3>1, <4>2
                <5>2. CASE i = idx
                    BY <3>3, <5>1, <5>2
                <5>3. CASE i # idx
                    <6>1. tab'[i].key = arg.key /\ tab'[i].val = arg.val
                        BY <2>1, <2>2, <5>1, <5>3
                    <6>2. tmp'.key # arg.key
                        <7>1. Unique(tab, U)
                            BY <1>0 DEF MapInv, Live
                        <7> QED
                            BY <2>1, <3>3, <5>1, <5>3, <7>1 DEF Unique
                    <6> QED
                        BY <6>1, <6>2
                <5> QED
                    BY <5>2, <5>3
            <4> QED
                BY <4>1, <4>2
        <3> QED
            BY <2>1, <3>2, <3>3
    <2> QED
        BY <1>0, <2>1, <2>3 DEF ArgInv, ProbeArg, ShiftArg
<1> QED
    BY <1>1, <1>2 DEF InsertStep

\* Every step keeps what is known of the caller's argument.
LEMMA ArgStepInv ==
    ASSUME MapInv, ArgInv, [TableNext]_mapVars
    PROVE  ArgInv'
<1>1. CASE GetStep
    <2>1. pc = "get"
        BY <1>1 DEF GetStep
    <2>2. CASE Missed(tab[idx]) \/ Matches(tab[idx], arg.key)
        BY <1>1, <2>2, ReturnedArgInv DEF GetStep, Finish
    <2>3. CASE ~Missed(tab[idx]) /\ ~Matches(tab[idx], arg.key)
        BY <1>1, <2>1, <2>3, AdvanceArgInv DEF GetStep
    <2> QED
        BY <2>2, <2>3
<1>2. CASE DelStep \/ ShiftStep \/ Rehash \/ InsertStep
    BY <1>2, DelArgInv, ShiftArgInv, RehashArgInv, InsertArgInv
<1>3. CASE MapCall
    <2>1. ASSUME NEW k \in Keys, MapGet(k) \/ Del(k) PROVE ArgInv'
        BY <2>1, ProbeArgInv DEF MapGet, Del
    <2>2. CASE ClearMap \/ StartIteration \/ MapNext
        <3>1. pc' = "idle"
            BY <2>2 DEF ClearMap, StartIteration, MapNext, callVars
        <3> QED
            BY <3>1, ReturnedArgInv
    <2> QED
        BY <1>3, <2>1, <2>2, SetStartArgInv DEF MapCall
<1>4. CASE UNCHANGED mapVars
    <2>1. UNCHANGED <<tab, pc, idx, psl, tmp, arg, old>>
        BY <1>4 DEF mapVars, callVars
    <2>2. cap' = cap
        BY <2>1 DEF cap
    <2> QED
        BY <2>1, <2>2 DEF ArgInv, ProbeArg, ShiftArg, SetArg, Live
<1> QED
    BY <1>1, <1>2, <1>3, <1>4 DEF TableNext, Step

\* The value each key is stored with, and what the table, the old table and the hand
\* hold of it.
Stored == [k \in Keys |-> StoredAt(k)]
StoredValues ==
    /\ Stored \in [Keys -> Vals \union {Absent}]
    /\ \A k \in Keys, v \in Vals :
         Stored[k] = v <=>
            \/ \E i \in Live : tab[i].key = k /\ tab[i].val = v
            \/ \E j \in Left : old.tab[j].key = k /\ old.tab[j].val = v
            \/ Displaced /\ tmp.key = k /\ tmp.val = v

\* A table looked into for a key it holds once, or not at all.
LEMMA ValueInIs ==
    ASSUME NEW t, NEW S, Unique(t, S), NEW k
    PROVE  /\ \A i \in S : t[i].key = k => ValueIn(t, S, k) = t[i].val
           /\ (\A i \in S : t[i].key # k) => ValueIn(t, S, k) = Absent
BY DEF ValueIn, Unique

\* No call is rehashing: nothing is left to move.
LEMMA NothingOld == Used(NoOld.tab, CapOf(NoOld.tab)) = {}
<1>1. NoOld.tab = Empty(0)
    BY DEF NoOld
<1>2. Cardinality({}) = 0 /\ DOMAIN Empty(0) = {}
    BY FS_EmptySet DEF Empty
<1>3. CapOf(NoOld.tab) = 0
    BY <1>1, <1>2 DEF CapOf
<1> QED
    BY <1>3 DEF Used

\* It is so before and after a step.
LEMMA NoneLeft ==
    (old = NoOld => Left = {}) /\ (old' = NoOld => Left' = {})
BY NothingOld DEF Left

\* The three places are those of the property, and each holds entries.
LEMMA Places ==
    ASSUME MapInv
    PROVE  /\ Held = Live /\ Unmoved = Left
           /\ Unique(tab, Live) /\ Unique(old.tab, Left)
           /\ \A i \in Live : tab[i].key \in Keys /\ tab[i].val \in Vals
           /\ \A j \in Left : old.tab[j].key \in Keys /\ old.tab[j].val \in Vals
           /\ Displaced => tmp.key \in Keys /\ tmp.val \in Vals
           /\ \A i \in Live, j \in Left : tab[i].key # old.tab[j].key
           /\ Displaced => /\ \A i \in Live : tab[i].key # tmp.key
                           /\ \A j \in Left : old.tab[j].key # tmp.key
<1>0. TableInv /\ CallInv /\ HandInv /\ OldInv /\ Unique(tab, Live)
    BY DEF MapInv
<1>1. Tab(tab, cap) /\ Full(tab) = Used(tab, cap)
    BY <1>0, SameTerms DEF TableInv
<1>2. Held = Live /\ Live \subseteq Used(tab, cap)
    BY <1>1 DEF Held, Live
<1>3. \A i \in Live : tab[i].key \in Keys /\ tab[i].val \in Vals
    <2> SUFFICES ASSUME NEW i \in Live PROVE tab[i].key \in Keys /\ tab[i].val \in Vals
        OBVIOUS
    <2>1. Good(tab[i])
        BY <1>1, <1>2, FreeIsZeroed DEF Used
    <2> QED
        BY <2>1, GoodIsFull
<1>4. Displaced => tmp.key \in Keys /\ tmp.val \in Vals
    BY <1>0, GoodIsFull DEF Displaced, HandInv
<1>5. Displaced => \A i \in Live : tab[i].key # tmp.key
    BY <1>0, <1>2 DEF Displaced, HandInv, Moving
<1>6. CASE old = NoOld
    <2>1. Left = {} /\ Unmoved = {}
        BY <1>6, NoneLeft DEF Unmoved, Moving
    <2> QED
        BY <1>0, <1>2, <1>3, <1>4, <1>5, <2>1 DEF Unique
<1>7. CASE old # NoOld
    <2>1. /\ Tab(old.tab, CapOf(old.tab)) /\ Unique(old.tab, Left)
          /\ \A i \in Used(tab, cap), j \in Left : tab[i].key # old.tab[j].key
          /\ pc = "insert" => \A j \in Left : old.tab[j].key # tmp.key
        BY <1>0, <1>7 DEF OldInv
    <2>2. Unmoved = Left
        BY <1>7, <2>1, SameTerms DEF Unmoved, Left, Moving
    <2>3. \A j \in Left : old.tab[j].key \in Keys /\ old.tab[j].val \in Vals
        <3> SUFFICES ASSUME NEW j \in Left PROVE old.tab[j].key \in Keys /\ old.tab[j].val \in Vals
            OBVIOUS
        <3>1. j \in 0 .. CapOf(old.tab) - 1 /\ old.tab[j] # Zeroed
            BY DEF Left, Used
        <3>2. Good(old.tab[j])
            BY <2>1, <3>1, FreeIsZeroed
        <3> QED
            BY <3>2, GoodIsFull
    <2> QED
        BY <1>0, <1>2, <1>3, <1>4, <1>5, <2>1, <2>2, <2>3 DEF Displaced
<1> QED
    BY <1>6, <1>7

\* What is stored for a key, place by place.
LEMMA StoredIs ==
    ASSUME MapInv, NEW k \in Keys
    PROVE  /\ \A i \in Live : tab[i].key = k => StoredAt(k) = tab[i].val
           /\ \A j \in Left : old.tab[j].key = k => StoredAt(k) = old.tab[j].val
           /\ Displaced /\ tmp.key = k => StoredAt(k) = tmp.val
           /\ StoredAt(k) # Absent =>
                \/ \E i \in Live : tab[i].key = k
                \/ \E j \in Left : old.tab[j].key = k
                \/ Displaced /\ tmp.key = k
<1>1. /\ Held = Live /\ Unmoved = Left
      /\ Unique(tab, Live) /\ Unique(old.tab, Left)
      /\ \A i \in Live : tab[i].key \in Keys /\ tab[i].val \in Vals
      /\ \A i \in Live, j \in Left : tab[i].key # old.tab[j].key
      /\ Displaced => /\ \A i \in Live : tab[i].key # tmp.key
                      /\ \A j \in Left : old.tab[j].key # tmp.key
    BY Places
<1> DEFINE x == ValueIn(tab, Live, k)
           y == ValueIn(old.tab, Left, k)
<1>2. StoredAt(k) = IF Displaced /\ tmp.key = k THEN tmp.val ELSE IF x # Absent THEN x ELSE y
    BY <1>1 DEF StoredAt
<1>3. /\ \A i \in Live : tab[i].key = k => x = tab[i].val
      /\ (\A i \in Live : tab[i].key # k) => x = Absent
    BY <1>1, ValueInIs
<1>4. /\ \A j \in Left : old.tab[j].key = k => y = old.tab[j].val
      /\ (\A j \in Left : old.tab[j].key # k) => y = Absent
    BY <1>1, ValueInIs
<1> HIDE DEF x, y
<1>5. Absent \notin Vals
    BY MapAssumption
<1>6. \A i \in Live : tab[i].key = k => StoredAt(k) = tab[i].val
    BY <1>1, <1>2, <1>3, <1>5
<1>7. \A j \in Left : old.tab[j].key = k => StoredAt(k) = old.tab[j].val
    BY <1>1, <1>2, <1>3, <1>4
<1>8. Displaced /\ tmp.key = k => StoredAt(k) = tmp.val
    BY <1>2
<1>9. StoredAt(k) # Absent =>
                \/ \E i \in Live : tab[i].key = k
                \/ \E j \in Left : old.tab[j].key = k
                \/ Displaced /\ tmp.key = k
    BY <1>2, <1>3, <1>4
<1> QED
    BY <1>6, <1>7, <1>8, <1>9

\* What is stored is what the three places hold.
LEMMA StoredHere == MapInv => StoredValues
<1> SUFFICES ASSUME MapInv PROVE StoredValues
    OBVIOUS
<1>1. /\ \A i \in Live : tab[i].key \in Keys /\ tab[i].val \in Vals
      /\ \A j \in Left : old.tab[j].key \in Keys /\ old.tab[j].val \in Vals
      /\ Displaced => tmp.key \in Keys /\ tmp.val \in Vals
    BY Places
<1>2. ASSUME NEW k \in Keys
      PROVE  /\ StoredAt(k) \in Vals \union {Absent}
             /\ \A v \in Vals :
                  StoredAt(k) = v <=>
                    \/ \E i \in Live : tab[i].key = k /\ tab[i].val = v
                    \/ \E j \in Left : old.tab[j].key = k /\ old.tab[j].val = v
                    \/ Displaced /\ tmp.key = k /\ tmp.val = v
    <2>1. /\ \A i \in Live : tab[i].key = k => StoredAt(k) = tab[i].val
          /\ \A j \in Left : old.tab[j].key = k => StoredAt(k) = old.tab[j].val
          /\ Displaced /\ tmp.key = k => StoredAt(k) = tmp.val
          /\ StoredAt(k) # Absent =>
                \/ \E i \in Live : tab[i].key = k
                \/ \E j \in Left : old.tab[j].key = k
                \/ Displaced /\ tmp.key = k
        BY StoredIs
    <2> DEFINE s == StoredAt(k)
    <2> HIDE DEF s
    <2>2. s \in Vals \union {Absent}
        BY <1>1, <2>1 DEF s
    <2>3. Absent \notin Vals
        BY MapAssumption
    <2>4. \A v \in Vals :
            s = v <=> \/ \E i \in Live : tab[i].key = k /\ tab[i].val = v
                      \/ \E j \in Left : old.tab[j].key = k /\ old.tab[j].val = v
                      \/ Displaced /\ tmp.key = k /\ tmp.val = v
        BY <2>1, <2>3 DEF s
    <2> QED
        BY <2>2, <2>4 DEF s
<1>3. \A k \in Keys : Stored[k] = StoredAt(k)
    BY DEF Stored
<1>4. Stored \in [Keys -> Vals \union {Absent}]
    BY <1>2 DEF Stored
<1> QED
    BY <1>2, <1>3, <1>4 DEF StoredValues

\* It is so after a step as well.
LEMMA StoredThen == MapInv' => StoredValues'
BY StoredHere, PTL

\* What is stored for a key follows from the values it is not stored with.
LEMMA SameValue ==
    ASSUME NEW x \in Vals \union {Absent}, NEW y \in Vals \union {Absent}, \A v \in Vals : x = v <=> y = v
    PROVE  x = y
OBVIOUS

\* The finite map and the answer due, from the call that runs and what is stored.
Show(p, a, s) ==
    [k \in Keys |-> IF k = a.key /\ p \in {"insert", "rehash"} THEN a.val
                    ELSE IF k = a.key /\ p \in {"del", "shift"} THEN Absent
                    ELSE s[k]]
Owed(p, a, s) ==
    IF p = "get" THEN s[a.key]
    ELSE IF p = "shift" THEN "true"
    ELSE IF p = "del" THEN IF s[a.key] = Absent THEN "false" ELSE "true"
    ELSE IF p \in {"insert", "rehash"} THEN "void"
    ELSE "nothing"

Shown == MapContents = Show(pc, arg, Stored) /\ Due = Owed(pc, arg, Stored)

\* The refinement mapping, from the call that runs and what is stored.
LEMMA ShownHere == MapInv => Shown
<1> SUFFICES ASSUME MapInv PROVE Shown
    OBVIOUS
<1>1. \A k \in Keys : Stored[k] = StoredAt(k)
    BY DEF Stored
<1>2. pc \in {"get", "del"} => arg.key \in Keys
    BY DEF MapInv, CallInv
<1>3. MapContents = Show(pc, arg, Stored)
    BY <1>1 DEF MapContents, Show, Setting, Deleting
<1>4. Due = Owed(pc, arg, Stored)
    BY <1>1, <1>2 DEF Due, Owed, Setting
<1> QED
    BY <1>3, <1>4 DEF Shown

\* It is so after a step as well.
LEMMA ShownThen == MapInv' => Shown'
BY ShownHere, PTL

\* Before and after a step, the terms of the finite map mean what is stored.
LEMMA StoredTypes ==
    ASSUME MapInv, MapInv'
    PROVE  /\ StoredValues /\ StoredValues' /\ Shown /\ Shown'
           /\ Stored \in [Keys -> Vals \union {Absent}] /\ Stored' \in [Keys -> Vals \union {Absent}]
<1>1. StoredValues /\ StoredValues' /\ Shown /\ Shown'
    BY StoredHere, StoredThen, ShownHere, ShownThen
<1> QED
    BY <1>1 DEF StoredValues

\* A key the places agree on keeps its value.
LEMMA KeyStays ==
    ASSUME MapInv, MapInv', NEW k \in Keys,
           \A v \in Vals : Stored'[k] = v <=> Stored[k] = v
    PROVE  Stored'[k] = Stored[k]
<1>1. Stored[k] \in Vals \union {Absent} /\ Stored'[k] \in Vals \union {Absent}
    BY StoredTypes
<1> QED
    BY <1>1, SameValue

\* A key that is nowhere is stored with no value.
LEMMA NotStored ==
    ASSUME MapInv, NEW k \in Keys, \A i \in Live : tab[i].key # k, \A j \in Left : old.tab[j].key # k,
           ~(Displaced /\ tmp.key = k)
    PROVE  Stored[k] = Absent
<1>1. StoredValues
    BY StoredHere
<1> QED
    BY <1>1 DEF StoredValues

\* The three places stay as they are.
LEMMA SamePlaces ==
    ASSUME MapInv, MapInv', UNCHANGED <<tab, old>>, Live' = Live,
           Displaced' <=> Displaced, Displaced => tmp' = tmp
    PROVE  Stored' = Stored
<1>1. /\ StoredValues /\ StoredValues'
      /\ Stored \in [Keys -> Vals \union {Absent}] /\ Stored' \in [Keys -> Vals \union {Absent}]
    BY StoredTypes
<1>2. Left' = Left
    BY DEF Left
<1>3. ASSUME NEW k \in Keys PROVE Stored'[k] = Stored[k]
    <2>1. \A v \in Vals : Stored'[k] = v <=> Stored[k] = v
        BY <1>1, <1>2 DEF StoredValues
    <2> QED
        BY <2>1, KeyStays
<1> HIDE DEF Stored
<1> QED
    BY <1>1, <1>3

DictStep == [Abstract!DictNext]_(Abstract!dvars)

\* A step that changes nothing the caller sees.
LEMMA StuttersRefine ==
    ASSUME MapInv, MapInv', Show(pc', arg', Stored') = Show(pc, arg, Stored),
           Owed(pc', arg', Stored') = Owed(pc, arg, Stored), ret' = ret
    PROVE  DictStep
<1>1. Shown /\ Shown'
    BY StoredTypes
<1>2. MapContents' = MapContents /\ Due' = Due
    BY <1>1 DEF Shown
<1> QED
    BY <1>2 DEF DictStep, Abstract!dvars

\* A step that returns what is due.
LEMMA ReturnRefines ==
    ASSUME MapInv, MapInv', pc' = "idle", Show("idle", arg', Stored') = Show(pc, arg, Stored),
           Owed(pc, arg, Stored) # "nothing", ret' = Owed(pc, arg, Stored)
    PROVE  DictStep
<1>1. Shown /\ Shown'
    BY StoredTypes
<1>2. MapContents' = MapContents /\ Due' = "nothing" /\ Due # "nothing" /\ ret' = Due
    BY <1>1 DEF Shown, Owed
<1> QED
    BY <1>2 DEF DictStep, Abstract!DictNext, Abstract!Return, Abstract!Idle

\* Between calls, and while a get, a del or a shift runs, there is no hand.
LEMMA NoHand ==
    ASSUME MapInv, pc \in {"idle", "get", "del", "shift"}
    PROVE  old = NoOld /\ Left = {} /\ ~Displaced /\ (pc # "shift" => Live = Used(tab, cap))
<1>1. old = NoOld
    BY DEF MapInv, CallInv
<1> QED
    BY <1>1, NoneLeft DEF Displaced, Live

\* A probe that goes on.
LEMMA AdvanceRefines ==
    ASSUME MapInv, MapInv', pc \in {"get", "del"}, Advance
    PROVE  DictStep
<1>1. UNCHANGED <<tab, old, pc, arg, ret>>
    BY DEF Advance
<1>2. cap' = cap
    BY <1>1 DEF cap
<1>3. Live' = Live /\ ~Displaced /\ ~Displaced'
    BY <1>1, <1>2 DEF Live, Displaced
<1>4. Stored' = Stored
    BY <1>1, <1>3, SamePlaces
<1> QED
    BY <1>1, <1>4, StuttersRefine

\* A get or a del that answers without a change.
LEMMA AnswerStores ==
    ASSUME MapInv, MapInv', pc \in {"get", "del"}, NEW answer, Finish(answer), UNCHANGED tab
    PROVE  Stored' = Stored
<1>1. old = NoOld /\ old' = NoOld /\ ~Displaced /\ Live = Used(tab, cap)
    BY NoHand DEF Finish
<1>2. pc' = "idle" /\ cap' = cap
    BY DEF Finish, cap
<1>3. ~Displaced' /\ Live' = Live
    BY <1>1, <1>2 DEF Displaced, Live
<1> QED
    BY <1>1, <1>3, SamePlaces

\* A probe that has passed every bucket its key could be in.
LEMMA MissedIsAbsent ==
    ASSUME MapInv, ArgInv, pc \in {"get", "del"}, Missed(tab[idx])
    PROVE  Stored[arg.key] = Absent /\ arg.key \in Keys
<1>1. TableInv /\ CallInv /\ arg.key \in Keys
    BY DEF MapInv, CallInv
<1>2. Left = {} /\ ~Displaced /\ Live = Used(tab, cap)
    BY NoHand
<1>3. \A j \in Used(tab, cap) : tab[j].key # arg.key
    BY <1>1, ProbeReach
<1> QED
    BY <1>1, <1>2, <1>3, NotStored

\* A probe that has found its key.
LEMMA HitIsStored ==
    ASSUME MapInv, pc \in {"get", "del"}, ~Missed(tab[idx]), Matches(tab[idx], arg.key)
    PROVE  Stored[arg.key] = tab[idx].val /\ tab[idx].val \in Vals /\ arg.key \in Keys
<1>1. TableInv /\ arg.key \in Keys
    BY DEF MapInv, CallInv
<1>2. idx \in Used(tab, cap) /\ tab[idx].key = arg.key
    BY ProbeHits
<1>3. tab[idx].val \in Vals
    <2>1. Good(tab[idx])
        BY <1>1, <1>2, FreeIsZeroed DEF TableInv, Used
    <2> QED
        BY <2>1, GoodIsFull
<1>4. Live = Used(tab, cap) /\ StoredValues
    BY NoHand, StoredHere
<1> QED
    BY <1>1, <1>2, <1>3, <1>4 DEF StoredValues

\* A get answers the value stored for its key, or none.
LEMMA GetStepRefines ==
    ASSUME MapInv, MapInv', ArgInv, GetStep
    PROVE  DictStep
<1>1. pc = "get"
    BY DEF GetStep
<1>2. CASE ~Missed(tab[idx]) /\ ~Matches(tab[idx], arg.key)
    BY <1>1, <1>2, AdvanceRefines DEF GetStep
<1>3. ASSUME NEW answer, Finish(answer), UNCHANGED tab, Stored[arg.key] = answer,
             answer \in Vals \union {Absent}
      PROVE  DictStep
    <2>1. Stored' = Stored
        BY <1>1, <1>3, AnswerStores
    <2>2. pc' = "idle" /\ ret' = answer
        BY <1>3 DEF Finish
    <2>3. Owed(pc, arg, Stored) = answer
        BY <1>1, <1>3 DEF Owed
    <2>4. answer # "nothing"
        BY <1>3, MapAssumption
    <2>5. Show("idle", arg', Stored') = Show(pc, arg, Stored)
        BY <1>1, <2>1 DEF Show
    <2> QED
        BY <2>2, <2>3, <2>4, <2>5, ReturnRefines
<1>4. CASE Missed(tab[idx])
    <2>1. Finish(Absent) /\ UNCHANGED tab
        BY <1>4 DEF GetStep
    <2> QED
        BY <1>1, <1>3, <1>4, <2>1, MissedIsAbsent
<1>5. CASE ~Missed(tab[idx]) /\ Matches(tab[idx], arg.key)
    <2>1. Finish(tab[idx].val) /\ UNCHANGED tab
        BY <1>5 DEF GetStep
    <2> QED
        BY <1>1, <1>3, <1>5, <2>1, HitIsStored
<1> QED
    BY <1>2, <1>4, <1>5

\* A del removes its key when it finds it.
LEMMA DelStepRefines ==
    ASSUME MapInv, MapInv', ArgInv, DelStep
    PROVE  DictStep
<1>1. pc = "del"
    BY DEF DelStep
<1>2. CASE ~Missed(tab[idx]) /\ ~Matches(tab[idx], arg.key)
    BY <1>1, <1>2, AdvanceRefines DEF DelStep
<1>3. CASE Missed(tab[idx])
    <2>1. Finish("false") /\ UNCHANGED tab
        BY <1>3 DEF DelStep
    <2>2. Stored' = Stored /\ pc' = "idle" /\ ret' = "false"
        BY <1>1, <2>1, AnswerStores DEF Finish
    <2>3. Stored[arg.key] = Absent
        BY <1>1, <1>3, MissedIsAbsent
    <2>4. Owed(pc, arg, Stored) = "false"
        BY <1>1, <2>3 DEF Owed
    <2>5. Show("idle", arg', Stored') = Show(pc, arg, Stored)
        BY <1>1, <2>2, <2>3 DEF Show
    <2> QED
        BY <2>2, <2>4, <2>5, ReturnRefines
<1>4. CASE ~Missed(tab[idx]) /\ Matches(tab[idx], arg.key)
    <2>1. pc' = "shift" /\ UNCHANGED <<tab, idx, arg, old, ret>>
        BY <1>4 DEF DelStep
    <2>2. cap' = cap /\ Left' = Left
        BY <2>1 DEF cap, Left
    <2>3. Left = {} /\ ~Displaced /\ Live = Used(tab, cap)
        BY <1>1, NoHand
    <2>4. Live' = Used(tab, cap) \ {idx} /\ ~Displaced'
        BY <2>1, <2>2 DEF Live, Displaced
    <2>5. \A j \in Used(tab, cap) : tab[j].key = arg.key => j = idx
        BY <1>1, <1>4, ProbeHits
    <2>6. Stored[arg.key] \in Vals /\ idx \in Used(tab, cap) /\ tab[idx].key = arg.key
        BY <1>1, <1>4, HitIsStored, ProbeHits
    <2>7. ASSUME NEW k \in Keys, k # arg.key PROVE Stored'[k] = Stored[k]
        <3>1. StoredValues /\ StoredValues'
            BY StoredTypes
        <3>2. \A v \in Vals : Stored'[k] = v <=> Stored[k] = v
            BY <2>1, <2>2, <2>3, <2>4, <2>6, <2>7, <3>1 DEF StoredValues
        <3> QED
            BY <3>2, KeyStays
    <2>8. Show(pc', arg', Stored') = Show(pc, arg, Stored)
        BY <1>1, <2>1, <2>7 DEF Show
    <2>9. Owed(pc', arg', Stored') = Owed(pc, arg, Stored)
        <3>1. Stored[arg.key] # Absent
            BY <2>6, MapAssumption
        <3> QED
            BY <1>1, <2>1, <3>1 DEF Owed
    <2> QED
        BY <2>1, <2>8, <2>9, StuttersRefine
<1> QED
    BY <1>2, <1>3, <1>4

\* The backward shift is invisible; a del then answers that the key was there.
LEMMA ShiftStepRefines ==
    ASSUME MapInv, MapInv', ArgInv, ShiftStep
    PROVE  DictStep
<1> DEFINE U == Used(tab, cap)
           next == After(idx, cap)
<1>0. pc = "shift" /\ U \subseteq 0 .. cap - 1
    BY DEF ShiftStep, Used
<1>1. /\ cap' = cap /\ next \in 0 .. cap - 1 /\ next # idx /\ idx \in U
      /\ \A j \in 0 .. cap - 1 : j # idx => tab'[j] = tab[j]
      /\ \/ /\ Finish("true") /\ Used(tab', cap) = U \ {idx}
         \/ /\ idx' = next /\ next \in U /\ Used(tab', cap) = U /\ UNCHANGED <<pc, arg, old, ret>>
            /\ tab'[idx].key = tab[next].key /\ tab'[idx].val = tab[next].val
    BY ShiftTurn
<1> HIDE DEF next
<1>2. old = NoOld /\ Left = {} /\ ~Displaced /\ Live = U \ {idx}
    BY <1>0, NoHand DEF Live
<1>3. StoredValues /\ StoredValues' /\ arg.key \in Keys
    BY <1>0, StoredTypes DEF MapInv, CallInv
<1>4. CASE Finish("true") /\ Used(tab', cap) = U \ {idx}
    <2>1. pc' = "idle" /\ ret' = "true"
        BY <1>4 DEF Finish
    <2>2. Left' = {} /\ ~Displaced' /\ Live' = U \ {idx}
        <3>1. old' = NoOld
            BY <1>4 DEF Finish
        <3>2. Left' = Left
            BY <1>2, <3>1 DEF Left
        <3> QED
            BY <1>1, <1>2, <1>4, <2>1, <3>2 DEF Displaced, Live
    <2>3. ASSUME NEW k \in Keys PROVE Stored'[k] = Stored[k]
        <3>1. \A i \in U \ {idx} : tab'[i] = tab[i]
            BY <1>0, <1>1
        <3>2. \A v \in Vals : Stored'[k] = v <=> Stored[k] = v
            BY <1>2, <1>3, <2>2, <3>1 DEF StoredValues
        <3> QED
            BY <3>2, KeyStays
    <2>4. Stored[arg.key] = Absent
        BY <1>0, <1>2, <1>3, NotStored DEF ArgInv, ShiftArg
    <2>5. Owed(pc, arg, Stored) = "true"
        BY <1>0 DEF Owed
    <2>6. Show("idle", arg', Stored') = Show(pc, arg, Stored)
        BY <1>0, <2>3, <2>4 DEF Show
    <2> QED
        BY <2>1, <2>5, <2>6, ReturnRefines
<1>5. CASE /\ idx' = next /\ next \in U /\ Used(tab', cap) = U /\ UNCHANGED <<pc, arg, old, ret>>
           /\ tab'[idx].key = tab[next].key /\ tab'[idx].val = tab[next].val
    <2>1. Live' = U \ {next} /\ Left' = {} /\ ~Displaced'
        <3>1. Left' = Left
            BY <1>5 DEF Left
        <3> QED
            BY <1>0, <1>1, <1>2, <1>5, <3>1 DEF Live, Displaced
    <2>2. ASSUME NEW k \in Keys PROVE Stored'[k] = Stored[k]
        <3>1. ASSUME NEW v \in Vals
              PROVE  (\E i \in U \ {next} : tab'[i].key = k /\ tab'[i].val = v)
                       <=> (\E i \in U \ {idx} : tab[i].key = k /\ tab[i].val = v)
            <4>1. ASSUME NEW i \in U \ {next}, tab'[i].key = k /\ tab'[i].val = v
                  PROVE  \E h \in U \ {idx} : tab[h].key = k /\ tab[h].val = v
                <5>1. CASE i = idx
                    BY <1>1, <1>5, <4>1, <5>1
                <5>2. CASE i # idx
                    BY <1>0, <1>1, <4>1, <5>2
                <5> QED
                    BY <5>1, <5>2
            <4>2. ASSUME NEW i \in U \ {idx}, tab[i].key = k /\ tab[i].val = v
                  PROVE  \E h \in U \ {next} : tab'[h].key = k /\ tab'[h].val = v
                <5>1. CASE i = next
                    BY <1>1, <1>5, <4>2, <5>1
                <5>2. CASE i # next
                    BY <1>0, <1>1, <4>2, <5>2
                <5> QED
                    BY <5>1, <5>2
            <4> QED
                BY <4>1, <4>2
        <3>2. \A v \in Vals : Stored'[k] = v <=> Stored[k] = v
            BY <1>2, <1>3, <2>1, <3>1 DEF StoredValues
        <3> QED
            BY <3>2, KeyStays
    <2>3. Show(pc', arg', Stored') = Show(pc, arg, Stored)
        BY <1>5, <2>2 DEF Show
    <2>4. Owed(pc', arg', Stored') = Owed(pc, arg, Stored)
        BY <1>0, <1>5 DEF Owed
    <2> QED
        BY <1>5, <2>3, <2>4, StuttersRefine
<1> QED
    BY <1>1, <1>4, <1>5

\* While a set runs its own key counts as set, whatever is stored.
LEMMA SettingRefines ==
    ASSUME MapInv, MapInv', pc \in {"insert", "rehash"}, pc' \in {"insert", "rehash"},
           UNCHANGED <<arg, ret>>,
           \A k \in Keys : k # arg.key => \A v \in Vals : Stored'[k] = v <=> Stored[k] = v
    PROVE  DictStep
<1>1. \A k \in Keys : k # arg.key => Stored'[k] = Stored[k]
    BY KeyStays
<1>2. Show(pc', arg', Stored') = Show(pc, arg, Stored)
    BY <1>1 DEF Show
<1>3. Owed(pc', arg', Stored') = Owed(pc, arg, Stored)
    BY DEF Owed
<1> QED
    BY <1>2, <1>3, StuttersRefine

\* The rehash is invisible.
LEMMA RehashRefines ==
    ASSUME MapInv, MapInv', Rehash
    PROVE  DictStep
<1>0. TableInv /\ OldInv /\ pc = "rehash" /\ old # NoOld /\ arg \in [key : Keys, val : Vals]
    BY DEF MapInv, Rehash, CallInv
<1>1. pc' \in {"insert", "rehash"} /\ UNCHANGED <<tab, arg, ret>>
    BY <1>0 DEF Rehash, StartInsert
<1>2. cap' = cap /\ Live = Used(tab, cap) /\ Live' = Used(tab, cap) /\ ~Displaced
    BY <1>0, <1>1 DEF cap, Live, Displaced
<1>3. StoredValues /\ StoredValues'
    BY StoredTypes
<1> DEFINE m == CapOf(old.tab)
<1>4. CASE old.i < m
    <2>1. old' = [old EXCEPT !.i = NextToMove(@)]
        BY <1>4 DEF Rehash
    <2>2. /\ old'.tab = old.tab /\ old' # NoOld /\ Left' = Left \ {old.i}
          /\ old.tab[old.i] # Zeroed <=> old.i \in Left
          /\ old.i \in 0 .. m - 1
        BY <1>0, <1>4, <2>1, MoveOn
    <2>3. IsFree(old.tab[old.i]) <=> old.tab[old.i] = Zeroed
        BY <1>0, <2>2, FreeIsZeroed DEF OldInv
    <2>4. CASE old.tab[old.i] = Zeroed
        <3>1. pc' = "rehash"
            BY <1>0, <1>4, <2>3, <2>4 DEF Rehash
        <3>2. ~Displaced' /\ Left' = Left
            BY <2>2, <2>4, <3>1 DEF Displaced
        <3>3. ASSUME NEW k \in Keys, NEW v \in Vals PROVE Stored'[k] = v <=> Stored[k] = v
            BY <1>1, <1>2, <1>3, <2>2, <3>2 DEF StoredValues
        <3> QED
            BY <1>0, <1>1, <3>3, SettingRefines
    <2>5. CASE old.tab[old.i] # Zeroed
        <3> DEFINE b == old.tab[old.i]
        <3>1. Good(b) /\ StartInsert(tab, b) /\ old.i \in Left
            BY <1>0, <1>4, <2>2, <2>3, <2>5, FreeIsZeroed DEF Rehash, OldInv
        <3>2. tmp'.key = b.key /\ tmp'.val = b.val /\ pc' = "insert"
            BY <1>0, <3>1, SetsOut
        <3>3. Displaced'
            BY <2>2, <3>2 DEF Displaced, Moving
        <3>4. ASSUME NEW k \in Keys, NEW v \in Vals PROVE Stored'[k] = v <=> Stored[k] = v
            <4>1. (\E j \in Left : old.tab[j].key = k /\ old.tab[j].val = v)
                    <=> \/ \E j \in Left' : old.tab[j].key = k /\ old.tab[j].val = v
                        \/ b.key = k /\ b.val = v
                BY <2>2, <3>1
            <4> QED
                BY <1>1, <1>2, <1>3, <2>2, <3>2, <3>3, <4>1 DEF StoredValues
        <3> QED
            BY <1>0, <1>1, <3>4, SettingRefines
    <2> QED
        BY <2>4, <2>5
<1>5. CASE ~(old.i < m)
    <2>1. old' = NoOld /\ StartInsert(tab, Entry(arg.key, arg.val))
        BY <1>5 DEF Rehash
    <2>2. Good(Entry(arg.key, arg.val)) /\ Entry(arg.key, arg.val).key = arg.key
        BY <1>0, EntryIsGood
    <2>3. tmp'.key = arg.key
        BY <1>0, <2>1, <2>2, SetsOut
    <2>4. ~Displaced' /\ Left' = {}
        BY <1>1, <2>1, <2>3, NoneLeft DEF Displaced, Moving
    <2>5. Left = {}
        <3>1. m \in Nat /\ old.i \in Nat
            BY <1>0 DEF OldInv, Tab
        <3> QED
            BY <1>5, <3>1 DEF Left, Used
    <2>6. ASSUME NEW k \in Keys, NEW v \in Vals PROVE Stored'[k] = v <=> Stored[k] = v
        BY <1>1, <1>2, <1>3, <2>4, <2>5 DEF StoredValues
    <2> QED
        BY <1>0, <1>1, <2>6, SettingRefines
<1> QED
    BY <1>4, <1>5

\* _map_insert returns to the caller: the pair that was passed is stored.
LEMMA InsertDone ==
    ASSUME MapInv, MapInv', pc = "insert", InsertReturns, old = NoOld,
           Stored'[arg.key] = arg.val,
           \A k \in Keys : k # arg.key => \A v \in Vals : Stored'[k] = v <=> Stored[k] = v
    PROVE  DictStep
<1>1. Finish("void")
    BY DEF InsertReturns, Moving
<1>2. pc' = "idle" /\ ret' = "void"
    BY <1>1 DEF Finish
<1>3. \A k \in Keys : k # arg.key => Stored'[k] = Stored[k]
    BY KeyStays
<1>4. Show("idle", arg', Stored') = Show(pc, arg, Stored)
    BY <1>3 DEF Show
<1>5. Owed(pc, arg, Stored) = "void"
    BY DEF Owed
<1> QED
    BY <1>2, <1>4, <1>5, ReturnRefines

\* A set returns when the last hand is emptied.
LEMMA PutRefines ==
    ASSUME MapInv, MapInv', ArgInv, pc = "insert", PutInFree
    PROVE  DictStep
<1> DEFINE U == Used(tab, cap)
<1>1. /\ cap' = cap /\ Used(tab', cap) = U \union {idx} /\ idx \notin U
      /\ tab'[idx] = tmp /\ \A j \in 0 .. cap - 1 : j # idx => tab'[j] = tab[j]
    BY PutTurn
<1>2. StoredValues /\ StoredValues' /\ Live = U /\ U \subseteq 0 .. cap - 1 /\ InsertReturns
    BY StoredTypes DEF Live, Used, PutInFree
<1>3. pc' \in {"idle", "rehash"}
    BY DEF PutInFree, InsertReturns, Finish
<1>4. Live' = U \union {idx} /\ ~Displaced'
    BY <1>1, <1>3 DEF Live, Displaced
<1>5. ASSUME NEW k \in Keys, NEW v \in Vals
      PROVE  (\E i \in U \union {idx} : tab'[i].key = k /\ tab'[i].val = v)
               <=> \/ \E i \in U : tab[i].key = k /\ tab[i].val = v
                   \/ tmp.key = k /\ tmp.val = v
    <2>1. \A i \in U : tab'[i] = tab[i]
        BY <1>1, <1>2
    <2> QED
        BY <1>1, <2>1
<1>6. CASE old # NoOld
    <2>1. pc' = "rehash" /\ UNCHANGED <<old, arg, ret>>
        BY <1>2, <1>6 DEF InsertReturns, Moving
    <2>2. Displaced /\ Left' = Left
        BY <1>6, <2>1 DEF Displaced, Moving, Left
    <2>3. ASSUME NEW k \in Keys, NEW v \in Vals PROVE Stored'[k] = v <=> Stored[k] = v
        BY <1>2, <1>4, <1>5, <2>1, <2>2 DEF StoredValues
    <2> QED
        BY <2>1, <2>3, SettingRefines
<1>7. CASE old = NoOld
    <2>1. old' = NoOld /\ arg.key \in Keys /\ arg.val \in Vals
        BY <1>2, <1>7 DEF InsertReturns, Moving, Finish, MapInv, CallInv
    <2>2. Left = {} /\ Left' = {} /\ (Displaced <=> tmp.key # arg.key)
        BY <1>7, <2>1, NoneLeft DEF Displaced, Moving
    <2>3. ASSUME NEW k \in Keys, k # arg.key, NEW v \in Vals PROVE Stored'[k] = v <=> Stored[k] = v
        BY <1>2, <1>4, <1>5, <2>2, <2>3 DEF StoredValues
    <2>4. Stored'[arg.key] = arg.val
        <3>1. IF tmp.key = arg.key
                THEN tmp.val = arg.val
                ELSE \E i \in U : tab[i].key = arg.key /\ tab[i].val = arg.val
            BY <1>7 DEF ArgInv, SetArg
        <3>2. \E i \in U \union {idx} : tab'[i].key = arg.key /\ tab'[i].val = arg.val
            BY <1>5, <2>1, <3>1
        <3> QED
            BY <1>2, <1>4, <2>1, <3>2 DEF StoredValues
    <2> QED
        BY <1>2, <1>7, <2>3, <2>4, InsertDone
<1> QED
    BY <1>6, <1>7

\* A set of a key that was there returns.
LEMMA OverwriteRefines ==
    ASSUME MapInv, MapInv', ArgInv, pc = "insert", Overwrite
    PROVE  DictStep
<1> DEFINE U == Used(tab, cap)
<1>1. /\ cap' = cap /\ Used(tab', cap) = U /\ idx \in U
      /\ tab[idx].key = tmp.key /\ tab'[idx].key = tmp.key /\ tab'[idx].val = tmp.val
      /\ \A j \in 0 .. cap - 1 : j # idx => tab'[j] = tab[j]
      /\ old = NoOld /\ tmp.key = arg.key
    BY OverwriteTurn
<1>2. StoredValues /\ StoredValues' /\ Live = U /\ U \subseteq 0 .. cap - 1 /\ InsertReturns
    BY StoredTypes DEF Live, Used, Overwrite
<1>3. pc' = "idle" /\ old' = NoOld /\ arg.key \in Keys /\ arg.val \in Vals
    BY <1>1, <1>2 DEF InsertReturns, Moving, Finish, MapInv, CallInv
<1>4. Live' = U /\ ~Displaced' /\ ~Displaced /\ Left = {} /\ Left' = {}
    BY <1>1, <1>3, NoneLeft DEF Live, Displaced, Moving
<1>5. \A i \in U : i # idx => tab'[i] = tab[i]
    BY <1>1, <1>2
<1>6. ASSUME NEW k \in Keys, k # arg.key, NEW v \in Vals PROVE Stored'[k] = v <=> Stored[k] = v
    <2>1. (\E i \in U : tab'[i].key = k /\ tab'[i].val = v)
            <=> (\E i \in U : tab[i].key = k /\ tab[i].val = v)
        BY <1>1, <1>5, <1>6
    <2> QED
        BY <1>2, <1>4, <2>1 DEF StoredValues
<1>7. Stored'[arg.key] = arg.val
    <2>1. tmp.val = arg.val
        BY <1>1 DEF ArgInv, SetArg
    <2> QED
        BY <1>1, <1>2, <1>3, <1>4, <2>1 DEF StoredValues
<1> QED
    BY <1>1, <1>2, <1>6, <1>7, InsertDone

\* Displacing an entry is invisible.
LEMMA PassRefines ==
    ASSUME MapInv, MapInv', pc = "insert", PassOn
    PROVE  DictStep
<1> DEFINE U == Used(tab, cap)
           b == tab[idx]
<1>1. /\ cap' = cap /\ Used(tab', cap) = U /\ idx \in U
      /\ \A j \in 0 .. cap - 1 : j # idx => tab'[j] = tab[j]
      /\ UNCHANGED <<pc, arg, old, ret>> /\ b.key # tmp.key
      /\ \/ tab'[idx] = tmp /\ tmp'.key = b.key /\ tmp'.val = b.val
         \/ tab' = tab /\ tmp'.key = tmp.key /\ tmp'.val = tmp.val
    BY PassTurn
<1>2. StoredValues /\ StoredValues' /\ Live = U /\ U \subseteq 0 .. cap - 1
    BY StoredTypes DEF Live, Used
<1>3. Live' = U /\ Left' = Left
    BY <1>1 DEF Live, Left
<1>4. /\ Displaced <=> old # NoOld \/ tmp.key # arg.key
      /\ Displaced' <=> old # NoOld \/ tmp'.key # arg.key
    BY <1>1 DEF Displaced, Moving
<1>5. \A i \in U : i # idx => tab'[i] = tab[i]
    BY <1>1, <1>2
<1>6. CASE tab' = tab /\ tmp'.key = tmp.key /\ tmp'.val = tmp.val
    <2>1. ASSUME NEW k \in Keys, NEW v \in Vals PROVE Stored'[k] = v <=> Stored[k] = v
        BY <1>1, <1>2, <1>3, <1>4, <1>6 DEF StoredValues
    <2> QED
        BY <1>1, <2>1, SettingRefines
<1>7. CASE tab'[idx] = tmp /\ tmp'.key = b.key /\ tmp'.val = b.val
    <2>1. ASSUME NEW k \in Keys, k # arg.key, NEW v \in Vals PROVE Stored'[k] = v <=> Stored[k] = v
        <3>1. (\E i \in U : tab'[i].key = k /\ tab'[i].val = v)
                <=> \/ \E i \in U \ {idx} : tab[i].key = k /\ tab[i].val = v
                    \/ tmp.key = k /\ tmp.val = v
            BY <1>1, <1>5, <1>7
        <3>2. (\E i \in U : tab[i].key = k /\ tab[i].val = v)
                <=> \/ \E i \in U \ {idx} : tab[i].key = k /\ tab[i].val = v
                    \/ b.key = k /\ b.val = v
            BY <1>1
        <3> DEFINE other == \E i \in U \ {idx} : tab[i].key = k /\ tab[i].val = v
                   left == \E j \in Left : old.tab[j].key = k /\ old.tab[j].val = v
        <3>3. Stored[k] = v <=> (other \/ (b.key = k /\ b.val = v)) \/ left
                                  \/ (Displaced /\ tmp.key = k /\ tmp.val = v)
            BY <1>2, <3>2 DEF StoredValues
        <3>4. Stored'[k] = v <=> (other \/ (tmp.key = k /\ tmp.val = v)) \/ left
                                  \/ (Displaced' /\ b.key = k /\ b.val = v)
            BY <1>1, <1>2, <1>3, <1>7, <3>1 DEF StoredValues
        <3>5. (tmp.key = k => Displaced) /\ (b.key = k => Displaced')
            BY <1>4, <1>7, <2>1
        <3> QED
            BY <3>3, <3>4, <3>5
    <2> QED
        BY <1>1, <2>1, SettingRefines
<1> QED
    BY <1>1, <1>6, <1>7

\* Between calls the finite map is what is stored.
LEMMA AtIdle ==
    ASSUME MapInv, pc = "idle"
    PROVE  MapContents = [x \in Keys |-> Stored[x]] /\ Due = "nothing"
<1>1. Shown
    BY ShownHere
<1> QED
    BY <1>1 DEF Shown, Show, Owed

\* A get or a del begins.
LEMMA ProbeStores ==
    ASSUME MapInv, MapInv', NEW loop \in {"get", "del"}, NEW k \in Keys, Probe(loop, k, Absent)
    PROVE  Stored' = Stored
<1>1. pc = "idle" /\ pc' = loop /\ UNCHANGED <<tab, old>>
    BY DEF Probe
<1>2. cap' = cap
    BY <1>1 DEF cap
<1>3. ~Displaced /\ ~Displaced' /\ Live' = Live
    BY <1>1, <1>2 DEF Displaced, Live
<1> QED
    BY <1>1, <1>3, SamePlaces

\* A get takes effect when it is made.
LEMMA GetRefines ==
    ASSUME MapInv, MapInv', NEW k \in Keys, MapGet(k)
    PROVE  DictStep
<1>1. Probe("get", k, Absent)
    BY DEF MapGet
<1>2. Stored' = Stored
    BY <1>1, ProbeStores
<1>3. pc = "idle" /\ pc' = "get" /\ arg' = [key |-> k, val |-> Absent] /\ ret' = Absent
    BY <1>1 DEF Probe
<1>4. MapContents = [x \in Keys |-> Stored[x]] /\ Due = "nothing" /\ Shown'
    BY <1>3, AtIdle, StoredTypes
<1>5. MapContents' = [x \in Keys |-> Stored[x]] /\ Due' = Stored[k]
    BY <1>2, <1>3, <1>4 DEF Shown, Show, Owed
<1> HIDE DEF Stored
<1>6. Abstract!Get(k)
    BY <1>3, <1>4, <1>5 DEF Abstract!Get, Abstract!Idle
<1> QED
    BY <1>6 DEF DictStep, Abstract!DictNext

\* A del takes effect when it is made.
LEMMA DelRefines ==
    ASSUME MapInv, MapInv', NEW k \in Keys, Del(k)
    PROVE  DictStep
<1>1. Probe("del", k, Absent)
    BY DEF Del
<1>2. Stored' = Stored
    BY <1>1, ProbeStores
<1>3. pc = "idle" /\ pc' = "del" /\ arg' = [key |-> k, val |-> Absent] /\ ret' = Absent
    BY <1>1 DEF Probe
<1>4. MapContents = [x \in Keys |-> Stored[x]] /\ Due = "nothing" /\ Shown'
    BY <1>3, AtIdle, StoredTypes
<1>5. /\ MapContents' = [x \in Keys |-> IF x = k THEN Absent ELSE Stored[x]]
      /\ Due' = IF Stored[k] = Absent THEN "false" ELSE "true"
    BY <1>2, <1>3, <1>4 DEF Shown, Show, Owed
<1>6. MapContents' = [MapContents EXCEPT ![k] = Absent] /\ MapContents[k] = Stored[k]
    BY <1>4, <1>5
<1>7. Abstract!Del(k)
    BY <1>3, <1>4, <1>5, <1>6 DEF Abstract!Del, Abstract!Idle
<1> QED
    BY <1>7 DEF DictStep, Abstract!DictNext

\* A set takes effect when it is made, whether it doubles the table or not.
LEMMA SetRefines ==
    ASSUME MapInv, MapInv', NEW k \in Keys, NEW v \in Vals, Set(k, v)
    PROVE  DictStep
<1>1. pc = "idle" /\ arg' = [key |-> k, val |-> v] /\ ret' = Absent
    BY DEF Set
<1>2. TableInv /\ old = NoOld /\ Left = {} /\ ~Displaced /\ Live = Used(tab, cap)
    BY <1>1, NoHand DEF MapInv
<1>3. StoredValues /\ StoredValues' /\ Shown'
    BY StoredTypes
<1>4. MapContents = [x \in Keys |-> Stored[x]] /\ Due = "nothing"
    BY <1>1, AtIdle
<1>5. pc' \in {"insert", "rehash"} /\ \A x \in Keys, y \in Vals : Stored'[x] = y <=> Stored[x] = y
    <2>1. CASE MustGrow(len, cap)
        <3>1. tab' = Empty(2 * cap) /\ old' = [tab |-> tab, i |-> 0] /\ pc' = "rehash"
            BY <2>1 DEF Set
        <3>2. cap \in Nat /\ cap >= 4 /\ Tab(tab, cap) /\ CapOf(tab) = cap
            BY <1>2, Sizes
        <3>3. old'.tab = tab /\ old'.i = 0 /\ CapOf(old'.tab) = cap
            BY <3>1, <3>2
        <3>4. Left' = Used(tab, cap)
            BY <3>3 DEF Left, Used
        <3>5. Live' = {} /\ ~Displaced'
            <4>1. 2 * cap \in Nat /\ 2 * cap >= 4
                BY <3>2
            <4>2. Used(tab', 2 * cap) = {} /\ CapOf(tab') = 2 * cap
                BY <3>1, <4>1, EmptyTable
            <4>3. cap' = 2 * cap
                BY <4>2 DEF cap
            <4> QED
                BY <3>1, <4>2, <4>3 DEF Live, Displaced
        <3> QED
            BY <1>2, <1>3, <3>1, <3>3, <3>4, <3>5 DEF StoredValues
    <2>2. CASE ~MustGrow(len, cap)
        <3>1. StartInsert(tab, Entry(k, v)) /\ UNCHANGED <<tab, old>>
            BY <2>2 DEF Set
        <3>2. Good(Entry(k, v)) /\ Entry(k, v).key = k
            BY EntryIsGood
        <3>3. tmp'.key = k /\ pc' = "insert"
            BY <1>2, <3>1, <3>2, SetsOut
        <3>4. cap' = cap
            BY <3>1 DEF cap
        <3>5. Live' = Live /\ Left' = {} /\ ~Displaced'
            BY <1>1, <1>2, <3>1, <3>3, <3>4, NoneLeft DEF Live, Displaced, Moving
        <3> QED
            BY <1>2, <1>3, <3>1, <3>3, <3>5 DEF StoredValues
    <2> QED
        BY <2>1, <2>2
<1>6. \A x \in Keys : Stored'[x] = Stored[x]
    BY <1>5, KeyStays
<1>7. /\ MapContents' = [x \in Keys |-> IF x = k THEN v ELSE Stored[x]]
      /\ Due' = "void"
    BY <1>1, <1>3, <1>5, <1>6 DEF Shown, Show, Owed
<1>8. MapContents' = [MapContents EXCEPT ![k] = v]
    BY <1>4, <1>7
<1>9. Abstract!Set(k, v)
    BY <1>1, <1>4, <1>7, <1>8 DEF Abstract!Set, Abstract!Idle
<1> QED
    BY <1>9 DEF DictStep, Abstract!DictNext

\* A clear empties the finite map.
LEMMA ClearRefines ==
    ASSUME MapInv, MapInv', ClearMap
    PROVE  DictStep
<1>1. pc = "idle" /\ tab' = Empty(cap) /\ callVars' = callVars /\ ret' = Absent
    BY DEF ClearMap
<1>2. pc' = "idle" /\ UNCHANGED <<old, arg, tmp>>
    BY <1>1 DEF callVars
<1>3. TableInv /\ old = NoOld
    BY <1>1, NoHand DEF MapInv
<1>4. cap \in Nat /\ cap >= 4
    BY <1>3, Sizes
<1>5. Used(tab', cap) = {} /\ CapOf(tab') = cap
    BY <1>1, <1>4, EmptyTable
<1>6. Live' = {} /\ Left' = {} /\ ~Displaced'
    <2>1. cap' = cap
        BY <1>5 DEF cap
    <2> QED
        BY <1>2, <1>3, <1>5, <2>1, NoneLeft DEF Live, Displaced
<1>7. /\ StoredValues' /\ Shown' /\ Stored' \in [Keys -> Vals \union {Absent}]
    BY StoredTypes
<1>8. \A x \in Keys : Stored'[x] = Absent
    BY <1>6, <1>7 DEF StoredValues
<1>9. MapContents' = [x \in Keys |-> Absent] /\ Due' = "nothing"
    BY <1>2, <1>7, <1>8 DEF Shown, Show, Owed
<1>10. Due = "nothing"
    BY <1>1, AtIdle
<1>11. Abstract!Clear
    BY <1>1, <1>9, <1>10 DEF Abstract!Clear, Abstract!Idle
<1> QED
    BY <1>11 DEF DictStep, Abstract!DictNext

\* An iterator reads.
LEMMA IteratorRefines ==
    ASSUME MapInv, MapInv', UNCHANGED <<tab, callVars, ret>>
    PROVE  DictStep
<1>1. UNCHANGED <<tab, pc, idx, tmp, arg, old, ret>>
    BY DEF callVars
<1>2. cap' = cap
    BY <1>1 DEF cap
<1>3. Live' = Live /\ (Displaced' <=> Displaced)
    BY <1>1, <1>2 DEF Live, Displaced, Moving
<1>4. Stored' = Stored
    BY <1>1, <1>3, SamePlaces
<1> QED
    BY <1>1, <1>4, StuttersRefine

\* Every step of the table is a step of the finite map or invisible.
LEMMA StepRefinesDict ==
    ASSUME MapInv, MapInv', ArgInv, [TableNext]_mapVars
    PROVE  DictStep
<1>1. CASE Step
    BY <1>1, GetStepRefines, DelStepRefines, ShiftStepRefines, RehashRefines, PutRefines,
       OverwriteRefines, PassRefines DEF Step, InsertStep
<1>2. CASE MapCall
    <2>1. CASE StartIteration \/ MapNext
        <3>1. UNCHANGED <<tab, callVars, ret>>
            BY <2>1 DEF StartIteration, MapNext
        <3> QED
            BY <3>1, IteratorRefines
    <2> QED
        BY <1>2, <2>1, GetRefines, DelRefines, SetRefines, ClearRefines DEF MapCall
<1>3. CASE UNCHANGED mapVars
    <2>1. UNCHANGED <<tab, callVars, ret>>
        BY <1>3 DEF mapVars
    <2> QED
        BY <2>1, IteratorRefines
<1> QED
    BY <1>1, <1>2, <1>3 DEF TableNext

\* The zeroed table is the empty finite map.
LEMMA InitRefinesDict ==
    ASSUME MapInit
    PROVE  Abstract!DictInit
<1>1. MapInv
    BY MapInitInv
<1>2. pc = "idle" /\ ret = Absent /\ tab = Empty(MinCap)
    BY DEF MapInit
<1>3. MinCap \in Nat /\ MinCap >= 4
    BY MapAssumption
<1>4. Used(tab, MinCap) = {} /\ CapOf(tab) = MinCap
    BY <1>2, <1>3, EmptyTable
<1>5. cap = MinCap
    BY <1>4 DEF cap
<1>6. Live = {} /\ Left = {} /\ ~Displaced
    BY <1>1, <1>2, <1>4, <1>5, NoHand
<1>7. \A x \in Keys : Stored[x] = Absent
    BY <1>1, <1>6, NotStored
<1>8. MapContents = [x \in Keys |-> Absent] /\ Due = "nothing"
    BY <1>1, <1>2, <1>7, AtIdle
<1> QED
    BY <1>2, <1>8 DEF Abstract!DictInit

\* No call runs at first.
LEMMA ArgInitInv ==
    ASSUME MapInit
    PROVE  ArgInv
BY DEF MapInit, ArgInv, ProbeArg, ShiftArg, SetArg

(* The table implements a finite map: a get answers the value of the last  *)
(* set of its key that no del or clear followed, and a del whether there   *)
(* was one, through every collision, displacement, shift and rehash.       *)
THEOREM MapIsADict == MapSpec => ImplementsDict
<1>1. MapInit => MapInv /\ ArgInv /\ Abstract!DictInit
    BY MapInitInv, ArgInitInv, InitRefinesDict
<1>2. MapInv /\ [TableNext]_mapVars => MapInv'
    BY MapStepInv
<1>3. MapInv /\ ArgInv /\ [TableNext]_mapVars => ArgInv'
    BY ArgStepInv
<1>4. MapInv /\ MapInv' /\ ArgInv /\ [TableNext]_mapVars => [Abstract!DictNext]_(Abstract!dvars)
    BY StepRefinesDict DEF DictStep
<1> QED
    BY <1>1, <1>2, <1>3, <1>4, PTL DEF MapSpec, ImplementsDict, Abstract!DictSpec
=============================================================================
