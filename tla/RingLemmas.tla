----------------------------- MODULE RingLemmas -----------------------------
(***************************************************************************)
(* Arithmetic of a ring of n slots, whose cursors run modulo n or modulo a *)
(* multiple of n: used by the proofs about the ring of the HTTP pool       *)
(* (barehttp.h) and about RingBuf (barebuf.h).  Division with remainder,   *)
(* counting, and functions defined along the numbers.                      *)
(***************************************************************************)
EXTENDS Integers, Sequences, WellFoundedInduction, TLAPS

\* An index below twice the ring's size needs at most one turn back.
LEMMA ModBelow ==
    ASSUME NEW n \in Nat \ {0}, NEW x \in 0..(2 * n - 1)
    PROVE  x % n = IF x < n THEN x ELSE x - n
OBVIOUS

\* Different distances below the ring's size from one head are different slots.
LEMMA SlotInjective ==
    ASSUME NEW n \in Nat \ {0}, NEW h \in 0..(n - 1),
           NEW i \in 0..(n - 1), NEW j \in 0..(n - 1),
           (h + i) % n = (h + j) % n
    PROVE  i = j
<1>1. h + i \in 0..(2 * n - 1) /\ h + j \in 0..(2 * n - 1)
  OBVIOUS
<1>2. /\ (h + i) % n = IF h + i < n THEN h + i ELSE h + i - n
      /\ (h + j) % n = IF h + j < n THEN h + j ELSE h + j - n
  BY <1>1
<1> QED BY <1>2

\* Moving head on by one turns the distance i + 1 into i.
LEMMA SlotShift ==
    ASSUME NEW n \in Nat \ {0}, NEW h \in 0..(n - 1), NEW i \in 0..(n - 1)
    PROVE  (((h + 1) % n) + i) % n = (h + (i + 1)) % n
<1>1. h + 1 \in 0..(2 * n - 1) /\ i \in 0..(2 * n - 1) /\ h + (i + 1) \in 0..(2 * n - 1)
  OBVIOUS
<1>2. (h + 1) % n = IF h + 1 < n THEN h + 1 ELSE h + 1 - n
  BY <1>1
<1>3. CASE h + 1 < n
  <2>1. (h + 1) % n = h + 1
    BY <1>2, <1>3
  <2>2. (h + 1) + i = h + (i + 1)
    OBVIOUS
  <2> QED BY <2>1, <2>2
<1>4. CASE h + 1 = n
  <2>1. (h + (i + 1)) % n = i
    BY <1>1, <1>4
  <2>2. i % n = i
    BY <1>1
  <2>3. (h + 1) % n = 0
    BY <1>2, <1>4
  <2> QED BY <2>1, <2>2, <2>3
<1> QED BY <1>3, <1>4

\* Every slot index is a slot, and the slot at distance 0 is head.
LEMMA SlotIsSlot ==
    ASSUME NEW n \in Nat \ {0}, NEW h \in 0..(n - 1), NEW i \in Nat
    PROVE  /\ (h + i) % n \in 0..(n - 1)
           /\ (h + 0) % n = h
OBVIOUS

-----------------------------------------------------------------------------
\* A function on 1 .. n is a sequence of length n.
LEMMA FunctionIsSeq ==
    ASSUME NEW S, NEW n \in Nat, NEW f \in [1..n -> S]
    PROVE  f \in Seq(S) /\ Len(f) = n
OBVIOUS

\* What division with remainder promises.
LEMMA DivMod ==
    ASSUME NEW n \in Nat \ {0}, NEW x \in Int
    PROVE  /\ x \div n \in Int
           /\ (x % n) \in 0..(n - 1)
           /\ x = n * (x \div n) + (x % n)
OBVIOUS

\* No multiple of n lies strictly between -n and n but 0.
LEMMA NoMultipleBetween ==
    ASSUME NEW n \in Nat \ {0}, NEW k \in Int, -n < n * k, n * k < n
    PROVE  k = 0
<1>1. k >= 1 => n * k >= n
  <2> SUFFICES ASSUME k >= 1 PROVE n * k >= n
    OBVIOUS
  <2>1. n * (k - 1) >= 0 /\ n * (k - 1) = n * k - n
    OBVIOUS
  <2> QED BY <2>1
<1>2. k <= -1 => n * k <= -n
  <2> SUFFICES ASSUME k <= -1 PROVE n * k <= -n
    OBVIOUS
  <2>1. n * (-1 - k) >= 0 /\ n * (-1 - k) = -n - n * k
    OBVIOUS
  <2> QED BY <2>1
<1> QED BY <1>1, <1>2

\* Two numbers that are congruent and less than n apart are the same.
LEMMA CongruentAndNear ==
    ASSUME NEW n \in Nat \ {0}, NEW x \in Int, NEW y \in Int,
           (x % n) = (y % n), x - y < n, y - x < n
    PROVE  x = y
<1> DEFINE k == (x \div n) - (y \div n)
<1>1. x = n * (x \div n) + (x % n) /\ y = n * (y \div n) + (y % n)
  BY DivMod
<1>2. x \div n \in Int /\ y \div n \in Int
  BY DivMod
<1>3. n * k = n * (x \div n) - n * (y \div n)
  BY <1>2
<1>4. n * k = x - y /\ k \in Int
  BY <1>1, <1>2, <1>3, DivMod
<1> HIDE DEF k
<1>5. k = 0
  BY <1>4, NoMultipleBetween
<1> QED BY <1>4, <1>5

\* Multiples of n do not change a number's place in the ring.
LEMMA ModPlusMultiple ==
    ASSUME NEW n \in Nat \ {0}, NEW x \in Int, NEW m \in Int
    PROVE  (x + n * m) % n = (x % n)
<1> DEFINE y == x + n * m
           k == (y \div n) - (x \div n) - m
<1>1. y \in Int /\ x \div n \in Int /\ y \div n \in Int /\ k \in Int
  BY DivMod
<1>2. y = n * (y \div n) + (y % n) /\ x = n * (x \div n) + (x % n)
  BY <1>1, DivMod
<1>3. (y % n) \in 0..(n - 1) /\ (x % n) \in 0..(n - 1)
  BY <1>1, DivMod
<1>4. n * k = n * (y \div n) - n * (x \div n) - n * m
  BY <1>1
<1>5. n * k = (x % n) - (y % n)
  BY <1>1, <1>2, <1>3, <1>4
<1> HIDE DEF y, k
<1>6. k = 0
  BY <1>1, <1>3, <1>5, NoMultipleBetween
<1>7. (y % n) = (x % n)
  BY <1>3, <1>5, <1>6
<1> QED BY <1>7 DEF y

\* Neither does reducing one of two terms first, by a multiple m of n.
LEMMA ModOfSum ==
    ASSUME NEW n \in Nat \ {0}, NEW m \in Nat \ {0}, m % n = 0,
           NEW x \in Int, NEW y \in Int
    PROVE  /\ ((x % m) + y) % n = (x + y) % n
           /\ (y - (x % m)) % n = (y - x) % n
<1> DEFINE q == x \div m
           d == m \div n
<1>1. q \in Int /\ d \in Int /\ m = n * d /\ x = m * q + (x % m) /\ (x % m) \in Int
  <2>1. q \in Int /\ x = m * q + (x % m) /\ (x % m) \in Int
    BY DivMod
  <2>2. d \in Int /\ m = n * d + (m % n)
    BY DivMod
  <2> QED BY <2>1, <2>2
<1> HIDE DEF q, d
<1>2. m * q = n * (d * q) /\ d * q \in Int
  BY <1>1
<1> DEFINE e == d * q
           r == x % m
           p == n * e
<1>3. m * q = p /\ e \in Int /\ p \in Int /\ n * (-e) = -p
  BY <1>2
<1>30. x = p + r /\ r \in Int
  BY <1>1, <1>3
<1> HIDE DEF e, r, p
<1>40. r + y = (x + y) + (-p) /\ y - r = (y - x) + p
  BY <1>3, <1>30
<1>4. (x % m) + y = (x + y) + n * (-e) /\ x + y \in Int /\ -e \in Int
  BY <1>3, <1>40 DEF r
<1>5. y - (x % m) = (y - x) + n * e /\ y - x \in Int
  BY <1>40 DEF r, p
<1>6. ((x + y) + n * (-e)) % n = (x + y) % n
  BY <1>4, ModPlusMultiple
<1>7. ((y - x) + n * e) % n = (y - x) % n
  BY <1>3, <1>5, ModPlusMultiple
<1> QED BY <1>4, <1>5, <1>6, <1>7

\* A number below n is its own remainder.
LEMMA ModSmall ==
    ASSUME NEW n \in Nat \ {0}, NEW x \in 0..(n - 1)
    PROVE  x % n = x
OBVIOUS

\* n leaves no remainder.
LEMMA ModSelf == ASSUME NEW n \in Nat \ {0} PROVE n % n = 0
<1>1. (0 + n * 1) % n = 0 % n
  BY ModPlusMultiple
<1>2. 0 % n = 0
  BY ModSmall
<1> QED BY <1>1, <1>2

\* Nor does reducing a term by n itself.
LEMMA ModInSum ==
    ASSUME NEW n \in Nat \ {0}, NEW x \in Int, NEW y \in Int
    PROVE  ((x % n) + y) % n = (x + y) % n
BY ModOfSum, ModSelf

\* Of the numbers with a property there is a first.
LEMMA FirstExists ==
    ASSUME NEW S, S \subseteq Nat, S # {}
    PROVE  \E x \in S : \A y \in S : ~(y < x)
<1> DEFINE R == {p \in Nat \X Nat : p[1] < p[2]}
<1>1. IsWellFoundedOn(R, Nat)
    BY NatLessThanWellFounded DEF OpToRel
<1>2. PICK x \in S : \A y \in S : <<y, x>> \notin R
    BY <1>1, WFMin
<1> QED
    BY <1>2

\* Counting up from 0 reaches every number.
LEMMA CountUp ==
    ASSUME NEW S, 0 \in S, \A n \in Nat : n \in S => n + 1 \in S
    PROVE  Nat \subseteq S
<1> SUFFICES ASSUME Nat \ S # {} PROVE FALSE
  OBVIOUS
<1>1. PICK n \in Nat \ S : \A m \in Nat \ S : ~(m < n)
  BY FirstExists
<1>2. n - 1 \in Nat /\ n - 1 < n /\ n = (n - 1) + 1
  BY <1>1
<1> QED BY <1>1, <1>2

\* f starts with a, and g gives the next value.
Follows(f, n, a, g) == f[0] = a /\ \A i \in 1..n : f[i] = g[<<i, f[i - 1]>>]

\* A first value and a rule for the next one give a sequence of values.
LEMMA ValuesExist ==
    ASSUME NEW n \in Nat, NEW S, NEW a \in S, NEW g \in [(1..n) \X S -> S]
    PROVE  \E f \in [0..n -> S] : Follows(f, n, a, g)
<1>0. \A i \in 1..n, v \in S : g[<<i, v>>] \in S
  OBVIOUS
<1> DEFINE Goes(m) == m <= n => \E f \in [0..m -> S] :
                         f[0] = a /\ \A i \in 1..m : f[i] = g[<<i, f[i - 1]>>]
           G == {m \in Nat : Goes(m)}
<1>1. 0 \in G
  <2> DEFINE f == [i \in 0..0 |-> a]
  <2>1. f \in [0..0 -> S] /\ f[0] = a
    OBVIOUS
  <2>2. \A i \in 1..0 : f[i] = g[<<i, f[i - 1]>>]
    OBVIOUS
  <2> HIDE DEF f
  <2> QED BY <2>1, <2>2
<1>2. ASSUME NEW m \in Nat, m \in G PROVE m + 1 \in G
  <2> SUFFICES ASSUME m + 1 <= n PROVE Goes(m + 1)
    OBVIOUS
  <2>1. PICK f \in [0..m -> S] : f[0] = a /\ \A i \in 1..m : f[i] = g[<<i, f[i - 1]>>]
    BY <1>2
  <2> DEFINE h == [i \in 0..(m + 1) |-> IF i <= m THEN f[i] ELSE g[<<m + 1, f[m]>>]]
  <2>2. m \in 0..m /\ f[m] \in S /\ m + 1 \in 1..n
    OBVIOUS
  <2>3. h \in [0..(m + 1) -> S]
    BY <1>0, <2>2
  <2>4. h[0] = a /\ \A i \in 0..m : h[i] = f[i]
    BY <2>1
  <2>5. h[m + 1] = g[<<m + 1, f[m]>>]
    OBVIOUS
  <2>6. \A i \in 1..(m + 1) : h[i] = g[<<i, h[i - 1]>>]
    <3> SUFFICES ASSUME NEW i \in 1..(m + 1) PROVE h[i] = g[<<i, h[i - 1]>>]
      OBVIOUS
    <3> HIDE DEF h
    <3>1. CASE i = m + 1
      <4>1. i - 1 = m /\ h[m] = f[m]
        BY <2>2, <2>4, <3>1
      <4> QED BY <2>5, <3>1, <4>1, Zenon
    <3>2. CASE i # m + 1
      <4>1. i \in 1..m /\ i - 1 \in 0..m
        BY <3>2
      <4> QED BY <2>1, <2>4, <4>1
    <3> QED BY <3>1, <3>2
  <2> HIDE DEF h
  <2> QED BY <2>3, <2>4, <2>6
<1> HIDE DEF G
<1>3. Nat \subseteq G
  BY <1>1, <1>2, CountUp
<1> QED BY <1>3 DEF G, Follows
=============================================================================
