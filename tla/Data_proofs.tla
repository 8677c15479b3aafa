----------------------------- MODULE Data_proofs -----------------------------
(***************************************************************************)
(* The memory the program's data lives in.                                 *)
(*   - The byte ring of barebuf.h: its free-running cursors stay within    *)
(*     the capacity of each other, and it implements ByteQueue.            *)
(*   - The arena of barestd.h with the builder of barebuilder.h: live      *)
(*     blocks are apart and out of the next push's reach, and the          *)
(*     builder's buffer is one of them.                                    *)
(*   - The slab of barepool.h, for any number of slots and any data its    *)
(*     users write.  A free list is given by the sequence of its slots:    *)
(*     allocating drops the first, freeing puts one in front, and what     *)
(*     users write is not in it.                                           *)
(*   - The connection pool of barenet.h, for any set of descriptor numbers *)
(*     and of borrowers: it is exact because no number is kept twice, also *)
(*     when it is closed under them.                                       *)
(***************************************************************************)
EXTENDS RingBuf, Memory, Pool, ConnPool, RingLemmas, SequenceTheorems,
        FiniteSetTheorems, TLAPS

(* The byte ring *)

\* The ring and its cursors' range: the one divides the other.
LEMMA RingNumbers ==
    /\ N \in Nat \ {0} /\ W \in Nat \ {0} /\ N < W
    /\ W % N = 0 /\ W % W = 0
    /\ 0 .. W - 1 \subseteq Nat
BY RingAssumption, ModSelf

\* Reducing a cursor changes neither its place nor its distance from another.
LEMMA RingMod ==
    ASSUME NEW x \in Int, NEW y \in Int
    PROVE  /\ ((x % W) + y) % N = (x + y) % N
           /\ ((x % W) + y) % W = (x + y) % W
           /\ (y - (x % W)) % W = (y - x) % W
<1>1. N \in Nat \ {0} /\ W \in Nat \ {0} /\ W % N = 0 /\ W % W = 0
    BY RingNumbers
<1>2. ((x % W) + y) % N = (x + y) % N
    BY <1>1, ModOfSum
<1>3. ((x % W) + y) % W = (x + y) % W /\ (y - (x % W)) % W = (y - x) % W
    BY <1>1, ModOfSum
<1> QED
    BY <1>2, <1>3

\* The mask of a cursor is its place in a ring of N slots.
LEMMA MaskIsPlace ==
    ASSUME NEW c \in Int, NEW k \in Int
    PROVE  Masked(c, k) = (c + k) % N /\ Masked(c, k) \in 0 .. N - 1
<1>0. c + k \in Int /\ 0 \in Int
    OBVIOUS
<1>1. (((c + k) % W) + 0) % N = ((c + k) + 0) % N
    BY <1>0, RingMod
<1>2. (c + k) % W \in Int /\ (c + k) % N \in 0 .. N - 1
    BY RingNumbers, DivMod
<1>3. ((c + k) % W) + 0 = (c + k) % W /\ (c + k) + 0 = c + k
    BY <1>2
<1> QED
    BY <1>0, <1>1, <1>2, <1>3 DEF Masked

\* What is used is the distance from head to tail, at most the capacity.
LEMMA UsedIsDistance ==
    ASSUME RingTypeOK
    PROVE  /\ Used \in 0 .. N
           /\ head \in Nat /\ tail \in Nat
           /\ \A k \in Int : Masked(tail, k) = Masked(head, Used + k)
<1>1. head \in Int /\ tail \in Int /\ tail - head \in Int /\ head \in Nat /\ tail \in Nat
    BY RingNumbers DEF RingTypeOK
<1>2. Used = (tail - head) % W
    BY DEF Used, RingLen
<1>3. Used \in 0 .. N
    BY <1>1, <1>2, RingNumbers, DivMod DEF RingTypeOK
<1>4. ASSUME NEW k \in Int PROVE Masked(tail, k) = Masked(head, Used + k)
    <2>0. head + k \in Int
        BY <1>1
    <2>1. (((tail - head) % W) + (head + k)) % N = ((tail - head) + (head + k)) % N
        BY <1>1, <2>0, RingMod
    <2>2. (tail - head) + (head + k) = tail + k /\ Used + (head + k) = head + (Used + k)
        BY <1>1, <1>3
    <2>3. (head + (Used + k)) % N = (tail + k) % N
        BY <1>2, <2>1, <2>2
    <2> QED
        BY <1>1, <1>3, <2>3, MaskIsPlace
<1> QED
    BY <1>1, <1>3, <1>4

\* Places less than N apart are different.
LEMMA MaskInjective ==
    ASSUME NEW c \in Int, NEW j \in 0 .. N - 1, NEW k \in 0 .. N - 1,
           Masked(c, j) = Masked(c, k)
    PROVE  j = k
<1>1. (c + j) % N = (c + k) % N
    BY MaskIsPlace
<1>2. c + j \in Int /\ c + k \in Int /\ (c + j) - (c + k) < N /\ (c + k) - (c + j) < N
    BY RingNumbers
<1>3. c + j = c + k
    BY <1>1, <1>2, RingNumbers, CongruentAndNear
<1> QED
    BY <1>3

\* A cursor moved on is a cursor, and its places follow on.
LEMMA MovedIsCursor ==
    ASSUME NEW c \in Int, NEW n \in Nat
    PROVE  /\ Moved(c, n) \in 0 .. W - 1
           /\ \A k \in Int : Masked(Moved(c, n), k) = Masked(c, n + k)
<1>1. Moved(c, n) \in 0 .. W - 1 /\ Moved(c, n) \in Int
    BY RingNumbers, DivMod DEF Moved
<1>2. ASSUME NEW k \in Int PROVE Masked(Moved(c, n), k) = Masked(c, n + k)
    <2>0. c + n \in Int
        OBVIOUS
    <2>1. (((c + n) % W) + k) % N = ((c + n) + k) % N
        BY <2>0, RingMod
    <2>2. (c + n) + k = c + (n + k)
        OBVIOUS
    <2> QED
        BY <1>1, <2>1, <2>2, MaskIsPlace DEF Moved
<1> QED
    BY <1>1, <1>2

\* What the ring holds, as a sequence.
LEMMA CopiedIsSeq ==
    ASSUME RingTypeOK, NEW n \in Nat
    PROVE  /\ Copied(n) \in Seq(Bytes) /\ Len(Copied(n)) = n
           /\ \A k \in 1 .. n : Copied(n)[k] = buf[Masked(head, k - 1)]
<1>1. head \in Int
    BY UsedIsDistance
<1>2. \A k \in 1 .. n : buf[Masked(head, k - 1)] \in Bytes
    <2> SUFFICES ASSUME NEW k \in 1 .. n PROVE buf[Masked(head, k - 1)] \in Bytes
        OBVIOUS
    <2>1. Masked(head, k - 1) \in 0 .. N - 1
        BY <1>1, MaskIsPlace
    <2> QED
        BY <2>1 DEF RingTypeOK
<1>3. Copied(n) \in [1 .. n -> Bytes]
    BY <1>2 DEF Copied
<1> QED
    BY <1>3, FunctionIsSeq DEF Copied

\* A step that moves tail on by the length of s, and leaves s behind the old tail,
\* puts s behind what the ring held.
LEMMA RingGrows ==
    ASSUME RingTypeOK, NEW s \in Seq(Bytes), Used + Len(s) <= N,
           UNCHANGED head, tail' = Moved(tail, Len(s)),
           buf' \in [0 .. N - 1 -> Bytes],
           \A k \in 0 .. Len(s) - 1 : buf'[Masked(tail, k)] = s[k + 1],
           \A p \in 0 .. N - 1 :
             (\A k \in 0 .. Len(s) - 1 : p # Masked(tail, k)) => buf'[p] = buf[p]
    PROVE  /\ Used' = Used + Len(s)
           /\ tail' \in 0 .. W - 1
           /\ Copied(Used)' = Copied(Used) \o s
<1> DEFINE n == Len(s)
<1>0. n \in Nat
    OBVIOUS
<1>1. Used \in 0 .. N /\ head \in Int /\ tail \in Int
    BY UsedIsDistance
<1>2. tail' \in 0 .. W - 1
    BY <1>0, <1>1, MovedIsCursor
<1>3. Used' = Used + n
    <2>1. Used' = (Moved(tail, n) - head) % W
        BY DEF Used, RingLen
    <2>0. tail + n \in Int /\ tail - head \in Int /\ -head \in Int /\ n \in Int
        BY <1>0, <1>1
    <2> HIDE DEF n
    <2>2. (((tail + n) % W) + (-head)) % W = ((tail + n) + (-head)) % W
        BY <2>0, RingMod
    <2>3. (((tail - head) % W) + n) % W = ((tail - head) + n) % W
        BY <2>0, RingMod
    <2>4. (tail + n) % W \in Int
        BY <1>0, <1>1, RingNumbers, DivMod
    <2>5. /\ ((tail + n) % W) + (-head) = Moved(tail, n) - head
          /\ (tail + n) + (-head) = (tail - head) + n
        BY <1>0, <1>1, <2>4 DEF Moved
    <2>6. Used' = (Used + n) % W
        BY <2>1, <2>2, <2>3, <2>5 DEF Used, RingLen
    <2>7. Used + n \in 0 .. W - 1
        <3>1. Used + n <= N
            BY DEF n
        <3> QED
            BY <1>0, <1>1, <3>1, RingNumbers
    <2> QED
        BY <2>6, <2>7, RingNumbers, ModSmall
<1>4. Copied(Used) \in Seq(Bytes) /\ Len(Copied(Used)) = Used
      /\ \A k \in 1 .. Used : Copied(Used)[k] = buf[Masked(head, k - 1)]
    BY <1>1, CopiedIsSeq
<1>5. Copied(Used)' = [k \in 1 .. Used + n |-> buf'[Masked(head, k - 1)]]
    BY <1>3 DEF Copied, Masked
<1>6. ASSUME NEW k \in 1 .. Used + n
      PROVE  buf'[Masked(head, k - 1)] = IF k <= Used THEN Copied(Used)[k] ELSE s[k - Used]
    <2>1. CASE k <= Used
        <3>1. ASSUME NEW j \in 0 .. n - 1 PROVE Masked(head, k - 1) # Masked(tail, j)
            <4>1. Masked(tail, j) = Masked(head, Used + j)
                BY <1>0, UsedIsDistance
            <4>2. Used + j \in 0 .. N - 1 /\ k - 1 \in 0 .. N - 1 /\ k - 1 # Used + j
                BY <1>0, <1>1, <2>1, RingNumbers
            <4> QED
                BY <1>1, <4>1, <4>2, MaskInjective
        <3>2. Masked(head, k - 1) \in 0 .. N - 1
            <4>1. k - 1 \in Int
                BY <1>0, <1>1
            <4> QED
                BY <1>1, <4>1, MaskIsPlace
        <3>3. buf'[Masked(head, k - 1)] = buf[Masked(head, k - 1)]
            BY <3>1, <3>2
        <3>4. k \in 1 .. Used
            BY <1>1, <2>1
        <3> QED
            BY <1>4, <2>1, <3>3, <3>4
    <2>2. CASE k > Used
        <3> DEFINE j == k - 1 - Used
        <3>1. j \in 0 .. n - 1 /\ Used + j = k - 1 /\ j + 1 = k - Used /\ ~(k <= Used)
            BY <1>0, <1>1, <2>2
        <3>2. Masked(tail, j) = Masked(head, k - 1)
            BY <3>1, UsedIsDistance
        <3> HIDE DEF j
        <3> QED
            BY <3>1, <3>2
    <2> QED
        BY <1>1, <2>1, <2>2
<1>7. /\ Copied(Used) \o s \in Seq(Bytes) /\ Len(Copied(Used) \o s) = Used + n
      /\ \A k \in 1 .. Used + n :
           (Copied(Used) \o s)[k] = IF k <= Used THEN Copied(Used)[k] ELSE s[k - Used]
    <2> DEFINE z == Copied(Used)
    <2>1. z \in Seq(Bytes) /\ Len(z) = Used
        BY <1>4
    <2> HIDE DEF z
    <2>2. /\ z \o s \in Seq(Bytes) /\ Len(z \o s) = Used + Len(s)
          /\ \A k \in 1 .. Used + Len(s) :
               (z \o s)[k] = IF k <= Used THEN z[k] ELSE s[k - Used]
        BY <2>1, ConcatProperties
    <2> QED
        BY <2>2 DEF z
<1>8. /\ Copied(Used)' \in Seq(Bytes) /\ Len(Copied(Used)') = Used + n
      /\ \A k \in 1 .. Used + n :
           Copied(Used)'[k] = IF k <= Used THEN Copied(Used)[k] ELSE s[k - Used]
    <2>1. ASSUME NEW k \in 1 .. Used + n PROVE buf'[Masked(head, k - 1)] \in Bytes
        <3>1. k - 1 \in Int
            BY <1>0, <1>1
        <3>2. Masked(head, k - 1) \in 0 .. N - 1
            BY <1>1, <3>1, MaskIsPlace
        <3> QED
            BY <3>2
    <2>2. Copied(Used)' \in [1 .. Used + n -> Bytes] /\ Used + n \in Nat
        BY <1>0, <1>1, <1>5, <2>1
    <2>3. Copied(Used)' \in Seq(Bytes) /\ Len(Copied(Used)') = Used + n
        BY <2>2, FunctionIsSeq
    <2> QED
        BY <1>5, <1>6, <2>3
<1> QED
    BY <1>2, <1>3, <1>7, <1>8, SeqEqual

\* A step that moves head on drops that many bytes from the front.
LEMMA RingShrinks ==
    ASSUME RingTypeOK, NEW n \in 0 .. Used, head' = Moved(head, n), UNCHANGED <<buf, tail>>
    PROVE  /\ Used' = Used - n
           /\ head' \in 0 .. W - 1
           /\ Copied(Used)' = SubSeq(Copied(Used), n + 1, Used)
<1>1. Used \in 0 .. N /\ head \in Int /\ tail \in Int /\ n \in Nat /\ n <= Used
    BY UsedIsDistance
<1>2. head' \in 0 .. W - 1 /\ \A k \in Int : Masked(head', k) = Masked(head, n + k)
    BY <1>1, MovedIsCursor
<1>3. Used' = Used - n
    <2>1. Used' = (tail - ((head + n) % W)) % W
        BY DEF Used, RingLen, Moved
    <2>2. tail - head \in Int /\ head + n \in Int /\ -n \in Int
        BY <1>1
    <2>3. (tail - ((head + n) % W)) % W = (tail - (head + n)) % W
        BY <1>1, <2>2, RingMod
    <2>4. (((tail - head) % W) + (-n)) % W = ((tail - head) + (-n)) % W
        BY <2>2, RingMod
    <2>5. (tail - head) + (-n) = tail - (head + n) /\ Used + (-n) = Used - n
        BY <1>1
    <2>6. Used' = (Used - n) % W
        BY <2>1, <2>3, <2>4, <2>5 DEF Used, RingLen
    <2>7. Used - n \in 0 .. W - 1
        BY <1>1, RingNumbers
    <2> QED
        BY <2>6, <2>7, RingNumbers, ModSmall
<1>4. Copied(Used) \in Seq(Bytes) /\ Len(Copied(Used)) = Used
      /\ \A k \in 1 .. Used : Copied(Used)[k] = buf[Masked(head, k - 1)]
    <2>1. Used \in Nat
        BY <1>1
    <2> QED
        BY <2>1, CopiedIsSeq
<1>5. Copied(Used)' = [k \in 1 .. Used - n |-> buf[Masked(head', k - 1)]]
    BY <1>3 DEF Copied, Masked
<1>6. ASSUME NEW k \in 1 .. Used - n
      PROVE  buf[Masked(head', k - 1)] = Copied(Used)[k + n] /\ k + n \in 1 .. Used
    <2>1. k - 1 \in Int /\ k + n \in 1 .. Used /\ n + (k - 1) = (k + n) - 1
        BY <1>1
    <2>2. Masked(head', k - 1) = Masked(head, (k + n) - 1)
        BY <1>2, <2>1
    <2> QED
        BY <1>4, <2>1, <2>2
<1> DEFINE z == Copied(Used)
           m == Used
<1>7. z \in Seq(Bytes) /\ Len(z) = m /\ n \in 0 .. m /\ m \in Nat
    BY <1>1, <1>4
<1>8. /\ SubSeq(z, n + 1, m) \in Seq(Bytes) /\ Len(SubSeq(z, n + 1, m)) = m - n
      /\ \A k \in 1 .. m - n : SubSeq(z, n + 1, m)[k] = z[k + n]
    <2> HIDE DEF z, m
    <2>1. n + 1 \in 1 .. Len(z) + 1 /\ m \in n .. Len(z)
        BY <1>7
    <2>2. /\ SubSeq(z, n + 1, m) \in Seq(Bytes)
          /\ Len(SubSeq(z, n + 1, m)) = m - n
          /\ \A k \in 1 .. m - n : SubSeq(z, n + 1, m)[k] = z[(n + 1) + k - 1]
        BY <1>7
    <2> QED
        BY <1>7, <2>2
<1>9. /\ Copied(Used)' \in Seq(Bytes) /\ Len(Copied(Used)') = Used - n
      /\ \A k \in 1 .. Used - n : Copied(Used)'[k] = z[k + n]
    <2>1. ASSUME NEW k \in 1 .. Used - n PROVE buf[Masked(head', k - 1)] \in Bytes
        BY <1>6, <1>7, ElementOfSeq
    <2>2. Copied(Used)' \in [1 .. Used - n -> Bytes]
        BY <1>5, <2>1
    <2>20. Used - n \in Nat
        BY <1>1
    <2>3. Copied(Used)' \in Seq(Bytes) /\ Len(Copied(Used)') = Used - n
        BY <2>2, <2>20, FunctionIsSeq
    <2> QED
        BY <1>5, <1>6, <2>3
<1> QED
    BY <1>2, <1>3, <1>8, <1>9, SeqEqual

\* The first n bytes the ring holds.
LEMMA CopiedIsFront ==
    ASSUME RingTypeOK, NEW n \in 0 .. Used
    PROVE  Copied(n) \in Seq(Bytes) /\ Copied(n) = SubSeq(Copied(Used), 1, n)
<1>1. Used \in 0 .. N /\ n \in Nat /\ n <= Used
    BY UsedIsDistance
<1>2. /\ Copied(n) \in Seq(Bytes) /\ Len(Copied(n)) = n
      /\ \A k \in 1 .. n : Copied(n)[k] = buf[Masked(head, k - 1)]
    BY <1>1, CopiedIsSeq
<1> DEFINE z == Copied(Used)
           m == Used
<1>3. /\ z \in Seq(Bytes) /\ Len(z) = m /\ m \in Nat /\ n <= m
      /\ \A k \in 1 .. m : z[k] = buf[Masked(head, k - 1)]
    <2>1. m \in Nat /\ n <= m
        BY <1>1
    <2> HIDE DEF m
    <2>2. /\ Copied(m) \in Seq(Bytes) /\ Len(Copied(m)) = m
          /\ \A k \in 1 .. m : Copied(m)[k] = buf[Masked(head, k - 1)]
        BY <2>1, CopiedIsSeq
    <2> QED
        BY <2>1, <2>2 DEF m
<1>4. \A k \in 1 .. n : Copied(n)[k] = z[k]
    BY <1>1, <1>2, <1>3
<1>5. /\ SubSeq(z, 1, n) \in Seq(Bytes) /\ Len(SubSeq(z, 1, n)) = n
      /\ \A k \in 1 .. n : SubSeq(z, 1, n)[k] = z[k]
    <2> HIDE DEF z, m
    <2> QED
        BY <1>1, <1>3
<1> QED
    BY <1>2, <1>4, <1>5, SeqEqual

\* The ring starts as an empty queue.
LEMMA RingInitOK == RingInit => RingTypeOK /\ Queue!QueueInit
<1> SUFFICES ASSUME RingInit PROVE RingTypeOK /\ Queue!QueueInit
    OBVIOUS
<1>1. (0 - 0) % W = 0
    BY RingNumbers, ModSmall
<1>2. Used = 0
    BY <1>1 DEF RingInit, Used, RingLen
<1>3. RingTypeOK
    BY <1>2, RingNumbers DEF RingInit, RingTypeOK
<1>4. Copied(Used) = <<>>
    BY <1>2 DEF Copied
<1> QED
    BY <1>3, <1>4 DEF RingInit, Queue!QueueInit

\* ringbuf_write keeps the bytes for which there is room.
LEMMA WriteOK ==
    ASSUME RingTypeOK, NEW s \in Inputs, Write(s)
    PROVE  RingTypeOK' /\ Queue!Enqueue(s)
<1> DEFINE n == CanWrite(s)
           z == SubSeq(s, 1, n)
<1>1. Used \in 0 .. N /\ head \in Int /\ tail \in Int
    BY UsedIsDistance
<1>2. s \in Seq(Bytes)
    BY RingAssumption
<1>3. n \in 0 .. Len(s) /\ Used + n <= N
    BY <1>1, <1>2, RingNumbers DEF CanWrite, Lesser, Space
<1>4. z \in Seq(Bytes) /\ Len(z) = n /\ \A k \in 1 .. n : z[k] = s[k]
    <2> HIDE DEF n
    <2> QED
        BY <1>2, <1>3
<1>5. UNCHANGED <<head, got>> /\ tail' = Moved(tail, n) /\ buf' = Stored(s, n)
    BY DEF Write
<1> HIDE DEF n
<1>6. /\ buf' \in [0 .. N - 1 -> Bytes]
      /\ \A k \in 0 .. n - 1 : buf'[Masked(tail, k)] = s[k + 1]
      /\ \A p \in 0 .. N - 1 : (\A k \in 0 .. n - 1 : p # Masked(tail, k)) => buf'[p] = buf[p]
    <2>1. ASSUME NEW k \in 0 .. n - 1
          PROVE  Masked(tail, k) \in 0 .. N - 1 /\ k \in 0 .. N - 1 /\ k + 1 \in 1 .. Len(s)
        <3>1. k \in Int /\ k \in 0 .. N - 1 /\ k + 1 \in 1 .. Len(s)
            BY <1>1, <1>2, <1>3, RingNumbers
        <3> QED
            BY <1>1, <3>1, MaskIsPlace
    <2>2. DOMAIN buf = 0 .. N - 1
        BY DEF RingTypeOK
    <2>3. ASSUME NEW p \in 0 .. N - 1, NEW k \in 0 .. n - 1, Masked(tail, k) = p
          PROVE  buf'[p] = s[k + 1]
        <3>1. \A j \in 0 .. n - 1 : Masked(tail, j) = p => j = k
            BY <1>1, <2>1, <2>3, MaskInjective
        <3>2. (CHOOSE j \in 0 .. n - 1 : Masked(tail, j) = p) = k
            BY <2>3, <3>1
        <3>3. buf'[p] = s[1 + CHOOSE j \in 0 .. n - 1 : Masked(tail, j) = p]
            BY <1>5, <2>2, <2>3 DEF Stored
        <3>4. 1 + k = k + 1
            BY <1>3
        <3> QED
            BY <3>2, <3>3, <3>4
    <2>4. ASSUME NEW p \in 0 .. N - 1, \A k \in 0 .. n - 1 : p # Masked(tail, k)
          PROVE  buf'[p] = buf[p]
        BY <1>5, <2>2, <2>4 DEF Stored
    <2>5. \A p \in 0 .. N - 1 : buf'[p] \in Bytes
        <3> SUFFICES ASSUME NEW p \in 0 .. N - 1 PROVE buf'[p] \in Bytes
            OBVIOUS
        <3>1. CASE \E k \in 0 .. n - 1 : Masked(tail, k) = p
            <4>1. PICK k \in 0 .. n - 1 : Masked(tail, k) = p
                BY <3>1
            <4>2. buf'[p] = s[k + 1] /\ k + 1 \in 1 .. Len(s)
                BY <2>1, <2>3, <4>1
            <4> QED
                BY <1>2, <4>2, ElementOfSeq
        <3>2. CASE \A k \in 0 .. n - 1 : p # Masked(tail, k)
            <4>1. buf'[p] = buf[p]
                BY <2>4, <3>2
            <4>2. buf[p] \in Bytes
                BY DEF RingTypeOK
            <4> QED
                BY <4>1, <4>2
        <3> QED
            BY <3>1, <3>2
    <2>6. buf' = [p \in 0 .. N - 1 |-> buf'[p]]
        BY <1>5, <2>2 DEF Stored
    <2>7. buf' \in [0 .. N - 1 -> Bytes]
        BY <2>5, <2>6
    <2> QED
        BY <2>1, <2>3, <2>4, <2>7
<1>7. \A k \in 0 .. n - 1 : z[k + 1] = s[k + 1]
    BY <1>3, <1>4
<1> HIDE DEF z
<1>8. /\ Used' = Used + n /\ tail' \in 0 .. W - 1
      /\ Copied(Used)' = Copied(Used) \o z
    BY <1>3, <1>4, <1>5, <1>6, <1>7, RingGrows
<1>9. RingTypeOK'
    BY <1>3, <1>5, <1>6, <1>8 DEF RingTypeOK
<1>10. Len(Copied(Used)) = Used
    BY <1>1, CopiedIsSeq
<1>11. n = Queue!Least(Len(s), N - Len(Copied(Used)))
    BY <1>10 DEF n, CanWrite, Lesser, Space, Queue!Least
<1> QED
    BY <1>5, <1>8, <1>9, <1>11 DEF z, Queue!Enqueue

\* typed_ringbuf_push is a write of one element that fits.
LEMMA TypedPushOK ==
    ASSUME RingTypeOK, NEW b \in Bytes, TypedPush(b)
    PROVE  RingTypeOK' /\ Queue!Enqueue(<<b>>)
<1>1. Used \in 0 .. N /\ head \in Int /\ tail \in Int
    BY UsedIsDistance
<1>2. <<b>> \in Seq(Bytes) /\ Len(<<b>>) = 1 /\ <<b>>[1] = b
    OBVIOUS
<1>3. Used + 1 <= N
    BY <1>1, RingNumbers DEF TypedPush, IsFull
<1>4. Masked(tail, 0) \in 0 .. N - 1
    <2>1. 0 \in Int
        OBVIOUS
    <2> QED
        BY <1>1, <2>1, MaskIsPlace
<1>5. /\ UNCHANGED <<head, got>> /\ tail' = Moved(tail, 1)
      /\ buf' = [buf EXCEPT ![Masked(tail, 0)] = b]
    BY DEF TypedPush
<1>6. buf' \in [0 .. N - 1 -> Bytes]
    BY <1>4, <1>5 DEF RingTypeOK
<1>7. \A k \in 0 .. 1 - 1 : buf'[Masked(tail, k)] = <<b>>[k + 1]
    <2>1. buf'[Masked(tail, 0)] = b
        BY <1>4, <1>5 DEF RingTypeOK
    <2>2. \A k \in 0 .. 1 - 1 : k = 0
        OBVIOUS
    <2> QED
        BY <1>2, <2>1, <2>2
<1>8. \A p \in 0 .. N - 1 : (\A k \in 0 .. 1 - 1 : p # Masked(tail, k)) => buf'[p] = buf[p]
    BY <1>5 DEF RingTypeOK
<1>9. /\ Used' = Used + 1 /\ tail' \in 0 .. W - 1
      /\ Copied(Used)' = Copied(Used) \o <<b>>
    BY <1>2, <1>3, <1>5, <1>6, <1>7, <1>8, RingGrows
<1>10. RingTypeOK'
    BY <1>3, <1>5, <1>6, <1>9 DEF RingTypeOK
<1>11. Len(Copied(Used)) = Used
    BY <1>1, CopiedIsSeq
<1>12. Queue!Least(Len(<<b>>), N - Len(Copied(Used))) = 1
    BY <1>1, <1>2, <1>3, <1>11, RingNumbers DEF Queue!Least
<1>13. SubSeq(<<b>>, 1, 1) = <<b>>
    BY <1>2, SubSeqFull
<1> QED
    BY <1>5, <1>9, <1>10, <1>12, <1>13 DEF Queue!Enqueue

\* What reads, peeks, pops and discards take is the front of the queue; what
\* they leave is the rest.
LEMMA TakenOK ==
    ASSUME RingTypeOK, NEW n \in Nat
    PROVE  /\ CanRead(n) \in 0 .. Used
           /\ Copied(CanRead(n)) \in Seq(Bytes)
           /\ Copied(CanRead(n)) = Queue!Front(n)
           /\ SubSeq(Copied(Used), CanRead(n) + 1, Used) = Queue!Rest(n)
<1>1. Used \in 0 .. N /\ Len(Copied(Used)) = Used
    BY UsedIsDistance, CopiedIsSeq
<1>2. CanRead(n) \in 0 .. Used /\ CanRead(n) = Queue!Least(n, Len(Copied(Used)))
    BY <1>1 DEF CanRead, Lesser, Queue!Least
<1> QED
    BY <1>1, <1>2, CopiedIsFront DEF Queue!Front, Queue!Rest

\* Dropping from the front is the queue's own step.
LEMMA HeadMovesOK ==
    ASSUME RingTypeOK, NEW n \in Nat, head' = Moved(head, CanRead(n)), UNCHANGED <<buf, tail>>
    PROVE  /\ Used' <= N
           /\ head' \in 0 .. W - 1
           /\ Copied(Used)' = Queue!Rest(n)
<1>1. CanRead(n) \in 0 .. Used /\ Used \in 0 .. N
    BY UsedIsDistance, TakenOK
<1>2. /\ Used' = Used - CanRead(n) /\ head' \in 0 .. W - 1
      /\ Copied(Used)' = SubSeq(Copied(Used), CanRead(n) + 1, Used)
    BY <1>1, RingShrinks
<1>3. Used' <= N
    BY <1>1, <1>2, RingNumbers
<1> QED
    BY <1>2, <1>3, TakenOK

\* The ring is as it was when its cursors and bytes are.
LEMMA SameRing ==
    ASSUME RingTypeOK, UNCHANGED <<buf, head, tail>>
    PROVE  Used' = Used /\ Copied(Used)' = Copied(Used)
BY DEF Used, RingLen, Copied, Masked

\* buf_read takes from the front of the queue.
LEMMA ReadOK ==
    ASSUME RingTypeOK, NEW n \in Sizes, Read(n)
    PROVE  RingTypeOK' /\ Queue!Dequeue(n)
<1>1. n \in Nat
    BY RingAssumption
<1> QED
    BY <1>1, HeadMovesOK, TakenOK DEF Read, RingTypeOK, Queue!Dequeue

\* buf_peek looks at the front of the queue.
LEMMA PeekOK ==
    ASSUME RingTypeOK, NEW n \in Sizes, Peek(n)
    PROVE  RingTypeOK' /\ Queue!Look(n)
<1>1. n \in Nat
    BY RingAssumption
<1> QED
    BY <1>1, SameRing, TakenOK DEF Peek, RingTypeOK, Queue!Look

\* buf_discard drops from the front of the queue.
LEMMA DiscardOK ==
    ASSUME RingTypeOK, NEW n \in Sizes, Discard(n)
    PROVE  RingTypeOK' /\ Queue!Drop(n)
<1>1. n \in Nat
    BY RingAssumption
<1> QED
    BY <1>1, HeadMovesOK DEF Discard, RingTypeOK, Queue!Drop

\* A ring that is not empty by its cursors holds a byte, and it is the front one.
LEMMA FrontByte ==
    ASSUME RingTypeOK, ~IsEmpty
    PROVE  CanRead(1) = 1 /\ Copied(1) = <<buf[Masked(head, 0)]>>
<1>1. Used \in 0 .. N /\ head \in 0 .. W - 1 /\ tail \in 0 .. W - 1
    BY UsedIsDistance DEF RingTypeOK
<1>2. Used # 0
    <2> SUFFICES ASSUME Used = 0 PROVE tail = head
        BY DEF IsEmpty
    <2>0. tail - head \in Int /\ head \in Int
        BY <1>1, RingNumbers
    <2>1. (((tail - head) % W) + head) % W = ((tail - head) + head) % W
        BY <2>0, RingMod
    <2>2. (tail - head) + head = tail /\ Used + head = head
        BY <1>1, RingNumbers
    <2>3. head % W = tail % W
        BY <2>1, <2>2 DEF Used, RingLen
    <2> QED
        BY <1>1, <2>3, RingNumbers, ModSmall
<1>3. CanRead(1) = 1
    BY <1>1, <1>2, RingNumbers DEF CanRead, Lesser
<1>4. Copied(1) = <<buf[Masked(head, 0)]>>
    <2>1. /\ Copied(1) \in Seq(Bytes) /\ Len(Copied(1)) = 1
          /\ \A k \in 1 .. 1 : Copied(1)[k] = buf[Masked(head, k - 1)]
        BY CopiedIsSeq
    <2>2. Copied(1)[1] = buf[Masked(head, 0)]
        BY <2>1
    <2> QED
        BY <2>1, <2>2
<1> QED
    BY <1>3, <1>4

\* Every step keeps the cursors together and is a step of the queue.
LEMMA RingNextOK ==
    RingTypeOK /\ [RingNext]_ringVars =>
        RingTypeOK' /\ [Queue!QueueNext]_<<Copied(Used), got>>
<1> SUFFICES ASSUME RingTypeOK, [RingNext]_ringVars
             PROVE  RingTypeOK' /\ [Queue!QueueNext]_<<Copied(Used), got>>
    OBVIOUS
<1>1. ASSUME NEW s \in Inputs, Write(s)
      PROVE  RingTypeOK' /\ Queue!QueueNext
    BY <1>1, WriteOK DEF Queue!QueueNext
<1>2. ASSUME NEW n \in Sizes, Read(n) \/ Peek(n) \/ Discard(n)
      PROVE  RingTypeOK' /\ Queue!QueueNext
    BY <1>2, ReadOK, PeekOK, DiscardOK DEF Queue!QueueNext
<1>3. ASSUME NEW b \in Bytes, TypedPush(b)
      PROVE  RingTypeOK' /\ Queue!QueueNext
    BY <1>3, TypedPushOK DEF Queue!QueueNext
<1>4. CASE TypedPop
    <2>1. /\ got' = Copied(CanRead(1)) /\ head' = Moved(head, CanRead(1))
          /\ UNCHANGED <<buf, tail>>
        BY <1>4, FrontByte DEF TypedPop
    <2>2. RingTypeOK' /\ Queue!Dequeue(1)
        BY <2>1, HeadMovesOK, TakenOK DEF RingTypeOK, Queue!Dequeue
    <2> QED
        BY <2>2 DEF Queue!QueueNext
<1>5. CASE TypedPeek
    <2>1. got' = Copied(CanRead(1)) /\ UNCHANGED <<buf, head, tail>>
        BY <1>5, FrontByte DEF TypedPeek
    <2>2. RingTypeOK' /\ Queue!Look(1)
        BY <2>1, SameRing, TakenOK DEF RingTypeOK, Queue!Look
    <2> QED
        BY <2>2 DEF Queue!QueueNext
<1>6. CASE ClearRing
    <2>1. (0 - 0) % W = 0
        BY RingNumbers, ModSmall
    <2>2. Used' = 0
        BY <1>6, <2>1 DEF ClearRing, Used, RingLen
    <2>3. Copied(Used)' = <<>>
        BY <2>2 DEF Copied
    <2>4. RingTypeOK'
        BY <1>6, <2>2, RingNumbers DEF ClearRing, RingTypeOK
    <2> QED
        BY <1>6, <2>3, <2>4 DEF ClearRing, Queue!QueueNext, Queue!Reset
<1>7. CASE UNCHANGED ringVars
    BY <1>7, SameRing DEF ringVars, RingTypeOK
<1> QED
    BY <1>1, <1>2, <1>3, <1>4, <1>5, <1>6, <1>7 DEF RingNext

\* The cursors never drift more than the capacity apart, although they wrap.
THEOREM RingTypeCorrect == RingSpec => []RingTypeOK
    BY RingInitOK, RingNextOK, PTL DEF RingSpec

\* Whatever is written and read in whatever pieces, the ring is a bounded queue.
THEOREM RingImplementsByteQueue == RingSpec => ImplementsByteQueue
    BY RingInitOK, RingNextOK, RingTypeCorrect, PTL
       DEF RingSpec, ImplementsByteQueue, Queue!QueueSpec
---------------------------------------------------------------------------
(* The arena *)

ChunkType == [cap : Nat, pos : Nat]

\* A chain of chunks with at least a head, none filled beyond its capacity.
Chain(ch) ==
    /\ ch \in Seq(ChunkType) /\ ch # <<>>
    /\ \A i \in 1 .. Len(ch) : ch[i].pos <= ch[i].cap

\* The blocks of a set are in the chain, out of the next push's reach and apart.
Apart(ch, bs) ==
    /\ bs \subseteq [chunk : 1 .. Len(ch), lo : Nat, hi : Nat, scope : Nat]
    /\ \A b \in bs : Protected(ch, b)
    /\ \A b, c \in bs : b # c => ~Overlap(b, c)

\* The marks of the open scopes lie in order below the head's position, and each
\* above the head's blocks that are older than its scope: ending the scope, which
\* rewinds the head to the mark, does not give those back.
Nested(ch, sc, bs) ==
    /\ sc \in Seq(Nat)
    /\ \A i \in 1 .. Len(sc) : sc[i] <= ch[1].pos
    /\ \A i, j \in 1 .. Len(sc) : i < j => sc[i] <= sc[j]
    /\ \A b \in bs : /\ b.scope <= Len(sc)
                     /\ b.chunk = 1 => \A i \in 1 .. Len(sc) : b.scope < i => b.hi <= sc[i]

\* A block of n bytes.
Sized(b, n) == b.lo \in Nat /\ b.hi \in Nat /\ b.hi - b.lo = n

Arena(ch, sc, bs) == Chain(ch) /\ Apart(ch, bs) /\ Nested(ch, sc, bs)

\* Aligning never goes back.
LEMMA AlignUpGrows ==
    ASSUME NEW n \in Nat, NEW align \in Nat \ {0}
    PROVE  AlignUp(n, align) \in Nat /\ AlignUp(n, align) >= n
<1> DEFINE x == n + align - 1
           q == x \div align
           r == x % align
<1>1. x \in Int /\ q \in Int /\ r \in 0 .. align - 1 /\ x = align * q + r
    BY DivMod
<1>2. AlignUp(n, align) = q * align
    BY DEF AlignUp
<1> HIDE DEF q, r
<1>3. q * align = align * q /\ align * q \in Int
    BY <1>1
<1>4. align * q = x - r
    BY <1>1, <1>3
<1> QED
    BY <1>1, <1>2, <1>3, <1>4

\* The start of a chunk is aligned.
LEMMA AlignUpZero ==
    ASSUME NEW align \in Nat \ {0}
    PROVE  AlignUp(0, align) = 0
<1>1. 0 + align - 1 \in 0 .. align - 1
    OBVIOUS
<1>2. (0 + align - 1) \div align = 0
    BY <1>1
<1> QED
    BY <1>2 DEF AlignUp

\* arena_push finds a chunk with room, if need be a new one at the end.
LEMMA GrownFits ==
    ASSUME NEW ch, Chain(ch), NEW size \in Nat, NEW align \in Nat \ {0}
    PROVE  LET grown == Grown(ch, size, align) IN
           /\ Chain(grown) /\ Len(grown) >= Len(ch)
           /\ \A i \in 1 .. Len(ch) : grown[i] = ch[i]
           /\ \E i \in 1 .. Len(grown) : Fits(grown[i], size, align)
<1> DEFINE grown == Grown(ch, size, align)
           new == Chunk(Larger(2 * ch[Len(ch)].cap, AlignUp(size, align) + align))
<1>1. ch \in Seq(ChunkType) /\ Len(ch) \in Nat /\ DOMAIN ch = 1 .. Len(ch) /\ Len(ch) > 0
    BY DEF Chain
<1>2. CASE \E i \in DOMAIN ch : Fits(ch[i], size, align)
    BY <1>1, <1>2 DEF Grown
<1>3. CASE ~ \E i \in DOMAIN ch : Fits(ch[i], size, align)
    <2>1. grown = Append(ch, new)
        BY <1>3 DEF Grown
    <2>2. AlignUp(size, align) \in Nat /\ AlignUp(size, align) >= size
        BY AlignUpGrows
    <2>3. ch[Len(ch)].cap \in Nat
        <3>1. ch[Len(ch)] \in ChunkType
            BY <1>1, ElementOfSeq
        <3> QED
            BY <3>1 DEF ChunkType
    <2>4. new \in ChunkType /\ new.pos = 0 /\ new.cap >= size
        BY <2>2, <2>3 DEF Chunk, Larger, ChunkType
    <2>5. Fits(new, size, align)
        BY <2>4, AlignUpZero DEF Fits, ChunkType
    <2> HIDE DEF new, grown
    <2>6. /\ grown \in Seq(ChunkType) /\ Len(grown) = Len(ch) + 1 /\ grown # <<>>
          /\ \A i \in 1 .. Len(ch) : grown[i] = ch[i]
          /\ grown[Len(ch) + 1] = new
        BY <1>1, <2>1, <2>4, AppendProperties
    <2>7. \A i \in 1 .. Len(grown) : grown[i].pos <= grown[i].cap
        <3> SUFFICES ASSUME NEW i \in 1 .. Len(grown) PROVE grown[i].pos <= grown[i].cap
            OBVIOUS
        <3>1. i \in 1 .. Len(ch) \/ i = Len(ch) + 1
            BY <1>1, <2>6
        <3>2. new.pos <= new.cap
            BY <2>4 DEF ChunkType
        <3> QED
            BY <2>6, <3>1, <3>2 DEF Chain
    <2>8. Chain(grown)
        BY <2>6, <2>7 DEF Chain
    <2>9. Fits(grown[Len(ch) + 1], size, align) /\ Len(ch) + 1 \in 1 .. Len(grown)
        BY <1>1, <2>5, <2>6
    <2> QED
        BY <1>1, <2>6, <2>8, <2>9 DEF grown
<1> QED
    BY <1>2, <1>3

\* What arena_push returns lies behind all its chunk holds, and the chunk's
\* position behind it; no position goes back.
LEMMA PushedBlock ==
    ASSUME NEW ch, Chain(ch), NEW size \in Nat, NEW align \in Nat \ {0}
    PROVE  LET p == Push(ch, size, align) IN
           /\ Chain(p.chunks) /\ Len(p.chunks) >= Len(ch)
           /\ \A i \in 1 .. Len(ch) : p.chunks[i].pos >= ch[i].pos
           /\ p.block.chunk \in 1 .. Len(p.chunks)
           /\ p.block.lo \in Nat /\ p.block.hi = p.block.lo + size
           /\ p.block.hi = p.chunks[p.block.chunk].pos
           /\ p.block.chunk \in 1 .. Len(ch) => p.block.lo >= ch[p.block.chunk].pos
<1> DEFINE p == Push(ch, size, align)
           grown == Grown(ch, size, align)
           at == CHOOSE i \in DOMAIN grown :
                   /\ Fits(grown[i], size, align)
                   /\ \A j \in 1 .. (i - 1) : ~Fits(grown[j], size, align)
           lo == AlignUp(grown[at].pos, align)
<1>1. /\ Chain(grown) /\ Len(grown) >= Len(ch)
      /\ \A i \in 1 .. Len(ch) : grown[i] = ch[i]
      /\ \E i \in 1 .. Len(grown) : Fits(grown[i], size, align)
    BY GrownFits
<1>2. p.chunks = [grown EXCEPT ![at].pos = lo + size]
      /\ p.block = [chunk |-> at, lo |-> lo, hi |-> lo + size]
    BY DEF Push
<1> HIDE DEF p, grown
<1>3. grown \in Seq(ChunkType) /\ DOMAIN grown = 1 .. Len(grown) /\ Len(grown) \in Nat
    BY <1>1 DEF Chain
<1>4. at \in 1 .. Len(grown) /\ Fits(grown[at], size, align)
    <2> DEFINE S == {i \in 1 .. Len(grown) : Fits(grown[i], size, align)}
    <2>1. S \subseteq Nat /\ S # {}
        BY <1>1, <1>3
    <2>2. PICK x \in S : \A y \in S : ~(y < x)
        BY <2>1, FirstExists
    <2>3. \A j \in 1 .. (x - 1) : ~Fits(grown[j], size, align)
        BY <1>3, <2>2
    <2>4. \E i \in DOMAIN grown :
             /\ Fits(grown[i], size, align)
             /\ \A j \in 1 .. (i - 1) : ~Fits(grown[j], size, align)
        BY <1>3, <2>2, <2>3
    <2> QED
        BY <1>3, <2>4
<1> HIDE DEF at
<1>5. grown[at] \in ChunkType
    BY <1>3, <1>4, ElementOfSeq
<1>6. lo \in Nat /\ lo >= grown[at].pos /\ lo + size <= grown[at].cap
    BY <1>4, <1>5, AlignUpGrows DEF Fits, ChunkType
<1> HIDE DEF lo
<1>7. /\ p.chunks \in Seq(ChunkType) /\ Len(p.chunks) = Len(grown)
      /\ p.chunks[at] = [cap |-> grown[at].cap, pos |-> lo + size]
      /\ \A i \in 1 .. Len(grown) : i # at => p.chunks[i] = grown[i]
    <2> DEFINE new == [cap |-> grown[at].cap, pos |-> lo + size]
    <2>1. new \in ChunkType
        BY <1>5, <1>6 DEF ChunkType
    <2>2. [grown[at] EXCEPT !.pos = lo + size] = new
        BY <1>5 DEF ChunkType
    <2> HIDE DEF new
    <2>3. p.chunks = [grown EXCEPT ![at] = new]
        BY <1>2, <2>2
    <2>4. /\ p.chunks \in Seq(ChunkType) /\ Len(p.chunks) = Len(grown)
        BY <1>3, <1>4, <2>1, <2>3, ExceptSeq
    <2>5. p.chunks[at] = new /\ \A i \in 1 .. Len(grown) : i # at => p.chunks[i] = grown[i]
        BY <1>3, <1>4, <2>3
    <2> QED
        BY <2>4, <2>5 DEF new
<1>8. Chain(p.chunks)
    <2>1. p.chunks # <<>>
        BY <1>3, <1>4, <1>7
    <2>2. \A i \in 1 .. Len(grown) : p.chunks[i].pos <= p.chunks[i].cap
        BY <1>1, <1>6, <1>7 DEF Chain
    <2> QED
        BY <1>7, <2>1, <2>2 DEF Chain
<1>9. \A i \in 1 .. Len(ch) : p.chunks[i].pos >= ch[i].pos
    <2> SUFFICES ASSUME NEW i \in 1 .. Len(ch) PROVE p.chunks[i].pos >= ch[i].pos
        OBVIOUS
    <2>1. i \in 1 .. Len(grown) /\ grown[i] = ch[i] /\ ch[i].pos \in Nat
        <3>1. ch \in Seq(ChunkType) /\ Len(ch) \in Nat
            BY DEF Chain
        <3>2. ch[i] \in ChunkType
            BY <3>1, ElementOfSeq
        <3>3. ch[i].pos \in Nat
            BY <3>2 DEF ChunkType
        <3>4. i \in 1 .. Len(grown)
            BY <1>1, <1>3, <3>1
        <3> QED
            BY <1>1, <3>3, <3>4
    <2>2. CASE i = at
        BY <1>6, <1>7, <2>1, <2>2
    <2>3. CASE i # at
        BY <1>7, <2>1, <2>3
    <2> QED
        BY <2>2, <2>3
<1>10. /\ p.block.chunk = at /\ p.block.lo = lo /\ p.block.hi = lo + size
    BY <1>2
<1>11. p.chunks[at].pos = lo + size
    BY <1>7
<1> QED
    BY <1>1, <1>4, <1>6, <1>7, <1>8, <1>9, <1>10, <1>11 DEF p

\* A block that is pushed, in the innermost scope or with no scope open, joins
\* the others.
LEMMA PushArena ==
    ASSUME NEW ch, NEW sc, NEW bs, Arena(ch, sc, bs),
           NEW size \in Nat, NEW align \in Nat \ {0}
    PROVE  LET p == Push(ch, size, align)
               b == Owned(p.block, Len(sc))
           IN  /\ Arena(p.chunks, sc, bs \union {b})
               /\ Sized(b, size) /\ b.scope = Len(sc)
<1> DEFINE p == Push(ch, size, align)
           n == Owned(p.block, Len(sc))
<1>1. /\ Chain(p.chunks) /\ Len(p.chunks) >= Len(ch)
      /\ \A i \in 1 .. Len(ch) : p.chunks[i].pos >= ch[i].pos
      /\ p.block.chunk \in 1 .. Len(p.chunks)
      /\ p.block.lo \in Nat /\ p.block.hi = p.block.lo + size
      /\ p.block.hi = p.chunks[p.block.chunk].pos
      /\ p.block.chunk \in 1 .. Len(ch) => p.block.lo >= ch[p.block.chunk].pos
    BY PushedBlock DEF Arena
<1>2. /\ n.chunk = p.block.chunk /\ n.lo = p.block.lo /\ n.hi = p.block.hi /\ n.scope = Len(sc)
      /\ n = [chunk |-> n.chunk, lo |-> n.lo, hi |-> n.hi, scope |-> n.scope]
    BY DEF Owned
<1> DEFINE pc == p.chunks
<1> HIDE DEF p, n
<1>3. /\ Len(ch) \in Nat /\ Len(ch) > 0 /\ Len(sc) \in Nat
      /\ \A i \in 1 .. Len(ch) : ch[i] \in ChunkType /\ ch[i].pos \in Nat
    <2>1. ch \in Seq(ChunkType) /\ Len(ch) \in Nat /\ Len(ch) > 0 /\ Len(sc) \in Nat
        BY DEF Arena, Chain, Nested
    <2>2. \A i \in 1 .. Len(ch) : ch[i] \in ChunkType
        BY <2>1, ElementOfSeq
    <2> QED
        BY <2>1, <2>2 DEF ChunkType
<1>30. Len(pc) \in Nat /\ \A i \in 1 .. Len(pc) : pc[i] \in ChunkType /\ pc[i].pos \in Nat
    <2>1. pc \in Seq(ChunkType) /\ Len(pc) \in Nat
        BY <1>1 DEF Chain
    <2>2. \A i \in 1 .. Len(pc) : pc[i] \in ChunkType
        BY <2>1, ElementOfSeq
    <2> QED
        BY <2>1, <2>2 DEF ChunkType
<1>4. \A b \in bs : /\ b.chunk \in 1 .. Len(ch) /\ b.chunk \in 1 .. Len(pc)
                    /\ b.lo \in Nat /\ b.hi \in Nat /\ b.scope \in Nat
                    /\ b = [chunk |-> b.chunk, lo |-> b.lo, hi |-> b.hi, scope |-> b.scope]
                    /\ b.hi <= ch[b.chunk].pos /\ b.hi <= pc[b.chunk].pos
    <2> SUFFICES ASSUME NEW b \in bs
                 PROVE  /\ b.chunk \in 1 .. Len(ch) /\ b.chunk \in 1 .. Len(pc)
                        /\ b.lo \in Nat /\ b.hi \in Nat /\ b.scope \in Nat
                        /\ b = [chunk |-> b.chunk, lo |-> b.lo, hi |-> b.hi, scope |-> b.scope]
                        /\ b.hi <= ch[b.chunk].pos /\ b.hi <= pc[b.chunk].pos
        OBVIOUS
    <2>1. b \in [chunk : 1 .. Len(ch), lo : Nat, hi : Nat, scope : Nat] /\ b.hi <= ch[b.chunk].pos
        BY DEF Arena, Apart, Protected
    <2>2. b.chunk \in 1 .. Len(ch) /\ b.chunk \in 1 .. Len(pc) /\ b.hi \in Nat
        BY <1>1, <1>3, <1>30, <2>1
    <2>3. pc[b.chunk].pos >= ch[b.chunk].pos /\ pc[b.chunk].pos \in Nat /\ ch[b.chunk].pos \in Nat
        BY <1>1, <1>3, <1>30, <2>2
    <2> QED
        BY <2>1, <2>2, <2>3
<1>5. n \in [chunk : 1 .. Len(pc), lo : Nat, hi : Nat, scope : Nat] /\ n.hi = pc[n.chunk].pos
    BY <1>1, <1>2, <1>3
<1>6. \A b \in bs : ~Overlap(b, n) /\ ~Overlap(n, b)
    <2> SUFFICES ASSUME NEW b \in bs PROVE ~Overlap(b, n) /\ ~Overlap(n, b)
        OBVIOUS
    <2>1. b.chunk \in 1 .. Len(ch) /\ b.hi \in Nat /\ b.hi <= ch[b.chunk].pos
        BY <1>4
    <2>2. n.chunk = b.chunk => n.lo \in Nat /\ ch[b.chunk].pos \in Nat /\ n.lo >= ch[b.chunk].pos
        BY <1>1, <1>2, <1>3, <2>1
    <2>3. n.chunk = b.chunk => ~(n.lo < b.hi)
        BY <2>1, <2>2
    <2> QED
        BY <2>3 DEF Overlap
<1>7. Apart(pc, bs \union {n})
    <2>1. bs \union {n} \subseteq [chunk : 1 .. Len(pc), lo : Nat, hi : Nat, scope : Nat]
        BY <1>4, <1>5
    <2>2. \A b \in bs \union {n} : Protected(pc, b)
        BY <1>4, <1>5, <1>30 DEF Protected
    <2>3. \A b, c \in bs \union {n} : b # c => ~Overlap(b, c)
        BY <1>6 DEF Arena, Apart
    <2> QED
        BY <2>1, <2>2, <2>3 DEF Apart
<1>8. Nested(pc, sc, bs \union {n})
    <2>1. sc \in Seq(Nat) /\ \A i \in 1 .. Len(sc) : sc[i] <= pc[1].pos
        <3>1. sc \in Seq(Nat) /\ \A i \in 1 .. Len(sc) : sc[i] <= ch[1].pos /\ sc[i] \in Nat
            BY ElementOfSeq DEF Arena, Nested
        <3>2. 1 \in 1 .. Len(ch) /\ 1 \in 1 .. Len(pc)
            BY <1>1, <1>3, <1>30
        <3>3. pc[1].pos >= ch[1].pos /\ pc[1].pos \in Nat /\ ch[1].pos \in Nat
            BY <1>1, <1>3, <1>30, <3>2
        <3> QED
            BY <3>1, <3>3
    <2>2. \A i \in 1 .. Len(sc) : ~(n.scope < i)
        BY <1>2, <1>3
    <2>3. n.scope <= Len(sc)
        BY <1>2, <1>3
    <2> QED
        BY <2>1, <2>2, <2>3 DEF Arena, Nested
<1>9. Sized(n, size)
    <2>1. n.lo \in Nat /\ n.hi = n.lo + size
        BY <1>1, <1>2
    <2>2. \A x \in Nat : x + size \in Nat /\ (x + size) - x = size
        OBVIOUS
    <2> QED
        BY <2>1, <2>2, Zenon DEF Sized
<1> QED
    BY <1>1, <1>2, <1>7, <1>8, <1>9 DEF Arena, p, n

\* What the innermost scopes leave of the marks.
LEMMA Front ==
    ASSUME NEW S, NEW s \in Seq(S), NEW k \in 0 .. Len(s)
    PROVE  /\ SubSeq(s, 1, k) \in Seq(S) /\ Len(SubSeq(s, 1, k)) = k
           /\ \A i \in 1 .. k : SubSeq(s, 1, k)[i] = s[i] /\ i \in 1 .. Len(s)
<1>1. Len(s) \in Nat /\ k \in Nat /\ k <= Len(s)
    OBVIOUS
<1>2. \A i \in 1 .. k : i \in 1 .. Len(s) /\ 1 + i - 1 = i
    BY <1>1
<1>3. \A i \in 1 .. k : s[i] \in S
    BY <1>2, ElementOfSeq
<1> DEFINE t == SubSeq(s, 1, k)
<1>4. /\ t \in Seq(S)
      /\ Len(t) = IF 1 <= k THEN k - 1 + 1 ELSE 0
      /\ \A i \in 1 .. k - 1 + 1 : t[i] = s[1 + i - 1]
    BY <1>1, <1>3, SubSeqProperties
<1> HIDE DEF t
<1>5. Len(t) = k
    BY <1>1, <1>4
<1>6. k - 1 + 1 = k
    BY <1>1
<1>7. \A i \in 1 .. k : t[i] = s[i]
    BY <1>2, <1>4, <1>6
<1> QED
    BY <1>2, <1>4, <1>5, <1>7 DEF t

\* scratch_begin marks where the head is.
LEMMA BeginArena ==
    ASSUME NEW ch, NEW sc, NEW bs, Arena(ch, sc, bs)
    PROVE  Arena(ch, Append(sc, ch[1].pos), bs)
<1> DEFINE m == ch[1].pos
           ns == Append(sc, m)
<1>1. sc \in Seq(Nat) /\ Len(sc) \in Nat
    BY DEF Arena, Nested
<1>2. m \in Nat
    <2>1. ch \in Seq(ChunkType) /\ 1 \in 1 .. Len(ch)
        BY DEF Arena, Chain
    <2>2. ch[1] \in ChunkType
        BY <2>1, ElementOfSeq
    <2> QED
        BY <2>2 DEF ChunkType
<1> HIDE DEF m
<1>3. /\ ns \in Seq(Nat) /\ Len(ns) = Len(sc) + 1
      /\ \A i \in 1 .. Len(sc) : ns[i] = sc[i] /\ sc[i] \in Nat
      /\ ns[Len(sc) + 1] = m
    BY <1>1, <1>2, AppendProperties, ElementOfSeq
<1> HIDE DEF ns
<1>4. /\ \A i \in 1 .. Len(sc) : sc[i] <= m
      /\ \A i, j \in 1 .. Len(sc) : i < j => sc[i] <= sc[j]
      /\ \A b \in bs : /\ b.scope <= Len(sc) /\ b.scope \in Nat
                       /\ b.chunk = 1 =>
                            /\ b.hi <= m
                            /\ \A i \in 1 .. Len(sc) : b.scope < i => b.hi <= sc[i]
    BY DEF Arena, Nested, Apart, Protected, m
<1>5. \A i \in 1 .. Len(ns) : i \in 1 .. Len(sc) \/ i = Len(sc) + 1
    BY <1>1, <1>3
<1>6. \A i \in 1 .. Len(ns) : ns[i] <= m
    BY <1>2, <1>3, <1>4, <1>5
<1>7. ASSUME NEW i \in 1 .. Len(ns), NEW j \in 1 .. Len(ns), i < j PROVE ns[i] <= ns[j]
    <2>1. i \in 1 .. Len(sc)
        BY <1>1, <1>3, <1>7
    <2>2. CASE j \in 1 .. Len(sc)
        BY <1>3, <1>4, <1>7, <2>1, <2>2
    <2>3. CASE j = Len(sc) + 1
        BY <1>3, <1>4, <2>1, <2>3
    <2> QED
        BY <1>5, <2>2, <2>3
<1>8. ASSUME NEW b \in bs
      PROVE  /\ b.scope <= Len(ns)
             /\ b.chunk = 1 => \A i \in 1 .. Len(ns) : b.scope < i => b.hi <= ns[i]
    BY <1>1, <1>3, <1>4, <1>5
<1> QED
    BY <1>3, <1>6, <1>7, <1>8 DEF Arena, Nested, m, ns

\* Ending a scope frees what was pushed in it; what is older stays protected.
\* The scope can begin again at its mark, or be closed for good.
LEMMA EndArena ==
    ASSUME NEW ch, NEW sc, NEW bs, Arena(ch, sc, bs), Len(sc) > 0
    PROVE  LET popped == PopTo(ch, sc[Len(sc)])
               kept == Outside(bs, Len(sc) - 1)
           IN  /\ Arena(popped, sc, kept)
               /\ Arena(popped, SubSeq(sc, 1, Len(sc) - 1), kept)
<1> DEFINE m == sc[Len(sc)]
           pc == PopTo(ch, m)
           kept == Outside(bs, Len(sc) - 1)
           ns == SubSeq(sc, 1, Len(sc) - 1)
<1>1. /\ sc \in Seq(Nat) /\ Len(sc) \in Nat \ {0} /\ m \in Nat
      /\ \A i \in 1 .. Len(sc) : sc[i] \in Nat /\ sc[i] <= m /\ sc[i] <= ch[1].pos
      /\ \A i, j \in 1 .. Len(sc) : i < j => sc[i] <= sc[j]
    <2>1. sc \in Seq(Nat) /\ Len(sc) \in Nat \ {0}
        BY DEF Arena, Nested
    <2>2. \A i \in 1 .. Len(sc) : sc[i] \in Nat
        BY <2>1, ElementOfSeq
    <2>3. Len(sc) \in 1 .. Len(sc)
        BY <2>1
    <2>4. \A i \in 1 .. Len(sc) : i = Len(sc) \/ i < Len(sc)
        BY <2>1
    <2> QED
        BY <2>1, <2>2, <2>3, <2>4 DEF Arena, Nested
<1>2. /\ ch \in Seq(ChunkType) /\ Len(ch) \in Nat /\ 1 \in 1 .. Len(ch) /\ ch[1] \in ChunkType
      /\ DOMAIN ch = 1 .. Len(ch) /\ ch # <<>>
      /\ \A i \in 1 .. Len(ch) : ch[i].pos <= ch[i].cap
    <2>1. ch \in Seq(ChunkType) /\ Len(ch) \in Nat /\ 1 \in 1 .. Len(ch)
        BY DEF Arena, Chain
    <2> QED
        BY <2>1, ElementOfSeq DEF Arena, Chain
<1> HIDE DEF m
<1>3. /\ pc \in Seq(ChunkType) /\ Len(pc) = Len(ch)
      /\ pc[1] = [cap |-> ch[1].cap, pos |-> m]
      /\ \A i \in 1 .. Len(ch) : i # 1 => pc[i] = ch[i]
    <2> DEFINE new == [cap |-> ch[1].cap, pos |-> m]
    <2>1. new \in ChunkType /\ [ch[1] EXCEPT !.pos = m] = new
        BY <1>1, <1>2 DEF ChunkType
    <2> HIDE DEF new
    <2>2. pc = [ch EXCEPT ![1] = new]
        BY <2>1 DEF PopTo
    <2>3. pc \in Seq(ChunkType) /\ Len(pc) = Len(ch)
        BY <1>2, <2>1, <2>2, ExceptSeq
    <2>4. pc[1] = new /\ \A i \in 1 .. Len(ch) : i # 1 => pc[i] = ch[i]
        BY <1>2, <2>2
    <2> QED
        BY <2>3, <2>4 DEF new
<1> HIDE DEF pc
<1>4. m <= ch[1].pos /\ ch[1].pos \in Nat /\ ch[1].cap \in Nat /\ ch[1].pos <= ch[1].cap
    <2>1. Len(sc) \in 1 .. Len(sc)
        BY <1>1
    <2> QED
        BY <1>1, <1>2, <2>1 DEF ChunkType, m
<1>5. Chain(pc)
    <2>1. pc # <<>>
        BY <1>2, <1>3
    <2>2. \A i \in 1 .. Len(pc) : pc[i].pos <= pc[i].cap
        <3> SUFFICES ASSUME NEW i \in 1 .. Len(pc) PROVE pc[i].pos <= pc[i].cap
            OBVIOUS
        <3>1. CASE i = 1
            <4>1. pc[1].pos = m /\ pc[1].cap = ch[1].cap
                BY <1>3
            <4> QED
                <5>1. m \in Nat
                    BY <1>1
                <5> QED
                    BY <1>4, <3>1, <4>1, <5>1
        <3>2. CASE i # 1
            <4>1. i \in 1 .. Len(ch) /\ pc[i] = ch[i]
                BY <1>3, <3>2
            <4> QED
                BY <1>2, <4>1
        <3> QED
            BY <3>1, <3>2
    <2> QED
        BY <1>3, <2>1, <2>2 DEF Chain
<1>6. kept \subseteq bs /\ \A b \in kept : b.scope <= Len(sc) - 1
    BY DEF Outside
<1> HIDE DEF kept
<1>7. \A b \in bs : /\ b \in [chunk : 1 .. Len(ch), lo : Nat, hi : Nat, scope : Nat]
                    /\ b.hi <= ch[b.chunk].pos
                    /\ b.chunk = 1 => \A i \in 1 .. Len(sc) : b.scope < i => b.hi <= sc[i]
    BY DEF Arena, Apart, Nested, Protected
<1>8. ASSUME NEW b \in kept PROVE b.hi <= pc[b.chunk].pos
    <2>1. CASE b.chunk = 1
        <3>1. Len(sc) \in 1 .. Len(sc) /\ b.scope < Len(sc)
            BY <1>1, <1>6, <1>7
        <3>2. b.hi <= m
            BY <1>6, <1>7, <2>1, <3>1 DEF m
        <3> QED
            BY <1>3, <2>1, <3>2
    <2>2. CASE b.chunk # 1
        BY <1>3, <1>6, <1>7, <2>2
    <2> QED
        BY <2>1, <2>2
<1>9. Apart(pc, kept)
    BY <1>3, <1>6, <1>7, <1>8 DEF Arena, Apart, Protected
<1>10. Nested(pc, sc, kept)
    <2>1. \A i \in 1 .. Len(sc) : sc[i] <= pc[1].pos
        BY <1>1, <1>3
    <2> QED
        BY <1>6, <2>1 DEF Arena, Nested
<1>11. Nested(pc, ns, kept)
    <2>1. /\ ns \in Seq(Nat) /\ Len(ns) = Len(sc) - 1
          /\ \A i \in 1 .. Len(ns) : ns[i] = sc[i] /\ i \in 1 .. Len(sc)
        <3>1. Len(sc) - 1 \in 0 .. Len(sc)
            BY <1>1
        <3> QED
            BY <1>1, <3>1, Front
    <2> HIDE DEF ns
    <2>20. \A i \in 1 .. Len(ns) : ns[i] <= pc[1].pos
        <3>1. \A i \in 1 .. Len(sc) : sc[i] <= pc[1].pos
            BY <1>1, <1>3
        <3> QED
            BY <2>1, <3>1
    <2>21. \A i, j \in 1 .. Len(ns) : i < j => ns[i] <= ns[j]
        BY <1>1, <2>1
    <2>2. /\ \A i \in 1 .. Len(ns) : ns[i] <= pc[1].pos
          /\ \A i, j \in 1 .. Len(ns) : i < j => ns[i] <= ns[j]
        BY <2>20, <2>21
    <2>3. \A b \in kept : /\ b.scope <= Len(ns)
                          /\ b.chunk = 1 => \A i \in 1 .. Len(ns) : b.scope < i => b.hi <= ns[i]
        BY <1>6, <1>7, <2>1
    <2> QED
        BY <2>1, <2>2, <2>3 DEF Nested
<1> QED
    BY <1>5, <1>9, <1>10, <1>11 DEF Arena, m, pc, kept

\* Blocks that are given up leave the others as they were.
LEMMA FewerBlocks ==
    ASSUME NEW ch, NEW sc, NEW bs, Arena(ch, sc, bs), NEW cs \in SUBSET bs
    PROVE  Arena(ch, sc, cs)
<1>1. Apart(ch, cs)
    BY DEF Arena, Apart
<1>2. Nested(ch, sc, cs)
    BY DEF Arena, Nested
<1> QED
    BY <1>1, <1>2 DEF Arena

\* A block as it is when its scope is closed without giving anything back.
Promoted(b, k) == [b EXCEPT !.scope = IF @ >= k THEN k - 1 ELSE @]

\* A scope that is abandoned leaves its blocks to the enclosing one.
LEMMA MergeArena ==
    ASSUME NEW ch, NEW sc, NEW bs, Arena(ch, sc, bs), Len(sc) > 0
    PROVE  Arena(ch, SubSeq(sc, 1, Len(sc) - 1), {Promoted(b, Len(sc)) : b \in bs})
<1> DEFINE k == Len(sc)
           ns == SubSeq(sc, 1, k - 1)
           nb == {Promoted(b, k) : b \in bs}
<1>1. /\ sc \in Seq(Nat) /\ k \in Nat \ {0}
      /\ \A i \in 1 .. k : sc[i] \in Nat /\ sc[i] <= ch[1].pos
      /\ \A i, j \in 1 .. k : i < j => sc[i] <= sc[j]
    <2>1. sc \in Seq(Nat) /\ k \in Nat \ {0}
        BY DEF Arena, Nested
    <2>2. \A i \in 1 .. k : sc[i] \in Nat
        BY <2>1, ElementOfSeq
    <2> QED
        BY <2>1, <2>2 DEF Arena, Nested
<1>2. /\ ns \in Seq(Nat) /\ Len(ns) = k - 1
      /\ \A i \in 1 .. k - 1 : ns[i] = sc[i] /\ i \in 1 .. k
    <2>1. k - 1 \in 0 .. k
        BY <1>1
    <2> QED
        BY <1>1, <2>1, Front
<1> HIDE DEF ns, k
<1>3. ASSUME NEW b \in bs
      PROVE  LET n == Promoted(b, k) IN
             /\ n \in [chunk : 1 .. Len(ch), lo : Nat, hi : Nat, scope : Nat]
             /\ n.chunk = b.chunk /\ n.lo = b.lo /\ n.hi = b.hi
             /\ n.scope = IF b.scope >= k THEN k - 1 ELSE b.scope
    <2>1. b \in [chunk : 1 .. Len(ch), lo : Nat, hi : Nat, scope : Nat]
        BY DEF Arena, Apart
    <2> DEFINE s == IF b.scope >= k THEN k - 1 ELSE b.scope
    <2>2. s \in Nat
        BY <1>1, <2>1
    <2>3. Promoted(b, k) = [b EXCEPT !.scope = s]
        BY DEF Promoted
    <2> HIDE DEF s
    <2>4. Promoted(b, k) = [chunk |-> b.chunk, lo |-> b.lo, hi |-> b.hi, scope |-> s]
        BY <2>1, <2>3
    <2> QED
        BY <2>1, <2>2, <2>4 DEF s
<1>4. \A n \in nb : \E b \in bs : n = Promoted(b, k)
    OBVIOUS
<1> HIDE DEF nb
<1>5. Apart(ch, nb)
    <2>1. nb \subseteq [chunk : 1 .. Len(ch), lo : Nat, hi : Nat, scope : Nat]
        BY <1>3, <1>4
    <2>2. \A n \in nb : Protected(ch, n)
        BY <1>3, <1>4 DEF Arena, Apart, Protected
    <2>3. ASSUME NEW n \in nb, NEW o \in nb, n # o PROVE ~Overlap(n, o)
        <3>1. PICK b \in bs : n = Promoted(b, k)
            BY <1>4
        <3>2. PICK c \in bs : o = Promoted(c, k)
            BY <1>4
        <3>3. ~Overlap(b, c)
            BY <2>3, <3>1, <3>2 DEF Arena, Apart
        <3> QED
            BY <1>3, <3>1, <3>2, <3>3 DEF Overlap
    <2> QED
        BY <2>1, <2>2, <2>3 DEF Apart
<1>6. Nested(ch, ns, nb)
    <2>1. \A i \in 1 .. Len(ns) : ns[i] <= ch[1].pos
        BY <1>1, <1>2
    <2>2. \A i, j \in 1 .. Len(ns) : i < j => ns[i] <= ns[j]
        BY <1>1, <1>2
    <2>3. ASSUME NEW n \in nb
          PROVE  /\ n.scope <= Len(ns)
                 /\ n.chunk = 1 => \A i \in 1 .. Len(ns) : n.scope < i => n.hi <= ns[i]
        <3>1. PICK b \in bs : n = Promoted(b, k)
            BY <1>4
        <3>2. /\ n.chunk = b.chunk /\ n.hi = b.hi
              /\ n.scope = IF b.scope >= k THEN k - 1 ELSE b.scope
            BY <1>3, <3>1
        <3>3. /\ b.scope <= k /\ b.scope \in Nat
              /\ b.chunk = 1 => \A i \in 1 .. k : b.scope < i => b.hi <= sc[i]
            BY DEF Arena, Apart, Nested, k
        <3>4. n.scope <= Len(ns)
            BY <1>1, <1>2, <3>2, <3>3
        <3>5. ASSUME n.chunk = 1, NEW i \in 1 .. Len(ns), n.scope < i PROVE n.hi <= ns[i]
            <4>1. b.scope < i
                BY <1>1, <1>2, <3>2, <3>3, <3>5
            <4> QED
                BY <1>2, <3>2, <3>3, <3>5, <4>1
        <3> QED
            BY <3>4, <3>5
    <2> QED
        BY <1>2, <2>1, <2>2, <2>3 DEF Nested
<1> QED
    BY <1>5, <1>6 DEF Arena, k, ns, nb
-----------------------------------------------------------------------------
(* The builder *)

\* A builder: its buffer is a live block of its own scope, with room for a header
\* and cap characters of which len are in use.
Built(s, sc, bs) ==
    /\ s = Builder(s.buf, s.scope, s.len, s.cap)
    /\ s.len \in Nat /\ s.cap \in Nat \ {0} /\ s.len <= s.cap
    /\ s.scope \in 1 .. Len(sc)
    /\ s.buf \in bs /\ s.buf.scope = s.scope /\ Sized(s.buf, SliceHdr + s.cap)

\* The inductive invariant of an arena and its clients.
MemInv ==
    /\ Arena(chunks, scopes, blocks)
    /\ Len(scopes) <= MaxScopes
    /\ sb # NoBuilder => Built(sb, scopes, blocks)

\* What a builder starts with in a scope just begun.
LEMMA BuiltFresh ==
    ASSUME NEW b, NEW sc, NEW bs, NEW cap \in Nat \ {0}, NEW len \in Nat, len <= cap,
           Len(sc) \in Nat \ {0}, b \in bs, b.scope = Len(sc), Sized(b, SliceHdr + cap),
           NEW s, s = Builder(b, Len(sc), len, cap)
    PROVE  Built(s, sc, bs)
BY DEF Built, Builder

\* arena_push.
LEMMA AllocKeeps ==
    ASSUME MemInv, NEW size \in PushSizes, NEW align \in Aligns, Alloc(size, align)
    PROVE  MemInv'
<1>1. size \in Nat /\ align \in Nat \ {0}
    BY MemoryAssumption
<1>2. Arena(chunks', scopes, blocks')
    BY <1>1, PushArena DEF MemInv, Alloc
<1>3. blocks \subseteq blocks' /\ scopes' = scopes /\ sb' = sb
    BY DEF Alloc
<1> QED
    BY <1>2, <1>3 DEF MemInv, Built

\* scratch_begin.
LEMMA ScratchBeginKeeps ==
    ASSUME MemInv, ScratchBegin
    PROVE  MemInv'
<1>1. Arena(chunks', scopes', blocks')
    BY BeginArena DEF MemInv, ScratchBegin
<1>2. scopes \in Seq(Nat) /\ chunks[1].pos \in Nat
    <2>1. chunks \in Seq(ChunkType) /\ 1 \in 1 .. Len(chunks)
        BY DEF MemInv, Arena, Chain
    <2>2. chunks[1] \in ChunkType
        BY <2>1, ElementOfSeq
    <2> QED
        BY <2>2 DEF MemInv, Arena, Nested, ChunkType
<1>3. Len(scopes') = Len(scopes) + 1 /\ Len(scopes) \in Nat
    BY <1>2, AppendProperties DEF ScratchBegin
<1>4. Len(scopes') <= MaxScopes
    BY <1>3, MemoryAssumption DEF ScratchBegin
<1>5. sb' # NoBuilder => Built(sb', scopes', blocks')
    BY <1>3 DEF MemInv, ScratchBegin, Built
<1> QED
    BY <1>1, <1>4, <1>5 DEF MemInv

\* scratch_end.
LEMMA ScratchEndKeeps ==
    ASSUME MemInv, ScratchEnd
    PROVE  MemInv'
<1>1. scopes \in Seq(Nat) /\ Len(scopes) \in Nat
    BY DEF MemInv, Arena, Nested
<1>2. Len(scopes) > 0
    BY <1>1 DEF ScratchEnd, BuilderScope, MemInv, Built
<1>3. Arena(chunks', scopes', blocks')
    BY <1>2, EndArena DEF MemInv, ScratchEnd, Mark
<1>4. Len(scopes) - 1 \in 0 .. Len(scopes)
    BY <1>1, <1>2
<1>5. Len(scopes') = Len(scopes) - 1
    <2>1. Len(SubSeq(scopes, 1, Len(scopes) - 1)) = Len(scopes) - 1
        BY <1>1, <1>4, Front, Zenon
    <2>2. scopes' = SubSeq(scopes, 1, Len(scopes) - 1)
        BY DEF ScratchEnd
    <2> QED
        BY <2>1, <2>2, Zenon
<1>6. Len(scopes') <= MaxScopes
    BY <1>1, <1>5, MemoryAssumption DEF MemInv
<1>7. ASSUME sb # NoBuilder PROVE Built(sb, scopes', blocks')
    <2>1. sb.scope < Len(scopes) /\ Built(sb, scopes, blocks)
        BY <1>7 DEF ScratchEnd, BuilderScope, MemInv
    <2>2. sb.scope \in 1 .. Len(scopes') /\ sb.scope <= Len(scopes) - 1
        BY <1>1, <1>5, <2>1 DEF Built
    <2>3. sb.buf \in blocks'
        BY <2>1, <2>2 DEF Built, ScratchEnd, Outside
    <2> QED
        BY <2>1, <2>2, <2>3 DEF Built
<1> QED
    BY <1>3, <1>6, <1>7 DEF MemInv, ScratchEnd

\* A fresh chain, as the arena has it at first and after a reset.
LEMMA EmptyArena ==
    ASSUME NEW ch \in Seq(ChunkType), ch # <<>>, \A i \in 1 .. Len(ch) : ch[i].pos = 0
    PROVE  Arena(ch, <<>>, {})
<1>1. Chain(ch)
    <2>1. ASSUME NEW i \in 1 .. Len(ch) PROVE ch[i].pos <= ch[i].cap
        <3>1. ch[i] \in ChunkType
            BY ElementOfSeq
        <3>2. ch[i].cap \in Nat
            BY <3>1 DEF ChunkType
        <3>3. ch[i].pos = 0
            OBVIOUS
        <3> QED
            BY <3>2, <3>3
    <2> QED
        BY <2>1 DEF Chain
<1>2. Apart(ch, {})
    BY DEF Apart
<1>3. Nested(ch, <<>>, {})
    BY DEF Nested
<1> QED
    BY <1>1, <1>2, <1>3 DEF Arena

\* arena_reset.
LEMMA ResetKeeps ==
    ASSUME MemInv, Reset
    PROVE  MemInv'
<1>1. /\ chunks \in Seq(ChunkType) /\ Len(chunks) \in Nat \ {0}
      /\ DOMAIN chunks = 1 .. Len(chunks)
    BY DEF MemInv, Arena, Chain
<1>2. \A i \in 1 .. Len(chunks) : Chunk(chunks[i].cap) \in ChunkType
    <2>1. \A i \in 1 .. Len(chunks) : chunks[i] \in ChunkType
        BY <1>1, ElementOfSeq
    <2> QED
        BY <2>1 DEF Chunk, ChunkType
<1>3. chunks' = [i \in 1 .. Len(chunks) |-> Chunk(chunks[i].cap)]
    BY <1>1 DEF Reset, Rewound
<1>4. /\ chunks' \in Seq(ChunkType) /\ Len(chunks') = Len(chunks)
      /\ \A i \in 1 .. Len(chunks) : chunks'[i] = Chunk(chunks[i].cap)
    <2>1. chunks' \in [1 .. Len(chunks) -> ChunkType]
        BY <1>2, <1>3
    <2>2. chunks' \in Seq(ChunkType) /\ Len(chunks') = Len(chunks)
        BY <1>1, <2>1, FunctionIsSeq
    <2> QED
        BY <1>3, <2>2
<1>5. chunks' # <<>> /\ \A i \in 1 .. Len(chunks') : chunks'[i].pos = 0
    <2>1. ASSUME NEW i \in 1 .. Len(chunks') PROVE chunks'[i].pos = 0
        <3>1. chunks'[i] = Chunk(chunks[i].cap)
            BY <1>4
        <3> QED
            BY <3>1 DEF Chunk
    <2>2. Len(chunks') # 0
        BY <1>1, <1>4
    <2> QED
        BY <2>1, <2>2
<1>6. Arena(chunks', scopes', blocks')
    BY <1>4, <1>5, EmptyArena DEF Reset
<1> QED
    BY <1>6, MemoryAssumption DEF Reset, MemInv

\* A slice that is pushed joins the other blocks.
LEMMA PushSlice ==
    ASSUME NEW ch, NEW sc, NEW bs, Arena(ch, sc, bs), NEW cap \in Nat
    PROVE  LET p == SliceMake(ch, cap)
               b == Owned(p.block, Len(sc))
           IN  /\ Arena(p.chunks, sc, bs \union {b})
               /\ Sized(b, SliceHdr + cap) /\ b.scope = Len(sc)
<1> DEFINE size == SliceHdr + cap
<1>1. size \in Nat /\ SliceAlign \in Nat \ {0}
    BY MemoryAssumption
<1>2. SliceMake(ch, cap) = Push(ch, size, SliceAlign)
    BY DEF SliceMake
<1> HIDE DEF size
<1> DEFINE p == Push(ch, size, SliceAlign)
           b == Owned(p.block, Len(sc))
<1>3. Arena(p.chunks, sc, bs \union {b})
    BY <1>1, PushArena
<1>4. Sized(b, size)
    BY <1>1, PushArena
<1>5. b.scope = Len(sc)
    BY <1>1, PushArena
<1> QED
    BY <1>2, <1>3, <1>4, <1>5 DEF size

\* sb_make.
LEMMA SbMakeKeeps ==
    ASSUME MemInv, SbMake(SbInitial)
    PROVE  MemInv'
<1> DEFINE ns == Append(scopes, chunks[1].pos)
           slice == Owned(SliceMake(chunks, SbInitial).block, Len(scopes) + 1)
<1>1. scopes \in Seq(Nat) /\ Len(scopes) \in Nat /\ chunks[1].pos \in Nat
    <2>1. chunks \in Seq(ChunkType) /\ 1 \in 1 .. Len(chunks)
        BY DEF MemInv, Arena, Chain
    <2>2. chunks[1] \in ChunkType
        BY <2>1, ElementOfSeq
    <2> QED
        BY <2>2 DEF MemInv, Arena, Nested, ChunkType
<1>2. Len(ns) = Len(scopes) + 1
    BY <1>1, AppendProperties
<1>3. Arena(chunks, ns, blocks)
    BY BeginArena DEF MemInv
<1>4. /\ scopes' = ns /\ chunks' = SliceMake(chunks, SbInitial).chunks
      /\ blocks' = blocks \union {slice}
      /\ sb' = Builder(slice, Len(scopes) + 1, 0, SbInitial)
      /\ Len(scopes) < MaxScopes
    BY DEF SbMake
<1> HIDE DEF ns
<1>5. /\ Arena(chunks', ns, blocks')
      /\ Sized(slice, SliceHdr + SbInitial) /\ slice.scope = Len(ns)
    BY <1>2, <1>3, <1>4, PushSlice, MemoryAssumption
<1> HIDE DEF slice
<1>60. /\ Len(ns) \in Nat \ {0} /\ slice \in blocks' /\ 0 <= SbInitial
       /\ 0 \in Nat /\ SbInitial \in Nat \ {0}
       /\ sb' = Builder(slice, Len(ns), 0, SbInitial)
    BY <1>1, <1>2, <1>4, MemoryAssumption
<1>6. Built(sb', ns, blocks')
    BY <1>5, <1>60, BuiltFresh
<1>7. Len(scopes') <= MaxScopes
    BY <1>1, <1>2, <1>4, MemoryAssumption
<1> QED
    BY <1>4, <1>5, <1>6, <1>7 DEF MemInv

\* sb_write_char, with room and without.
LEMMA SbWriteKeeps ==
    ASSUME MemInv, SbWrite
    PROVE  MemInv'
<1>1. /\ Built(sb, scopes, blocks) /\ sb.scope = Len(scopes) /\ scopes' = scopes
      /\ sb.len \in Nat /\ sb.cap \in Nat \ {0} /\ sb.len <= sb.cap
      /\ Len(scopes) \in Nat \ {0}
    <2>1. Built(sb, scopes, blocks) /\ sb.scope = Len(scopes) /\ scopes' = scopes
        BY DEF SbWrite, BuilderInUse, MemInv
    <2> QED
        BY <2>1 DEF Built
<1>2. CASE sb.len < sb.cap /\ sb' = [sb EXCEPT !.len = @ + 1] /\ UNCHANGED <<chunks, blocks>>
    <2>1. sb' = Builder(sb.buf, sb.scope, sb.len + 1, sb.cap)
        BY <1>1, <1>2 DEF Built, Builder
    <2>2. sb.len + 1 \in Nat /\ sb.len + 1 <= sb.cap
        BY <1>1, <1>2
    <2>3. /\ Sized(sb.buf, SliceHdr + sb.cap) /\ sb.buf \in blocks' /\ sb.buf.scope = Len(scopes)
          /\ sb' = Builder(sb.buf, Len(scopes), sb.len + 1, sb.cap)
        BY <1>1, <1>2, <2>1 DEF Built
    <2>4. Built(sb', scopes, blocks')
        BY <1>1, <2>2, <2>3, BuiltFresh
    <2> QED
        BY <1>1, <1>2, <2>4 DEF MemInv
<1>3. CASE sb.len >= sb.cap
    <2> DEFINE cap == 2 * sb.cap
               slice == Owned(SliceMake(chunks, cap).block, Len(scopes))
               rest == blocks \ {sb.buf}
    <2>1. /\ chunks' = SliceMake(chunks, cap).chunks
          /\ blocks' = rest \union {slice}
          /\ sb' = Builder(slice, Len(scopes), sb.len + 1, cap)
        BY <1>1, <1>3 DEF SbWrite
    <2>2. cap \in Nat \ {0} /\ sb.len + 1 \in Nat /\ sb.len + 1 <= cap
        BY <1>1, <1>3
    <2>3. Arena(chunks, scopes, rest)
        BY FewerBlocks DEF MemInv
    <2> HIDE DEF cap, rest
    <2>4. /\ Arena(chunks', scopes, blocks')
          /\ Sized(slice, SliceHdr + cap) /\ slice.scope = Len(scopes)
        BY <2>1, <2>2, <2>3, PushSlice
    <2> HIDE DEF slice
    <2>5. Built(sb', scopes', blocks')
        BY <1>1, <2>1, <2>2, <2>4, BuiltFresh
    <2> QED
        BY <1>1, <2>4, <2>5 DEF MemInv
<1> QED
    BY <1>2, <1>3 DEF SbWrite

\* sb_reset and the first half of sb_to_cstr: the scope has ended, begun again at
\* its mark, and holds a new empty buffer.
LEMMA RestartedArena ==
    ASSUME MemInv, BuilderInUse
    PROVE  LET kept == Outside(blocks, sb.scope - 1)
               slice == Owned(Restarted.block, sb.scope)
           IN  /\ sb.scope = Len(scopes) /\ Len(scopes) \in Nat \ {0}
               /\ Arena(Restarted.chunks, scopes, kept \union {slice})
               /\ Sized(slice, SliceHdr + SbInitial) /\ slice.scope = sb.scope
<1>1. sb.scope = Len(scopes) /\ Len(scopes) \in Nat \ {0}
    BY DEF BuilderInUse, MemInv, Built
<1> DEFINE pc == PopTo(chunks, Mark)
           kept == Outside(blocks, sb.scope - 1)
<1>2. Arena(pc, scopes, kept)
    BY <1>1, EndArena DEF MemInv, Mark
<1> HIDE DEF pc, kept
<1>3. Restarted = SliceMake(pc, SbInitial)
    BY DEF Restarted, pc
<1> DEFINE made == SliceMake(pc, SbInitial)
           slice == Owned(made.block, Len(scopes))
<1>4. /\ Arena(made.chunks, scopes, kept \union {slice})
      /\ Sized(slice, SliceHdr + SbInitial) /\ slice.scope = Len(scopes)
    BY <1>2, PushSlice, MemoryAssumption
<1> QED
    BY <1>1, <1>3, <1>4 DEF kept

\* sb_reset.
LEMMA SbResetKeeps ==
    ASSUME MemInv, SbReset
    PROVE  MemInv'
<1> DEFINE slice == Owned(Restarted.block, sb.scope)
<1>1. /\ BuilderInUse /\ chunks' = Restarted.chunks /\ scopes' = scopes
      /\ blocks' = Outside(blocks, sb.scope - 1) \union {slice}
      /\ sb' = Builder(slice, sb.scope, 0, SbInitial)
    BY DEF SbReset
<1>2. /\ sb.scope = Len(scopes) /\ Len(scopes) \in Nat \ {0}
      /\ Arena(chunks', scopes, blocks')
      /\ Sized(slice, SliceHdr + SbInitial) /\ slice.scope = sb.scope
    BY <1>1, RestartedArena
<1> HIDE DEF slice
<1>3. /\ slice \in blocks' /\ slice.scope = Len(scopes) /\ 0 <= SbInitial
      /\ 0 \in Nat /\ SbInitial \in Nat \ {0}
      /\ sb' = Builder(slice, Len(scopes), 0, SbInitial)
    BY <1>1, <1>2, MemoryAssumption
<1>4. Built(sb', scopes, blocks')
    BY <1>2, <1>3, BuiltFresh
<1> QED
    BY <1>1, <1>2, <1>4 DEF MemInv

\* sb_to_cstr into the builder's own arena.
LEMMA SbToCstrKeeps ==
    ASSUME MemInv, SbToCstr
    PROVE  MemInv'
<1> DEFINE slice == Owned(Restarted.block, sb.scope)
           out == Push(Restarted.chunks, sb.len + 1, 1)
           string == Owned(out.block, sb.scope)
           kept == Outside(blocks, sb.scope - 1)
<1>1. /\ BuilderInUse /\ chunks' = out.chunks /\ scopes' = scopes
      /\ blocks' = (kept \union {slice}) \union {string}
      /\ sb' = Builder(slice, sb.scope, 0, SbInitial)
    BY DEF SbToCstr
<1>2. /\ sb.scope = Len(scopes) /\ Len(scopes) \in Nat \ {0}
      /\ Arena(Restarted.chunks, scopes, kept \union {slice})
      /\ Sized(slice, SliceHdr + SbInitial) /\ slice.scope = sb.scope
    BY <1>1, RestartedArena
<1>3. sb.len + 1 \in Nat /\ 1 \in Nat \ {0}
    BY <1>1 DEF BuilderInUse, MemInv, Built
<1> HIDE DEF slice, kept
<1>4. Arena(chunks', scopes, blocks')
    BY <1>1, <1>2, <1>3, PushArena
<1> HIDE DEF string, out
<1>5. /\ slice \in blocks' /\ slice.scope = Len(scopes) /\ 0 <= SbInitial
      /\ 0 \in Nat /\ SbInitial \in Nat \ {0}
      /\ sb' = Builder(slice, Len(scopes), 0, SbInitial)
    BY <1>1, <1>2, MemoryAssumption
<1>6. Built(sb', scopes, blocks')
    BY <1>2, <1>5, BuiltFresh
<1> QED
    BY <1>1, <1>2, <1>4, <1>6 DEF MemInv

\* A builder that is abandoned.
LEMMA SbDropKeeps ==
    ASSUME MemInv, SbDrop
    PROVE  MemInv'
<1>1. /\ sb.scope = Len(scopes) /\ Len(scopes) \in Nat \ {0} /\ scopes \in Seq(Nat)
    BY DEF SbDrop, BuilderInUse, MemInv, Built, Arena, Nested
<1> DEFINE rest == blocks \ {sb.buf}
<1>2. /\ scopes' = SubSeq(scopes, 1, Len(scopes) - 1) /\ chunks' = chunks /\ sb' = NoBuilder
      /\ blocks' = {Promoted(b, Len(scopes)) : b \in rest}
    BY <1>1 DEF SbDrop, Promoted
<1>3. Arena(chunks, scopes, rest)
    BY FewerBlocks DEF MemInv
<1> HIDE DEF rest
<1>4. Arena(chunks', scopes', blocks')
    BY <1>1, <1>2, <1>3, MergeArena
<1>5. Len(scopes) - 1 \in 0 .. Len(scopes)
    BY <1>1
<1>6. Len(scopes') = Len(scopes) - 1
    <2>1. Len(SubSeq(scopes, 1, Len(scopes) - 1)) = Len(scopes) - 1
        <3>1. scopes \in Seq(Nat)
            BY <1>1
        <3> QED
            BY <1>5, <3>1, Front, Zenon
    <2> QED
        BY <1>2, <2>1
<1>7. Len(scopes') <= MaxScopes
    BY <1>1, <1>6, MemoryAssumption DEF MemInv
<1> QED
    BY <1>2, <1>4, <1>7 DEF MemInv

\* An arena of one empty chunk.
LEMMA MemInitHolds ==
    ASSUME MemInit
    PROVE  MemInv
<1>1. /\ chunks \in Seq(ChunkType) /\ chunks # <<>> /\ Len(chunks) = 1
      /\ chunks[1] = Chunk(HeadCap)
    BY MemoryAssumption DEF MemInit, Chunk, ChunkType
<1>2. \A i \in 1 .. Len(chunks) : chunks[i].pos = 0
    BY <1>1 DEF Chunk
<1>3. Arena(chunks, <<>>, {})
    BY <1>1, <1>2, EmptyArena
<1> QED
    BY <1>3, MemoryAssumption DEF MemInit, MemInv

\* Every step keeps the inductive invariant.
LEMMA MemStep ==
    ASSUME MemInv, [MemNext]_memVars
    PROVE  MemInv'
<1>1. CASE \E size \in PushSizes, align \in Aligns : Alloc(size, align)
    BY <1>1, AllocKeeps
<1>2. CASE ScratchBegin
    BY <1>2, ScratchBeginKeeps
<1>3. CASE ScratchEnd
    BY <1>3, ScratchEndKeeps
<1>4. CASE Reset
    BY <1>4, ResetKeeps
<1>5. CASE SbMake(SbInitial)
    BY <1>5, SbMakeKeeps
<1>6. CASE SbWrite
    BY <1>6, SbWriteKeeps
<1>7. CASE SbReset
    BY <1>7, SbResetKeeps
<1>8. CASE SbToCstr
    BY <1>8, SbToCstrKeeps
<1>9. CASE SbDrop
    BY <1>9, SbDropKeeps
<1>10. CASE UNCHANGED memVars
    BY <1>10 DEF memVars, MemInv, Built
<1> QED
    BY <1>1, <1>2, <1>3, <1>4, <1>5, <1>6, <1>7, <1>8, <1>9, <1>10 DEF MemNext

\* The inductive invariant is what the clients rely on, and more.
LEMMA MemInvSound ==
    ASSUME MemInv
    PROVE  ArenaSound /\ BuilderBuffer
<1>1. /\ chunks \in Seq(ChunkType) /\ DOMAIN chunks = 1 .. Len(chunks)
      /\ scopes \in Seq(Nat) /\ DOMAIN scopes = 1 .. Len(scopes) /\ Len(scopes) \in Nat
      /\ Len(scopes) <= MaxScopes
    BY DEF MemInv, Arena, Chain, Nested
<1>2. \A i \in DOMAIN chunks : chunks[i].pos \in 0 .. chunks[i].cap
    <2>1. \A i \in 1 .. Len(chunks) : chunks[i] \in ChunkType /\ chunks[i].pos <= chunks[i].cap
        BY <1>1, ElementOfSeq DEF MemInv, Arena, Chain
    <2> QED
        BY <1>1, <2>1 DEF ChunkType
<1>3. blocks \subseteq BlockType
    <2> SUFFICES ASSUME NEW b \in blocks PROVE b \in BlockType
        OBVIOUS
    <2>1. /\ b \in [chunk : 1 .. Len(chunks), lo : Nat, hi : Nat, scope : Nat]
          /\ b.scope <= Len(scopes)
        BY DEF MemInv, Arena, Apart, Nested
    <2>2. b.scope \in 0 .. MaxScopes
        BY <1>1, <2>1, MemoryAssumption
    <2> QED
        BY <1>1, <2>1, <2>2 DEF BlockType
<1>4. ASSUME sb # NoBuilder
      PROVE  sb.buf \in blocks /\ sb.scope \in 1 .. Len(scopes)
    BY <1>4 DEF MemInv, Built
<1>5. ASSUME sb # NoBuilder
      PROVE  sb.buf \in BlockType /\ sb.scope \in 1 .. MaxScopes
    BY <1>1, <1>3, <1>4, <1>5, MemoryAssumption
<1>6. MemTypeOK
    BY <1>1, <1>2, <1>3, <1>5, MemoryAssumption DEF MemTypeOK
<1>7. LiveDisjoint /\ LiveProtected
    BY DEF MemInv, Arena, Apart, LiveDisjoint, LiveProtected
<1>8. MarksInOrder
    BY <1>1 DEF MemInv, Arena, Nested, MarksInOrder
<1>9. BuilderBuffer
    BY <1>1, <1>4 DEF MemInv, Built, BuilderBuffer, Sized
<1> QED
    BY <1>6, <1>7, <1>8, <1>9 DEF ArenaSound

\* For any sizes and alignments and any nesting of scopes: no two live blocks of
\* the arena share a byte, no push reaches one, and the scopes can end in order
\* (arena_push, arena_pop_to, scratch_begin, scratch_end).
THEOREM ArenaIsSound == MemSpec => []ArenaSound
<1>1. MemInv /\ [MemNext]_memVars => MemInv'
    BY MemStep
<1>2. MemInit => MemInv
    BY MemInitHolds
<1>3. MemInv => ArenaSound
    BY MemInvSound
<1> QED
    BY <1>1, <1>2, <1>3, PTL DEF MemSpec

\* The buffer of a string builder stays a live block with room for its text and
\* its header, through growth, conversion, reset and the scopes around it
\* (sb_write_char, sb_to_cstr, sb_reset, _slice_push_raw).
THEOREM BuilderIsSound == MemSpec => []BuilderBuffer
<1>1. MemInv /\ [MemNext]_memVars => MemInv'
    BY MemStep
<1>2. MemInit => MemInv
    BY MemInitHolds
<1>3. MemInv => BuilderBuffer
    BY MemInvSound
<1> QED
    BY <1>1, <1>2, <1>3, PTL DEF MemSpec


-----------------------------------------------------------------------------
(* The slab *)

\* p->used counts the slots callers hold.
UsedIsLent == used = Cardinality(lent)

PoolInv == PoolTypeOK /\ FreeListExact /\ UsedIsLent

-----------------------------------------------------------------------------

\* What is lent is a part of the slots.
LEMMA LentIsFinite ==
    ASSUME PoolTypeOK
    PROVE  IsFiniteSet(lent) /\ Cardinality(lent) \in Nat
<1>1. IsFiniteSet(Slots)
    BY PoolAssumption, FS_Interval DEF Slots
<1> QED
    BY <1>1, FS_Subset, FS_CardinalityType DEF PoolTypeOK

\* The list that pool_make and pool_reset thread: every slot in its order.
LEMMA InitInv == PoolInit => PoolInv
<1> SUFFICES ASSUME word = Threaded, freeList = 0, used = 0, lent = {}
             PROVE  PoolInv
    BY DEF PoolInit
<1> DEFINE c == [n \in 0 .. SlotCount - 1 |-> n]
<1>1. PoolTypeOK
    BY PoolAssumption DEF PoolTypeOK, Threaded, Slots
<1>2. UsedIsLent
    BY FS_EmptySet DEF UsedIsLent
<1>3. FreeListExact
    <2>1. c \in [0 .. SlotCount - 1 -> Slots] /\ SlotCount - used = SlotCount
        BY PoolAssumption DEF Slots
    <2>2. FreeChain(c, SlotCount)
        BY PoolAssumption DEF FreeChain, Threaded, Slots
    <2> QED
        BY <2>1, <2>2 DEF FreeListExact
<1> QED
    BY <1>1, <1>2, <1>3 DEF PoolInv

\* A slot taken from the list is a free one, and the rest of the list is the
\* new list.
LEMMA AllocInv ==
    ASSUME PoolInv, PoolAlloc
    PROVE  PoolInv' /\ freeList \notin lent
<1>0. PICK m : m = SlotCount - used
    OBVIOUS
<1>1. PICK c \in [0 .. m - 1 -> Slots] : FreeChain(c, m)
    BY <1>0 DEF PoolInv, FreeListExact
<1>2. used \in 0 .. SlotCount /\ SlotCount \in Nat /\ None \notin Nat
    BY PoolAssumption DEF PoolInv, PoolTypeOK
<1>3. m > 0 /\ freeList = c[0] /\ freeList \in Slots
    BY <1>1, <1>0, <1>2 DEF PoolAlloc, FreeChain
<1>4. freeList \notin lent
    BY <1>1, <1>0, <1>2, <1>3 DEF FreeChain
<1> DEFINE d == [n \in 0 .. m - 2 |-> c[n + 1]]
<1>5. used' = used + 1 /\ used' \in 0 .. SlotCount /\ SlotCount - used' = m - 1
    BY <1>0, <1>2, <1>3 DEF PoolAlloc
<1>6. d \in [0 .. (m - 1) - 1 -> Slots]
    BY <1>1, <1>0, <1>2, <1>5
<1>7. freeList' = IF m = 1 THEN None ELSE c[1]
    BY <1>1, <1>0, <1>2, <1>3 DEF FreeChain, PoolAlloc, Popped
<1>8. FreeChain(d, m - 1)'
    <2>1. \A i, j \in 0 .. m - 2 : d[i] = d[j] => i = j
        BY <1>1, <1>0, <1>2 DEF FreeChain
    <2>2. \A s \in Slots : s \in lent' <=> \A i \in 0 .. m - 2 : d[i] # s
        <3> TAKE s \in Slots
        <3>1. s \in lent <=> \A i \in 0 .. m - 1 : c[i] # s
            BY <1>0, <1>1 DEF FreeChain
        <3>2. s \in lent' <=> s \in lent \/ s = c[0]
            BY <1>3 DEF PoolAlloc
        <3>3. (\A i \in 0 .. m - 2 : d[i] # s) <=> \A i \in 1 .. m - 1 : c[i] # s
            <4>1. \A i \in 0 .. m - 2 : i + 1 \in 1 .. m - 1 /\ d[i] = c[i + 1]
                BY <1>0, <1>2
            <4>2. \A i \in 1 .. m - 1 : i - 1 \in 0 .. m - 2 /\ d[i - 1] = c[i]
                BY <1>0, <1>2
            <4> QED
                <5>1. ASSUME \A i \in 0 .. m - 2 : d[i] # s, NEW j \in 1 .. m - 1
                      PROVE  c[j] # s
                    BY <4>2, <5>1, Zenon
                <5>2. ASSUME \A i \in 1 .. m - 1 : c[i] # s, NEW j \in 0 .. m - 2
                      PROVE  d[j] # s
                    BY <4>1, <5>2, Zenon
                <5> QED
                    BY <5>1, <5>2, Zenon
        <3>4. s = c[0] => \A i \in 1 .. m - 1 : c[i] # s
            BY <1>1, <1>0, <1>2, <1>3 DEF FreeChain
        <3>5. (\A i \in 0 .. m - 1 : c[i] # s) <=> c[0] # s /\ \A i \in 1 .. m - 1 : c[i] # s
            BY <1>0, <1>2, <1>3
        <3> QED
            BY <3>1, <3>2, <3>3, <3>4, <3>5
    <2>3. freeList' = IF m - 1 = 0 THEN None ELSE d[0]
        BY <1>0, <1>2, <1>3, <1>7
    <2>4. \A i \in 0 .. m - 2 : word'[d[i]] = IF i + 1 < m - 1 THEN d[i + 1] ELSE None
        BY <1>1, <1>0, <1>2 DEF FreeChain, PoolAlloc
    <2>5. (m - 1) - 1 = m - 2
        BY <1>0, <1>2
    <2> HIDE DEF d
    <2> QED
        BY <2>1, <2>2, <2>3, <2>4, <2>5 DEF FreeChain
<1>9. FreeListExact'
    BY <1>5, <1>6, <1>8 DEF FreeListExact
<1>10. UsedIsLent'
    BY <1>4, <1>5, LentIsFinite, FS_AddElement DEF PoolInv, UsedIsLent, PoolAlloc
<1>11. PoolTypeOK'
    <2>1. freeList' \in Slots \union {None}
        BY <1>1, <1>0, <1>2, <1>3, <1>7
    <2> QED
        BY <2>1, <1>3, <1>5 DEF PoolInv, PoolTypeOK, PoolAlloc
<1> QED
    BY <1>4, <1>9, <1>10, <1>11 DEF PoolInv

\* A slot given back goes in front of the list.
LEMMA FreeInv ==
    ASSUME PoolInv, NEW s \in Slots, PoolFree(s)
    PROVE  PoolInv'
<1>0. PICK m : m = SlotCount - used
    OBVIOUS
<1>1. PICK c \in [0 .. m - 1 -> Slots] : FreeChain(c, m)
    BY <1>0 DEF PoolInv, FreeListExact
<1>2. used \in 0 .. SlotCount /\ SlotCount \in Nat /\ None \notin Nat
    BY PoolAssumption DEF PoolInv, PoolTypeOK
<1>3. s \in lent /\ lent' = lent \ {s} /\ used' = used - 1
    BY DEF PoolFree
<1>4. UsedIsLent' /\ used > 0
    <2>1. IsFiniteSet(lent) /\ Cardinality(lent) \in Nat
        BY LentIsFinite DEF PoolInv
    <2>2. Cardinality(lent \ {s}) = Cardinality(lent) - 1
        BY <1>3, <2>1, FS_RemoveElement
    <2>3. Cardinality(lent) # 0
        BY <1>3, <2>1, FS_EmptySet
    <2> QED
        BY <1>0, <1>2, <1>3, <2>1, <2>2, <2>3 DEF PoolInv, UsedIsLent
<1> DEFINE d == [n \in 0 .. m |-> IF n = 0 THEN s ELSE c[n - 1]]
<1>5. used' \in 0 .. SlotCount /\ SlotCount - used' = m + 1
    BY <1>0, <1>2, <1>3, <1>4
<1>6. d \in [0 .. (m + 1) - 1 -> Slots]
    BY <1>1, <1>0, <1>2, <1>5
<1>7. \A i \in 0 .. m - 1 : c[i] \in Slots /\ c[i] # s
    BY <1>0, <1>1, <1>3 DEF FreeChain
<1>8. FreeChain(d, m + 1)'
    <2>1. \A i, j \in 0 .. m : d[i] = d[j] => i = j
        BY <1>1, <1>0, <1>2, <1>7 DEF FreeChain
    <2>2. \A x \in Slots : x \in lent' <=> \A i \in 0 .. m : d[i] # x
        <3> TAKE x \in Slots
        <3>1. x \in lent <=> \A i \in 0 .. m - 1 : c[i] # x
            BY <1>0, <1>1 DEF FreeChain
        <3>2. (\A i \in 0 .. m : d[i] # x) <=> x # s /\ \A i \in 1 .. m : c[i - 1] # x
            BY <1>0, <1>2
        <3>3. (\A i \in 1 .. m : c[i - 1] # x) <=> \A i \in 0 .. m - 1 : c[i] # x
            <4>1. \A i \in 1 .. m : i - 1 \in 0 .. m - 1
                BY <1>0, <1>2
            <4>2. \A i \in 0 .. m - 1 : i + 1 \in 1 .. m /\ (i + 1) - 1 = i
                BY <1>0, <1>2
            <4> QED
                BY <4>1, <4>2
        <3> QED
            BY <1>3, <3>1, <3>2, <3>3
    <2>3. freeList' = d[0]
        BY <1>0, <1>2 DEF PoolFree
    <2>4. \A i \in 0 .. m : word'[d[i]] = IF i + 1 < m + 1 THEN d[i + 1] ELSE None
        <3>1. word'[s] = IF m = 0 THEN None ELSE c[0]
            BY <1>1, <1>0, <1>2 DEF FreeChain, PoolFree, PoolInv, PoolTypeOK
        <3>2. \A i \in 0 .. m - 1 : word'[c[i]] = IF i + 1 < m THEN c[i + 1] ELSE None
            BY <1>1, <1>0, <1>2, <1>7 DEF FreeChain, PoolFree, PoolInv, PoolTypeOK
        <3> QED
            BY <1>0, <1>2, <3>1, <3>2
    <2>5. (m + 1) - 1 = m /\ m + 1 # 0
        BY <1>0, <1>2
    <2> HIDE DEF d
    <2> QED
        BY <2>1, <2>2, <2>3, <2>4, <2>5 DEF FreeChain
<1>9. FreeListExact'
    BY <1>5, <1>6, <1>8 DEF FreeListExact
<1>10. PoolTypeOK'
    BY <1>0, <1>2, <1>5 DEF PoolInv, PoolTypeOK, PoolFree, Slots
<1> QED
    BY <1>4, <1>9, <1>10 DEF PoolInv

\* Nothing in the list depends on the slots callers hold.
LEMMA UserWritesInv ==
    ASSUME PoolInv, NEW s \in Slots, NEW j \in Junk, UserWrites(s, j)
    PROVE  PoolInv'
<1>0. PICK m : m = SlotCount - used
    OBVIOUS
<1>1. PICK c \in [0 .. m - 1 -> Slots] : FreeChain(c, m)
    BY <1>0 DEF PoolInv, FreeListExact
<1>2. \A i \in 0 .. m - 1 : word'[c[i]] = word[c[i]]
    BY <1>1 DEF FreeChain, UserWrites, PoolInv, PoolTypeOK
<1>3. FreeChain(c, m)'
    BY <1>1, <1>2 DEF FreeChain, UserWrites
<1>4. FreeListExact'
    BY <1>0, <1>1, <1>3 DEF FreeListExact, UserWrites
<1>5. PoolTypeOK' /\ UsedIsLent'
    BY PoolAssumption DEF PoolInv, PoolTypeOK, UsedIsLent, UserWrites
<1> QED
    BY <1>4, <1>5 DEF PoolInv

-----------------------------------------------------------------------------

\* A reset slab is an empty slab.
LEMMA ResetInv == PoolReset => PoolInv'
<1>1. PoolReset => PoolInit'
    BY DEF PoolReset, PoolInit, Threaded, Slots
<1> QED
    BY <1>1, InitInv, PTL

\* Every step keeps the slab's inductive invariant.
LEMMA NextInv == PoolInv /\ [PoolNext]_poolVars => PoolInv'
<1> SUFFICES ASSUME PoolInv, [PoolNext]_poolVars PROVE PoolInv'
    OBVIOUS
<1>1. CASE PoolAlloc
    BY <1>1, AllocInv
<1>2. CASE \E s \in Slots : PoolFree(s)
    BY <1>2, FreeInv
<1>3. CASE \E s \in Slots, j \in Junk : UserWrites(s, j)
    BY <1>3, UserWritesInv
<1>4. CASE PoolReset
    BY <1>4, ResetInv
<1>5. CASE UNCHANGED poolVars
    <2>1. PoolTypeOK' /\ UsedIsLent'
        BY <1>5 DEF poolVars, PoolInv, PoolTypeOK, UsedIsLent
    <2>2. \A c, m : FreeChain(c, m)' <=> FreeChain(c, m)
        BY <1>5 DEF poolVars, FreeChain
    <2>3. FreeListExact'
        BY <1>5, <2>2 DEF poolVars, PoolInv, FreeListExact
    <2> QED
        BY <2>1, <2>3 DEF PoolInv
<1> QED
    BY <1>1, <1>2, <1>3, <1>4, <1>5 DEF PoolNext

\* Every reachable slab is well-typed: the head of the free list (pool_alloc,
\* pool_free) is a slot or NULL.
THEOREM PoolTypeCorrect == PoolSpec => []PoolTypeOK
<1>1. PoolInv => PoolTypeOK
    BY DEF PoolInv
<1> QED
    BY <1>1, InitInv, NextInv, PTL DEF PoolSpec

\* The free list holds every slot that is not lent, once, and no other.
THEOREM FreeListIsExact == PoolSpec => []FreeListExact
<1>1. PoolInv => FreeListExact
    BY DEF PoolInv
<1> QED
    BY <1>1, InitInv, NextInv, PTL DEF PoolSpec

\* A step that raises p->used lends a slot that nobody held.
THEOREM LoansAreFresh == PoolSpec => FreshLoan
<1>1. PoolInv /\ PoolInv' => (used' > used => lent' # lent)
    BY DEF PoolInv, PoolTypeOK, UsedIsLent
<1> QED
    BY <1>1, InitInv, NextInv, PTL DEF PoolSpec, FreshLoan

-----------------------------------------------------------------------------
(* The connection pool *)

ConnTypeOK ==
    /\ socks \in [Places -> Fds \union {Invalid}]
    /\ inUse \in [Places -> BOOLEAN]
    /\ open \in [Fds -> {"free", "pooled", "other"}]
    /\ loan \in [Borrowers -> Fds \union {Invalid, NoLoan}]
    /\ misput \subseteq Fds

\* Beside LoansExact: a place is in use only with a connection in it, so that
\* giving back SOCK_INVALID, which conn_pool_put looks for like any number, frees
\* nobody's place; and a stale number is kept until it is put.
ConnInv ==
    /\ ConnTypeOK
    /\ LoansExact
    /\ \A i \in Places : inUse[i] => socks[i] \in Fds
    /\ \A b \in stale : b \in Borrowers /\ loan[b] \in Fds

\* A set of slots has a first one.
LEMMA LeastIsLeast ==
    ASSUME NEW S, S \subseteq Nat, S # {}
    PROVE  Least(S) \in S /\ \A y \in S : Least(S) <= y
<1> DEFINE R == {p \in Nat \X Nat : p[1] < p[2]}
<1>1. IsWellFoundedOn(R, Nat)
    BY NatLessThanWellFounded DEF OpToRel
<1>2. PICK x \in S : \A y \in S : <<y, x>> \notin R
    BY <1>1, WFMin
<1>3. \A y \in S : x <= y
    <2> TAKE y \in S
    <2>1. x \in Nat /\ y \in Nat
        OBVIOUS
    <2>2. ~(y < x)
        BY <1>2, <2>1
    <2> QED
        BY <2>1, <2>2
<1> QED
    BY <1>3 DEF Least

\* The pool's sizes.
LEMMA ConnNumbers ==
    /\ Fds \subseteq Nat /\ Places \subseteq Nat
    /\ Invalid \notin Fds /\ NoLoan \notin Fds /\ Invalid # NoLoan
<1>1. Cardinality(Fds) \in Nat
    BY ConnPoolAssumption, FS_CardinalityType
<1> QED
    BY <1>1, ConnPoolAssumption DEF Places, Invalid, NoLoan

\* The connection pool starts with no connection.
LEMMA ConnInitInv == ConnInit => ConnInv
<1> SUFFICES ASSUME ConnInit PROVE ConnInv
    OBVIOUS
<1> USE ConnNumbers, ConnPoolAssumption
<1>1. ConnTypeOK
    BY DEF ConnInit, ConnTypeOK
<1>2. KeepsItsOwn
    BY DEF ConnInit, KeepsItsOwn
<1> QED
    BY <1>1, <1>2 DEF ConnInit, ConnInv, LoansExact, ExclusiveLoan, StaysInUse, IsAlone, NoPlaceLost, Live

\* conn_pool_get, from the idle ones or with a new one.
LEMMA GetInv ==
    ASSUME ConnInv, NEW b \in Borrowers, Get(b)
    PROVE  ConnInv'
<1> USE ConnNumbers
<1>1. PICK refused \in SUBSET Places :
         IF Lendable(refused) = {}
           THEN loan' = [loan EXCEPT ![b] = Invalid] /\ UNCHANGED poolState
           ELSE LET i  == Least(Lendable(refused))
                    fd == IF socks[i] = Invalid THEN Least(FreeFds) ELSE socks[i]
                IN /\ socks' = [socks EXCEPT ![i] = fd]
                   /\ inUse' = [inUse EXCEPT ![i] = TRUE]
                   /\ open' = [open EXCEPT ![fd] = "pooled"]
                   /\ loan' = [loan EXCEPT ![b] = fd]
    BY DEF Get
<1>2. loan[b] = NoLoan /\ stale' = stale /\ misput' = misput
    BY DEF Get
<1>3. ConnTypeOK /\ KeepsItsOwn /\ ExclusiveLoan /\ NoPlaceLost
      /\ \A j \in Places : inUse[j] => socks[j] \in Fds
    BY DEF ConnInv, LoansExact
<1>4. /\ \A j, k \in Places : socks[j] = socks[k] /\ socks[j] # Invalid => j = k
      /\ \A j \in Places : socks[j] # Invalid => open[socks[j]] = "pooled"
      /\ \A f \in Fds : open[f] = "pooled" => \E j \in Places : socks[j] = f
    BY <1>3 DEF KeepsItsOwn
<1>5. CASE Lendable(refused) = {}
    <2>1. loan' = [loan EXCEPT ![b] = Invalid] /\ UNCHANGED <<socks, inUse, open>>
        BY <1>1, <1>5 DEF poolState
    <2>2. \A c \in Borrowers : Live(c)' <=> Live(c)
        BY <1>2, <1>3, <2>1 DEF Live, ConnTypeOK
    <2>3. \A c \in Borrowers : Live(c) => loan'[c] = loan[c]
        BY <1>2, <1>3, <2>1 DEF Live, ConnTypeOK
    <2>4. ConnTypeOK' /\ KeepsItsOwn'
        BY <1>2, <1>3, <2>1 DEF ConnTypeOK, KeepsItsOwn
    <2>5. ExclusiveLoan' /\ NoPlaceLost'
        BY <1>2, <1>3, <2>1, <2>2, <2>3 DEF ExclusiveLoan, StaysInUse, IsAlone, NoPlaceLost
    <2>6. \A c \in stale : c \in Borrowers /\ loan'[c] \in Fds
        BY <1>2, <1>3, <2>1 DEF ConnInv, ConnTypeOK
    <2> QED
        BY <1>2, <1>3, <2>1, <2>4, <2>5, <2>6 DEF ConnInv, LoansExact
<1>6. CASE Lendable(refused) # {}
    <2> DEFINE i  == Least(Lendable(refused))
               fd == IF socks[i] = Invalid THEN Least(FreeFds) ELSE socks[i]
    <2>1. i \in Lendable(refused)
        BY <1>6, LeastIsLeast DEF Lendable
    <2>2. i \in Places /\ ~inUse[i] /\ (socks[i] = Invalid => FreeFds # {})
        BY <2>1 DEF Lendable, Idle
    <2>3. socks[i] = Invalid => fd \in Fds /\ open[fd] = "free"
        <3>1. FreeFds # {} => Least(FreeFds) \in FreeFds
            BY LeastIsLeast DEF FreeFds
        <3> QED
            BY <2>2, <3>1 DEF FreeFds
    <2>4. fd \in Fds /\ (fd = socks[i] \/ open[fd] = "free")
        <3>1. CASE socks[i] = Invalid
            BY <2>3, <3>1
        <3>2. CASE socks[i] # Invalid
            <4>1. fd = socks[i]
                BY <3>2
            <4> HIDE DEF i, fd
            <4> QED
                BY <1>3, <2>2, <3>2, <4>1 DEF ConnTypeOK
        <3> QED
            BY <3>1, <3>2
    <2>5. /\ socks' = [socks EXCEPT ![i] = fd]
          /\ inUse' = [inUse EXCEPT ![i] = TRUE]
          /\ open' = [open EXCEPT ![fd] = "pooled"]
          /\ loan' = [loan EXCEPT ![b] = fd]
        BY <1>1, <1>6
    <2>5a. socks[i] # Invalid => fd = socks[i]
        OBVIOUS
    <2> HIDE DEF i, fd
    <2>6. \A j \in Places : socks[j] = fd => j = i
        BY <1>4, <2>2, <2>4
    <2>7. \A c \in Borrowers : Live(c) /\ loan[c] = fd => fd \in misput
        BY <1>3, <2>2, <2>6 DEF ExclusiveLoan, StaysInUse
    <2>8. ConnTypeOK'
        BY <1>2, <1>3, <2>2, <2>4, <2>5 DEF ConnTypeOK
    <2>9. /\ socks'[i] = fd /\ inUse'[i] /\ loan'[b] = fd
          /\ \A j \in Places : j # i => socks'[j] = socks[j] /\ inUse'[j] = inUse[j]
          /\ \A c \in Borrowers : c # b => loan'[c] = loan[c]
          /\ \A f \in Fds : open'[f] = IF f = fd THEN "pooled" ELSE open[f]
        BY <1>3, <2>2, <2>4, <2>5 DEF ConnTypeOK
    <2>10. KeepsItsOwn'
        <3>1. \A j, k \in Places : socks'[j] = socks'[k] /\ socks'[j] # Invalid => j = k
            BY <1>4, <2>2, <2>6, <2>9
        <3>2. \A j \in Places : socks'[j] # Invalid => open'[socks'[j]] = "pooled"
            <4> SUFFICES ASSUME NEW j \in Places, socks'[j] # Invalid
                         PROVE  open'[socks'[j]] = "pooled"
                OBVIOUS
            <4>1. CASE j = i
                BY <2>4, <2>9, <4>1
            <4>2. CASE j # i
                <5>1. socks'[j] = socks[j] /\ socks[j] \in Fds /\ open[socks[j]] = "pooled"
                    BY <1>3, <1>4, <2>9, <4>2 DEF ConnTypeOK
                <5>2. open'[socks[j]] = "pooled"
                    BY <2>9, <5>1
                <5> QED
                    BY <5>1, <5>2
            <4> QED
                BY <4>1, <4>2
        <3>3. \A f \in Fds : open'[f] = "pooled" => \E j \in Places : socks'[j] = f
            <4> SUFFICES ASSUME NEW f \in Fds, open'[f] = "pooled"
                         PROVE  \E j \in Places : socks'[j] = f
                OBVIOUS
            <4>1. CASE f = fd
                BY <2>2, <2>9, <4>1
            <4>2. CASE f # fd
                <5>1. PICK j \in Places : socks[j] = f
                    BY <1>4, <2>9, <4>2
                <5>2. j # i
                    BY <2>5a, <4>2, <5>1
                <5> QED
                    BY <2>9, <5>1, <5>2
            <4> QED
                BY <4>1, <4>2
        <3> QED
            BY <3>1, <3>2, <3>3 DEF KeepsItsOwn
    <2>11. ExclusiveLoan'
        <3> SUFFICES ASSUME NEW c \in Borrowers, Live(c)'
                     PROVE  StaysInUse(c)' /\ IsAlone(c)'
            BY DEF ExclusiveLoan
        <3>1. \A d \in Borrowers : d # b /\ Live(d)' => Live(d)
            BY <1>2, <2>9 DEF Live
        <3>2. CASE c = b
            BY <1>2, <2>2, <2>7, <2>9, <3>1, <3>2 DEF StaysInUse, IsAlone
        <3>3. CASE c # b
            <4>1. Live(c) /\ loan'[c] = loan[c]
                BY <2>9, <3>1, <3>3
            <4>2. PICK j \in Places : socks[j] = loan[c] /\ (loan[c] \notin misput => inUse[j])
                BY <1>3, <4>1 DEF ExclusiveLoan, StaysInUse
            <4>3. socks'[j] = loan[c] /\ (loan[c] \notin misput => inUse'[j])
                <5>1. socks[j] # Invalid
                    BY <4>1, <4>2 DEF Live
                <5> QED
                    BY <2>9, <2>5a, <4>2, <5>1
            <4>4. \A d \in Borrowers :
                      Live(d)' /\ loan'[d] = loan'[c] /\ loan'[c] \notin misput' => d = c
                BY <1>2, <1>3, <2>7, <2>9, <3>1, <4>1 DEF ExclusiveLoan, IsAlone
            <4> QED
                BY <1>2, <4>1, <4>3, <4>4 DEF StaysInUse, IsAlone
        <3> QED
            BY <3>2, <3>3
    <2>12. NoPlaceLost'
        <3>1. b \notin stale
            BY <1>2, ConnNumbers DEF ConnInv
        <3> QED
            BY <1>2, <1>3, <2>2, <2>4, <2>9, <3>1 DEF NoPlaceLost, Live
    <2>13. \A j \in Places : inUse'[j] => socks'[j] \in Fds
        BY <1>3, <2>4, <2>9
    <2>14. \A c \in stale : c \in Borrowers /\ loan'[c] \in Fds
        BY <2>4, <2>9 DEF ConnInv
    <2> QED
        BY <1>2, <2>8, <2>10, <2>11, <2>12, <2>13, <2>14 DEF ConnInv, LoansExact
<1> QED
    BY <1>5, <1>6

\* conn_pool_put, of a connection or of a number the pool has closed.
LEMMA PutInv ==
    ASSUME ConnInv, NEW b \in Borrowers, Put(b)
    PROVE  ConnInv'
<1> USE ConnNumbers
<1>1. /\ loan' = [loan EXCEPT ![b] = NoLoan] /\ stale' = stale \ {b}
      /\ UNCHANGED <<socks, open>>
    BY DEF Put
<1>2. /\ ConnTypeOK /\ KeepsItsOwn /\ ExclusiveLoan /\ NoPlaceLost
      /\ \A j \in Places : inUse[j] => socks[j] \in Fds
      /\ \A c \in stale : c \in Borrowers /\ loan[c] \in Fds
    BY DEF ConnInv, LoansExact
<1>3. misput \subseteq misput' /\ misput' \subseteq Fds
    BY <1>2 DEF Put, ConnTypeOK
<1>4. /\ \A c \in Borrowers : Live(c)' => c # b /\ Live(c) /\ loan'[c] = loan[c]
      /\ \A c \in Borrowers : Live(c) /\ c # b => Live(c)'
    BY <1>1, <1>2 DEF Live, ConnTypeOK
<1>5. \A c \in stale' : c \in Borrowers /\ loan'[c] \in Fds
    BY <1>1, <1>2 DEF ConnTypeOK
<1>6. KeepsItsOwn'
    BY <1>1, <1>2 DEF KeepsItsOwn
\* No borrower but b loses a place in use, and only b's can be freed.
<1>7. /\ inUse' \in [Places -> BOOLEAN]
      /\ \A j \in Places : inUse'[j] <=> inUse[j] /\ socks[j] # loan[b]
    <2>1. CASE Holding(loan[b]) = {}
        BY <1>2, <2>1 DEF Put, Holding, ConnTypeOK
    <2>2. CASE Holding(loan[b]) # {}
        <3> DEFINE i == Least(Holding(loan[b]))
        <3>1. i \in Places /\ socks[i] = loan[b]
            <4>1. Holding(loan[b]) \subseteq Nat
                BY DEF Holding, Places
            <4>2. i \in Holding(loan[b])
                BY <2>2, <4>1, LeastIsLeast, Zenon
            <4> QED
                BY <4>2 DEF Holding
        <3>2. inUse' = [inUse EXCEPT ![i] = FALSE]
            BY <2>2 DEF Put
        <3> HIDE DEF i
        <3>3. \A j \in Places : inUse[j] /\ socks[j] = loan[b] => j = i
            BY <1>2, <3>1 DEF KeepsItsOwn
        <3> QED
            BY <1>2, <3>1, <3>2, <3>3 DEF ConnTypeOK
    <2> QED
        BY <2>1, <2>2
<1>8. ExclusiveLoan'
    <2> SUFFICES ASSUME NEW c \in Borrowers, Live(c)'
                 PROVE  StaysInUse(c)' /\ IsAlone(c)'
        BY DEF ExclusiveLoan
    <2>1. c # b /\ Live(c) /\ loan'[c] = loan[c]
        BY <1>4
    <2>2. PICK j \in Places : socks[j] = loan[c] /\ (loan[c] \notin misput => inUse[j])
        BY <1>2, <2>1 DEF ExclusiveLoan, StaysInUse
    <2>3. loan[c] \notin misput' => inUse'[j]
        <3> SUFFICES ASSUME loan[c] \notin misput' PROVE inUse'[j]
            OBVIOUS
        <3>1. inUse[j]
            BY <1>3, <2>2
        <3>2. loan[c] # loan[b]
            <4> SUFFICES ASSUME loan[c] = loan[b] PROVE FALSE
                OBVIOUS
            <4>1. CASE b \in stale
                BY <2>2, <3>1, <4>1 DEF Put, Holding
            <4>2. CASE b \notin stale
                BY <1>2, <1>3, <2>1, <4>2 DEF ExclusiveLoan, IsAlone, Live
            <4> QED
                BY <4>1, <4>2
        <3> QED
            BY <1>7, <2>2, <3>1, <3>2
    <2>4. \A d \in Borrowers :
              Live(d)' /\ loan'[d] = loan'[c] /\ loan'[c] \notin misput' => d = c
        BY <1>2, <1>3, <1>4, <2>1 DEF ExclusiveLoan, IsAlone
    <2> QED
        BY <1>1, <2>1, <2>2, <2>3, <2>4 DEF StaysInUse, IsAlone
<1>9. NoPlaceLost'
    <2> SUFFICES ASSUME NEW j \in Places, inUse'[j]
                 PROVE  \E c \in Borrowers : Live(c)' /\ loan'[c] = socks'[j]
        BY DEF NoPlaceLost
    <2>1. inUse[j] /\ socks[j] # loan[b]
        BY <1>7
    <2>2. PICK c \in Borrowers : Live(c) /\ loan[c] = socks[j]
        BY <1>2, <2>1 DEF NoPlaceLost
    <2>3. c # b
        BY <2>1, <2>2
    <2> QED
        BY <1>1, <1>4, <2>2, <2>3
<1> QED
    BY <1>1, <1>2, <1>3, <1>5, <1>6, <1>7, <1>8, <1>9 DEF ConnInv, ConnTypeOK, LoansExact

\* conn_pool_close_all: every loan is stale behind it.
LEMMA CloseAllInv ==
    ASSUME ConnInv, CloseAll
    PROVE  ConnInv'
<1> USE ConnNumbers
<1>1. /\ socks' = [i \in Places |-> Invalid] /\ inUse' = [i \in Places |-> FALSE]
      /\ open' = [f \in Fds |-> IF Holding(f) # {} THEN "free" ELSE open[f]]
      /\ stale' = {b \in Borrowers : loan[b] \in Fds} /\ misput' = {} /\ loan' = loan
    BY DEF CloseAll, Forgotten
<1>2. ConnTypeOK /\ KeepsItsOwn
    BY DEF ConnInv, LoansExact
<1>3. ConnTypeOK'
    BY <1>1, <1>2 DEF ConnTypeOK
<1>4. KeepsItsOwn'
    <2>1. \A f \in Fds : open[f] = "pooled" => Holding(f) # {}
        BY <1>2 DEF KeepsItsOwn, Holding
    <2>2. \A f \in Fds : open'[f] # "pooled"
        BY <1>1, <1>2, <2>1 DEF ConnTypeOK
    <2> QED
        BY <1>1, <2>2 DEF KeepsItsOwn
<1>5. \A b \in Borrowers : ~Live(b)'
    BY <1>1 DEF Live
<1>6. ExclusiveLoan' /\ NoPlaceLost'
    BY <1>1, <1>5 DEF ExclusiveLoan, NoPlaceLost
<1> QED
    BY <1>1, <1>3, <1>4, <1>6 DEF ConnInv, LoansExact

\* The numbers the pool keeps are not free, so that nobody else gets them.
LEMMA OthersInv ==
    ASSUME ConnInv, OtherOpens \/ (\E f \in Fds : OtherCloses(f))
    PROVE  ConnInv'
<1> USE ConnNumbers
<1>1. UNCHANGED <<socks, inUse, loan, stale, misput>>
    BY DEF OtherOpens, OtherCloses
<1>2. PICK f \in Fds, now \in {"free", "other"} :
          open[f] # "pooled" /\ open' = [open EXCEPT ![f] = now]
    <2>1. CASE OtherOpens
        <3>1. Least(FreeFds) \in FreeFds
            BY <2>1, LeastIsLeast DEF OtherOpens, FreeFds
        <3> QED
            BY <2>1, <3>1 DEF OtherOpens, FreeFds
    <2>2. CASE \E f \in Fds : OtherCloses(f)
        BY <2>2 DEF OtherCloses
    <2> QED
        BY <2>1, <2>2
<1>3. ConnTypeOK'
    BY <1>1, <1>2 DEF ConnInv, ConnTypeOK
<1>4. KeepsItsOwn'
    BY <1>1, <1>2 DEF ConnInv, ConnTypeOK, LoansExact, KeepsItsOwn
<1>5. ExclusiveLoan' /\ NoPlaceLost'
    BY <1>1 DEF ConnInv, LoansExact, ExclusiveLoan, StaysInUse, IsAlone, NoPlaceLost, Live
<1> QED
    BY <1>1, <1>3, <1>4, <1>5 DEF ConnInv, LoansExact

\* Every step keeps the connection pool's inductive invariant.
LEMMA ConnNextInv == ConnInv /\ [ConnNext]_connVars => ConnInv'
<1> SUFFICES ASSUME ConnInv, [ConnNext]_connVars PROVE ConnInv'
    OBVIOUS
<1>1. CASE UNCHANGED connVars
    BY <1>1 DEF connVars, poolState, ConnInv, ConnTypeOK, LoansExact, KeepsItsOwn,
                ExclusiveLoan, StaysInUse, IsAlone, NoPlaceLost, Live
<1> QED
    BY <1>1, GetInv, PutInv, CloseAllInv, OthersInv DEF ConnNext

\* Whatever connections fail, whenever the pool is closed and whichever numbers the
\* kernel gives out again, the loans of conn_pool_get and the places of the pool
\* correspond one to one, but for a place whose number a stale put gave back.
THEOREM LoansAreExact == ConnSpec => []LoansExact
<1>1. ConnInv => LoansExact
    BY DEF ConnInv
<1> QED
    BY <1>1, ConnInitInv, ConnNextInv, PTL DEF ConnSpec
=============================================================================
