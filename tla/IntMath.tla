------------------------------ MODULE IntMath ------------------------------
(***************************************************************************)
(* What baremath.h computes from the bits of a word: counts, reversals,    *)
(* rotations, fields, logarithms, the cube root and alignment, over words  *)
(* of WordBits bits.                                                       *)
(***************************************************************************)
EXTENDS Words, SequencesExt, Bitwise

CONSTANTS
    WordBits,   \* 32 or 64 in the code
    ByteBits    \* 8 in the code

ASSUME IntMathAssumption ==
    /\ {WordBits, ByteBits} \subseteq Nat \ {0}
    /\ WordBits % ByteBits = 0 /\ WordBits < 2 ^ ByteBits /\ Values = 2 ^ WordBits

Inverted(x) == UMax - x                                         \* ~x
Shl(x, k) == Wrap(x * 2 ^ k)
Shr(x, k) == x \div 2 ^ k

\* C leaves a shift by the whole word undefined: the machine masks the count and
\* keeps the word, a compiler that sees the count may give 0.
Shls(x, k) == IF k < WordBits THEN {Shl(x, k)} ELSE {x, 0}
Shrs(x, k) == IF k < WordBits THEN {Shr(x, k)} ELSE {x, 0}

-----------------------------------------------------------------------------
(* Bits.  Halves are the sizes 1, 2, 4 .. below a size; Low(k) selects     *)
(* every other field of k bits, the lowest first.                          *)

RECURSIVE Halves(_)
Halves(size) == IF size = 1 THEN <<>> ELSE Append(Halves(size \div 2), size \div 2)

Repeated(field, size) ==
    FoldLeft(LAMBDA sum, i : sum + field * 2 ^ (size * (i - 1)), 0,
             [i \in 1 .. WordBits \div size |-> i])
Low(k) == Repeated(2 ^ k - 1, 2 * k)

Popcount(x) ==
    LET Fields(y, k) == (y & Low(k)) + (Shr(y, k) & Low(k))
        bytes == FoldLeft(Fields, x, Halves(ByteBits))
    IN  Shr(Wrap(bytes * Repeated(1, ByteBits)), WordBits - ByteBits)

Clz(x) ==
    LET Halve(at, k) == IF Shr(at.word, WordBits - k) # 0 THEN at
                        ELSE [n |-> at.n + k, word |-> Shl(at.word, k)]
    IN  FoldLeft(Halve, [n |-> 0, word |-> x], Reverse(Halves(WordBits))).n

Ctz(x) == Popcount(Wrap((x & Wrap(-x)) - 1))

Bswap(x) ==
    LET bytes == WordBits \div ByteBits
        Put(sum, i) == sum + (Shr(x, ByteBits * (i - 1)) % 2 ^ ByteBits)
                             * 2 ^ (ByteBits * (bytes - i))
    IN  FoldLeft(Put, 0, [i \in 1 .. bytes |-> i])

ReverseBits(x) ==
    LET Swap(y, k) == (Shr(y, k) & Low(k)) | Shl(y & Low(k), k)
    IN  Bswap(FoldLeft(Swap, x, Halves(ByteBits)))

\* The sets of what they may return.
Rol(x, n) ==
    LET k == n % WordBits IN {Shl(x, k) | low : low \in Shrs(x, WordBits - k)}
Ror(x, n) ==
    LET k == n % WordBits IN {Shr(x, k) | high : high \in Shls(x, WordBits - k)}
Extract(x, lo, len) == {Shr(x, lo) & Wrap(bit - 1) : bit \in Shls(1, len)}
Insert(x, val, lo, len) ==
    LET Masked(mask) == (x & Inverted(mask)) | (Shl(val, lo) & mask)
    IN  {Masked(Shl(Wrap(bit - 1), lo)) : bit \in Shls(1, len)}

NextPerm(v) ==
    LET t == v | Wrap(v - 1)
        up == Inverted(t)
    IN  {Wrap(t + 1) | low : low \in Shrs(up & Wrap(up - 1), Ctz(v) + 1)}

-----------------------------------------------------------------------------
(* Logarithms, the cube root and alignment *)

Log2Floor(n) == WordBits - 1 - Clz(n)
Log2Ceil_OfN(n) == IF n = 1 THEN 0 ELSE WordBits - Clz(n)
Log2Ceil(n) == IF n = 1 THEN 0 ELSE WordBits - Clz(n - 1)
NextPow2(n) == IF n <= 1 THEN {1} ELSE Shls(1, Log2Ceil(n))

\* first is cbrt of the C library in floating point, rounded either way.
RECURSIVE Lowered(_, _), Raised(_, _)
Lowered(n, x) == IF Wrap(x * x * x) > n THEN Lowered(n, x - 1) ELSE x
Raised(n, x) ==
    IF Wrap((x + 1) * (x + 1) * (x + 1)) <= n THEN Raised(n, x + 1) ELSE x
ICbrt(n, first) == IF n = 0 THEN 0 ELSE Raised(n, Lowered(n, first))

AlignUp(n, a) == Wrap(n + a - 1) & Inverted(a - 1)
AlignDown(n, a) == n & Inverted(a - 1)

-----------------------------------------------------------------------------
(* What they promise, against the set of the bits of a word.               *)

BitSet(x) == {k \in 0 .. WordBits - 1 : (x \div 2 ^ k) % 2 = 1}

\* Counts, reversals, rotations and fields are those of the set of bits: rotations
\* by every count, however a shift by the whole word comes out, and fields shorter
\* than the word.  (Of the field that is the whole word the code takes or replaces
\* all or nothing, as that shift comes out.)
BitsExact(x) ==
    /\ Popcount(x) = Cardinality(BitSet(x))
    /\ x # 0 => Ctz(x) = Min(BitSet(x)) /\ Clz(x) = WordBits - 1 - Max(BitSet(x))
    /\ BitSet(ReverseBits(x)) = {WordBits - 1 - k : k \in BitSet(x)}
    /\ BitSet(Bswap(x)) =
         {WordBits - ByteBits * (k \div ByteBits + 1) + (k % ByteBits) : k \in BitSet(x)}
    /\ \A n \in 0 .. WordBits :
         \A rotated \in Rol(x, n) :
             /\ BitSet(rotated) = {(k + n) % WordBits : k \in BitSet(x)}
             /\ Ror(rotated, n) = {x}
    /\ \A lo \in 0 .. WordBits - 1 : \A len \in 0 .. Min({WordBits - lo, WordBits - 1}) :
         /\ Extract(x, lo, len) = {(x \div 2 ^ lo) % 2 ^ len}
         /\ \A val \in {x, Inverted(x)} : \A new \in Insert(x, val, lo, len) :
              BitSet(new) = (BitSet(x) \ (lo .. lo + len - 1))
                            \cup {k \in lo .. lo + len - 1 : k - lo \in BitSet(val)}

\* Logarithms and roots round as they say, below the words at which the code
\* wraps: those past UMax \div 2 + 1 for math_next_pow2, those whose root plus 1
\* has no cube for math_icbrt.
RootsExact(n) ==
    /\ n > 0 => /\ 2 ^ Log2Floor(n) <= n /\ n < 2 ^ (Log2Floor(n) + 1)
                /\ 2 ^ Log2Ceil(n) >= n /\ (n > 1 => 2 ^ Log2Ceil(n) < 2 * n)
    /\ n <= IMax + 1 =>
         NextPow2(n) = {Min({2 ^ k : k \in {j \in 0 .. WordBits : 2 ^ j >= n}})}
    /\ LET root == Max({r \in 0 .. n : r * r * r <= n})
       IN  (root + 1) * (root + 1) * (root + 1) <= UMax =>
             \A first \in root - 1 .. root + 1 : first >= 0 => ICbrt(n, first) = root

\* A word is aligned up and down to a power of two, where the sum does not wrap.
AlignExact(n, a) ==
    Cardinality(BitSet(a)) = 1 /\ n + a - 1 <= UMax =>
        /\ AlignUp(n, a) = DivCeil(n, a) * a
        /\ AlignDown(n, a) = (n \div a) * a

\* The comment of bit_next_perm: the next word with as many bits, if there is
\* one.
NextPermExact(v) ==
    LET larger == {w \in v + 1 .. UMax : Cardinality(BitSet(w)) = Cardinality(BitSet(v))}
    IN  v # 0 /\ larger # {} => NextPerm(v) = {Min(larger)}
=============================================================================
