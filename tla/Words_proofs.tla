----------------------------- MODULE Words_proofs -----------------------------
(***************************************************************************)
(* That the arithmetic of baremath.h says of integers what it promises,    *)
(* for words of any width.  A wrapped word is a number some turns away     *)
(* from the exact one, which decides when they are equal; the square root  *)
(* and the divisor are functions the code computes by a loop, so that what *)
(* they give is shown for a smallest argument at which it would fail.      *)
(***************************************************************************)
EXTENDS Words, RingLemmas

\* The bounds of the two readings of a word.
LEMMA Width ==
    /\ Values \in Nat \ {0} /\ Half \in Nat \ {0} /\ Values = 2 * Half
    /\ UMax \in Nat /\ IMax \in Nat /\ IMin \in Int
    /\ UMax = Values - 1 /\ IMax = Half - 1 /\ IMin = -Half
BY WordsAssumption DEF Values, UMax, IMax, IMin

\* A number and its distance in turns from a word decide the word.
LEMMA ModIs ==
    ASSUME NEW n \in Nat \ {0}, NEW r \in 0 .. n - 1, NEW k \in Int
    PROVE  (r + n * k) % n = r
BY ModPlusMultiple, ModSmall

\* A number becomes a word and stays what it is if it is one; a turn above or
\* below the words it comes back into them.
LEMMA WrapIs ==
    ASSUME NEW x \in Int
    PROVE  /\ Wrap(x) \in 0 .. UMax
           /\ x \in 0 .. UMax => Wrap(x) = x
           /\ x \in Values .. Values + UMax => Wrap(x) = x - Values
           /\ x \in -Values .. -1 => Wrap(x) = x + Values
<1>1. Wrap(x) \in 0 .. UMax
  BY DivMod, Width DEF Wrap
<1>2. x \in 0 .. UMax => Wrap(x) = x
  BY ModSmall, Width DEF Wrap
<1>3. ASSUME x \in Values .. Values + UMax PROVE Wrap(x) = x - Values
  <2>1. x - Values \in 0 .. Values - 1 /\ x = (x - Values) + Values * 1
    BY <1>3, Width
  <2>2. ((x - Values) + Values * 1) % Values = x - Values
    BY <2>1, Width, ModIs
  <2> QED BY <2>1, <2>2 DEF Wrap
<1>4. ASSUME x \in -Values .. -1 PROVE Wrap(x) = x + Values
  <2>1. x + Values \in 0 .. Values - 1 /\ x = (x + Values) + Values * (-1)
    BY <1>4, Width
  <2>2. ((x + Values) + Values * (-1)) % Values = x + Values
    BY <2>1, Width, ModIs
  <2> QED BY <2>1, <2>2 DEF Wrap
<1> QED BY <1>1, <1>2, <1>3, <1>4

\* A number becomes a signed word and stays what it is if it is one; what it
\* becomes is whole turns away from it.
LEMMA SignedIs ==
    ASSUME NEW x \in Int
    PROVE  /\ Signed(x) \in IMin .. IMax
           /\ x \in IMin .. IMax => Signed(x) = x
           /\ \E k \in Int : Signed(x) = x + Values * k
<1>1. Wrap(x) \in 0 .. UMax
  BY WrapIs
<1>2. Signed(x) \in IMin .. IMax
  BY <1>1, Width DEF Signed
<1>3. ASSUME x \in IMin .. IMax PROVE Signed(x) = x
  <2>1. CASE x >= 0
    <3>1. x \in 0 .. UMax /\ ~(x > IMax)
      BY <1>3, <2>1, Width
    <3>2. Wrap(x) = x
      BY <3>1, WrapIs
    <3> QED BY <3>1, <3>2 DEF Signed
  <2>2. CASE x < 0
    <3>1. x \in -Values .. -1 /\ x + Values > IMax
      BY <1>3, <2>2, Width
    <3>2. Wrap(x) = x + Values
      BY <3>1, WrapIs
    <3> QED BY <3>1, <3>2, Width DEF Signed
  <2> QED BY <2>1, <2>2
<1>4. \E k \in Int : Signed(x) = x + Values * k
  <2> DEFINE q == x \div Values
  <2>1. q \in Int /\ x = Values * q + Wrap(x)
    BY Width, DivMod DEF Wrap
  <2> HIDE DEF q
  <2>2. PICK k, l : k = -q /\ l = -q - 1
    OBVIOUS
  <2>3. k \in Int /\ l \in Int /\ Values * k = -(Values * q)
        /\ Values * l = -(Values * q) - Values
    BY <2>1, <2>2, Width
  <2>4. \/ Signed(x) = Wrap(x) /\ Wrap(x) = x + Values * k
        \/ Signed(x) = Wrap(x) - Values /\ Wrap(x) - Values = x + Values * l
    BY <1>1, <2>1, <2>3, Width DEF Signed
  <2> QED BY <2>3, <2>4
<1> QED BY <1>2, <1>3, <1>4

\* Turns do not change what a signed number is.
LEMMA SignedTurns ==
    ASSUME NEW x \in Int, NEW k \in Int
    PROVE  Signed(x + Values * k) = Signed(x)
BY ModPlusMultiple, Width DEF Signed, Wrap

-----------------------------------------------------------------------------
(* Checked arithmetic *)

\* The test of math_mul_u64 against the quotient is one against the product.
LEMMA QuotientTest ==
    ASSUME NEW a \in Nat \ {0}, NEW b \in Nat, NEW m \in Nat
    PROVE  (b > m \div a) <=> (a * b > m)
<1> DEFINE q == m \div a
<1>1. q \in Int /\ m = a * q + (m % a) /\ (m % a) \in 0 .. a - 1
  BY DivMod
<1> HIDE DEF q
<1>2. a * (q + 1) = a * q + a /\ a * (q + 1) \in Int /\ a * q \in Int
  BY <1>1
<1>3. CASE b > q
  <2>1. b - (q + 1) >= 0 /\ b - (q + 1) \in Int
    BY <1>1, <1>3
  <2>2. a * (b - (q + 1)) >= 0 /\ a * (b - (q + 1)) = a * b - a * (q + 1)
    BY <2>1, <1>1
  <2>3. a * b > m
    BY <1>1, <1>2, <2>2
  <2> QED BY <1>3, <2>3 DEF q
<1>4. CASE ~(b > q)
  <2>1. q - b >= 0 /\ q - b \in Int
    BY <1>1, <1>4
  <2>2. a * (q - b) >= 0 /\ a * (q - b) = a * q - a * b
    BY <2>1, <1>1
  <2>3. ~(a * b > m)
    BY <1>1, <1>2, <2>2
  <2> QED BY <1>4, <2>3 DEF q
<1> QED BY <1>3, <1>4

\* math_add_u64, math_sub_u64 and math_mul_u64 tell when they wrap.
LEMMA UnsignedExact ==
    ASSUME NEW a \in 0 .. UMax, NEW b \in 0 .. UMax
    PROVE  /\ Truthful(AddU(a, b), a + b, 0, UMax)
           /\ Truthful(SubU(a, b), a - b, 0, UMax)
           /\ Truthful(MulU(a, b), a * b, 0, UMax)
<1>0. a \in Nat /\ b \in Nat /\ a * b \in Nat
  BY Width
<1>1. Truthful(AddU(a, b), a + b, 0, UMax)
  <2>1. CASE a + b <= UMax
    <3>1. Wrap(a + b) = a + b
      BY <2>1, WrapIs, Width
    <3>2. ~(Wrap(a + b) < a) /\ a + b \in 0 .. UMax
      BY <2>1, <3>1, Width
    <3> QED BY <3>1, <3>2 DEF Truthful, AddU, Checked
  <2>2. CASE ~(a + b <= UMax)
    <3>1. Wrap(a + b) = a + b - Values
      BY <2>2, WrapIs, Width
    <3>2. Wrap(a + b) < a /\ a + b \notin 0 .. UMax
      BY <2>2, <3>1, Width
    <3> QED BY <3>1, <3>2 DEF Truthful, AddU, Checked
  <2> QED BY <2>1, <2>2
<1>2. Truthful(SubU(a, b), a - b, 0, UMax)
  <2>1. CASE b > a
    <3>1. a - b \notin 0 .. UMax
      BY <2>1, Width
    <3> QED BY <2>1, <3>1 DEF Truthful, SubU, Checked
  <2>2. CASE ~(b > a)
    <3>1. a - b \in 0 .. UMax
      BY <2>2, Width
    <3>2. Wrap(a - b) = a - b
      BY <3>1, WrapIs
    <3> QED BY <2>2, <3>1, <3>2 DEF Truthful, SubU, Checked
  <2> QED BY <2>1, <2>2
<1>3. Truthful(MulU(a, b), a * b, 0, UMax)
  <2>1. (a # 0 /\ b > UMax \div a) <=> (a * b > UMax)
    <3>1. CASE a = 0
      <4>1. a * b = 0
        BY <3>1, <1>0
      <4> QED BY <3>1, <4>1, Width
    <3>2. CASE a # 0
      BY <1>0, <3>2, QuotientTest, Width
    <3> QED BY <3>1, <3>2
  <2>2. a * b \in 0 .. UMax => Wrap(a * b) = a * b
    BY <1>0, WrapIs
  <2>3. (a * b \notin 0 .. UMax) <=> (a * b > UMax)
    BY <1>0, Width
  <2> QED BY <2>1, <2>2, <2>3, Zenon DEF Truthful, MulU, Checked
<1> QED BY <1>1, <1>2, <1>3

\* math_add_i32, math_sub_i32 and math_mul_i32 tell when they overflow.
LEMMA SignedExact ==
    ASSUME NEW x \in IMin .. IMax, NEW y \in IMin .. IMax
    PROVE  /\ Truthful(AddI(x, y), x + y, IMin, IMax)
           /\ Truthful(SubI(x, y), x - y, IMin, IMax)
           /\ Truthful(MulI(x, y), x * y, IMin, IMax)
           /\ x # IMin => MathAbs(x) = Magnitude(x)
<1>0. x \in Int /\ y \in Int /\ x * y \in Int /\ x + y \in Int /\ x - y \in Int
  BY Width
<1>1. /\ (\/ y > 0 /\ x > IMax - y
          \/ y < 0 /\ x < IMin - y) <=> (x + y \notin IMin .. IMax)
      /\ (\/ y < 0 /\ x > IMax + y
          \/ y > 0 /\ x < IMin + y) <=> (x - y \notin IMin .. IMax)
      /\ (x * y > IMax \/ x * y < IMin) <=> (x * y \notin IMin .. IMax)
  <2> DEFINE p == x * y
  <2>1. p \in Int
    BY <1>0
  <2> HIDE DEF p
  <2>2. (p > IMax \/ p < IMin) <=> (p \notin IMin .. IMax)
    BY <2>1, Width
  <2> QED BY <1>0, <2>2, Width DEF p
<1>2. /\ x + y \in IMin .. IMax => Signed(x + y) = x + y
      /\ x - y \in IMin .. IMax => Signed(x - y) = x - y
      /\ x * y \in IMin .. IMax => Signed(x * y) = x * y
  BY <1>0, SignedIs
<1>3. Truthful(AddI(x, y), x + y, IMin, IMax)
  BY <1>1, <1>2, Zenon DEF Truthful, AddI, Checked
<1>4. Truthful(SubI(x, y), x - y, IMin, IMax)
  BY <1>1, <1>2, Zenon DEF Truthful, SubI, Checked
<1>5. Truthful(MulI(x, y), x * y, IMin, IMax)
  BY <1>1, <1>2, Zenon DEF Truthful, MulI, Checked
<1>6. x # IMin => MathAbs(x) = Magnitude(x)
  <2> SUFFICES ASSUME x # IMin PROVE MathAbs(x) = Magnitude(x)
    OBVIOUS
  <2>1. x < 0 => -x \in IMin .. IMax
    BY <1>0, Width
  <2>2. x < 0 => Signed(-x) = -x
    BY <1>0, <2>1, SignedIs
  <2> QED BY <2>2 DEF MathAbs, Magnitude
<1> QED BY <1>3, <1>4, <1>5, <1>6

\* All checked operations, and math_abs32.
LEMMA CheckedIsExact ==
    ASSUME NEW a \in 0 .. UMax, NEW b \in 0 .. UMax
    PROVE  CheckedExact(a, b)
<1>1. a \in Int /\ b \in Int
  BY Width
<1>2. Signed(a) \in IMin .. IMax /\ Signed(b) \in IMin .. IMax
  BY <1>1, SignedIs
<1> QED BY <1>2, UnsignedExact, SignedExact DEF CheckedExact

-----------------------------------------------------------------------------
(* Fixed point *)

\* Division rounds down.
LEMMA DivIs ==
    ASSUME NEW n \in Nat \ {0}, NEW x \in Int, NEW q \in Int, NEW r \in 0 .. n - 1,
           x = n * q + r
    PROVE  x \div n = q
<1> DEFINE p == x \div n
<1>1. p \in Int /\ x = n * p + (x % n) /\ (x % n) \in 0 .. n - 1
  BY DivMod
<1> HIDE DEF p
<1>2. q - p \in Int /\ n * (q - p) = n * q - n * p
  BY <1>1
<1>3. n * (q - p) = (x % n) - r
  BY <1>1, <1>2
<1>4. -n < n * (q - p) /\ n * (q - p) < n
  BY <1>1, <1>3
<1>5. q - p = 0
  BY <1>2, <1>4, NoMultipleBetween
<1> QED BY <1>1, <1>5 DEF p

\* Fixed-point operations round as they say, where the result is in range.
LEMMA FixedPoints ==
    ASSUME NEW a \in IMin .. IMax, NEW b \in IMin .. IMax
    PROVE  FixedExact(a, b)
<1> DEFINE InRange(n) == n \in IMin .. IMax
<1>0. a \in Int /\ b \in Int /\ a * b \in Int /\ a * One \in Int /\ One \in Nat \ {0}
  BY Width, WordsAssumption
<1>1. ASSUME InRange(a * One)
      PROVE  FixToInt(FixFromInt(a)) = a /\ FixMul(FixFromInt(a), b) = Signed(a * b)
  <2>1. FixFromInt(a) = a * One
    BY <1>0, <1>1, SignedIs DEF FixFromInt
  <2>2. (a * One) \div One = a
    <3>1. a * One = One * a + 0 /\ 0 \in 0 .. One - 1
      BY <1>0
    <3> QED BY <1>0, <3>1, DivIs
  <2>3. ((a * One) * b) \div One = a * b
    <3>1. (a * One) * b = One * (a * b) + 0 /\ 0 \in 0 .. One - 1 /\ (a * One) * b \in Int
      BY <1>0
    <3> QED BY <1>0, <3>1, DivIs
  <2> QED BY <2>1, <2>2, <2>3 DEF FixToInt, FixMul
<1>2. ASSUME InRange((a * b) \div One)
      PROVE  FixMul(a, b) * One <= a * b /\ a * b < (FixMul(a, b) + 1) * One
  <2> DEFINE p == a * b
             q == p \div One
  <2>1. q \in Int /\ p = One * q + (p % One) /\ (p % One) \in 0 .. One - 1
    BY <1>0, DivMod
  <2>2. FixMul(a, b) = q
    BY <2>1, <1>2, SignedIs DEF FixMul
  <2> HIDE DEF q, p
  <2>3. q * One = One * q /\ (q + 1) * One = One * q + One
    BY <2>1, <1>0
  <2>4. q * One <= p /\ p < (q + 1) * One
    BY <1>0, <2>1, <2>3
  <2> QED BY <2>2, <2>4 DEF p
<1>3. ASSUME b # 0, InRange(Quotient(a * One, b))
      PROVE  LET rest == a * One - FixDiv(a, b) * b
             IN  Magnitude(rest) < Magnitude(b) /\ rest * a >= 0
  <2> DEFINE x == a * One
             m == Magnitude(x)
             n == Magnitude(b)
             q == m \div n
             r == m % n
             t == Quotient(x, b)
  <2>1. n \in Nat \ {0} /\ m \in Nat
    BY <1>0, <1>3 DEF Magnitude
  <2>2. q \in Int /\ m = n * q + r /\ r \in 0 .. n - 1
    <3> HIDE DEF m, n
    <3> QED BY <2>1, DivMod
  <2>3. t = IF (x < 0) = (b < 0) THEN q ELSE -q
    BY DEF Quotient
  <2>4. FixDiv(a, b) = t
    <3>1. t \in Int
      BY <2>2, <2>3
    <3> QED BY <1>3, <3>1, SignedIs DEF FixDiv
  <2>5. m = (IF x < 0 THEN -x ELSE x) /\ n = (IF b < 0 THEN -b ELSE b)
    BY DEF Magnitude
  <2>6. x \in Int /\ (a >= 0 => x >= 0) /\ (a < 0 => x < 0)
    BY <1>0
  <2> HIDE DEF x, m, n, q, r, t
  <2>7. /\ b < 0 => n * q = -(q * b) /\ (-q) * b = -(q * b)
        /\ b >= 0 => n * q = q * b /\ (-q) * b = -(q * b)
    BY <1>0, <2>2, <2>5
  <2>8. x - t * b = IF x < 0 THEN -r ELSE r
    <3>1. q * b \in Int /\ n * q \in Int /\ (-q) * b \in Int
      BY <1>0, <2>1, <2>2
    <3>2. CASE x < 0
      <4>1. CASE b < 0
        <5>1. t = q /\ x = -m /\ n * q = -(q * b)
          BY <2>3, <2>5, <2>7, <3>2, <4>1, <2>6
        <5>2. x - q * b = -r
          BY <2>2, <3>1, <5>1
        <5> QED BY <3>2, <5>1, <5>2
      <4>2. CASE ~(b < 0)
        <5>1. t = -q /\ x = -m /\ n * q = q * b /\ (-q) * b = -(q * b)
          BY <1>0, <2>3, <2>5, <2>7, <3>2, <4>2, <2>6
        <5>2. x - (-q) * b = -r
          BY <2>2, <3>1, <5>1
        <5> QED BY <3>2, <5>1, <5>2
      <4> QED BY <4>1, <4>2
    <3>3. CASE ~(x < 0)
      <4>1. CASE b < 0
        <5>1. t = -q /\ x = m /\ n * q = -(q * b) /\ (-q) * b = -(q * b)
          BY <2>3, <2>5, <2>7, <3>3, <4>1, <2>6
        <5>2. x - (-q) * b = r
          BY <2>2, <3>1, <5>1
        <5> QED BY <3>3, <5>1, <5>2
      <4>2. CASE ~(b < 0)
        <5>1. t = q /\ x = m /\ n * q = q * b
          BY <1>0, <2>3, <2>5, <2>7, <3>3, <4>2, <2>6
        <5>2. x - q * b = r
          BY <2>2, <3>1, <5>1
        <5> QED BY <3>3, <5>1, <5>2
      <4> QED BY <4>1, <4>2
    <3> QED BY <3>2, <3>3
  <2> DEFINE rest == x - t * b
  <2>9. rest \in Int /\ Magnitude(rest) = r
    BY <2>2, <2>8, <2>1 DEF Magnitude
  <2>10. /\ a < 0 => rest <= 0
         /\ a >= 0 => rest >= 0
    BY <1>0, <2>2, <2>6, <2>8, <2>1
  <2> HIDE DEF rest
  <2>11. rest * a >= 0
    BY <1>0, <2>9, <2>10
  <2>12. Magnitude(rest) < n
    BY <2>1, <2>2, <2>9
  <2> QED BY <2>4, <2>11, <2>12 DEF rest, x, n
<1>4. FixSub(FixAdd(a, b), b) = a
  <2>1. PICK k \in Int : Signed(a + b) = (a + b) + Values * k
    BY <1>0, SignedIs
  <2>2. Values * k \in Int
    BY <2>1, Width
  <2>3. Signed(a + b) - b = a + Values * k
    BY <1>0, <2>1, <2>2
  <2>4. Signed(a + Values * k) = Signed(a)
    BY <1>0, SignedTurns
  <2> QED BY <1>0, <2>3, <2>4, SignedIs DEF FixSub, FixAdd
<1>5. FixAdd(a, FixNeg(a)) = 0
  <2>1. -a \in Int
    BY <1>0
  <2>2. PICK k \in Int : Signed(-a) = (-a) + Values * k
    BY <2>1, SignedIs
  <2>3. Values * k \in Int
    BY <2>2, Width
  <2>4. a + Signed(-a) = 0 + Values * k
    BY <1>0, <2>2, <2>3
  <2>5. Signed(0 + Values * k) = Signed(0)
    BY <2>2, SignedTurns
  <2>6. Signed(0) = 0
    BY Width, SignedIs
  <2> QED BY <2>4, <2>5, <2>6 DEF FixAdd, FixNeg
<1>6. FixMin(a, b) + FixMax(a, b) = a + b
  BY <1>0 DEF FixMin, FixMax
<1> QED BY <1>1, <1>2, <1>3, <1>4, <1>5, <1>6 DEF FixedExact

-----------------------------------------------------------------------------
(* The square root *)

\* Newton's steps of math_isqrt end at the root rounded down: (x + 1)^2 stays
\* above n, as the mean of two numbers is not below the root of their product,
\* and a step that lowers x no more has x * x <= n.
LEMMA RootIsExact ==
    ASSUME NEW n \in 0 .. UMax
    PROVE  SquareRootExact(n)
<1> SUFFICES ASSUME n < UMax
             PROVE  ISqrt(n) * ISqrt(n) <= n /\ n < (ISqrt(n) + 1) * (ISqrt(n) + 1)
  BY DEF SquareRootExact
<1>0. n \in Nat
  BY Width
<1>1. CASE n = 0
  <2>1. ISqrt(n) = 0
    BY <1>1 DEF ISqrt
  <2> QED BY <1>1, <2>1
<1>2. CASE n # 0
  <2> DEFINE Below(s) == s * s <= n /\ n < (s + 1) * (s + 1)
             Step(x) == Wrap(x + n \div x) \div 2
             root == CHOOSE root : root = [x \in 1 .. n |->
                         IF Step(x) >= x THEN x ELSE root[Step(x)]]
  \* The root exists: of the numbers whose next one has too large a square, the first.
  <2>1. \E s \in 1 .. n : Below(s)
    <3> DEFINE S == {s \in Nat : n < (s + 1) * (s + 1)}
    <3>1. n \in S
      BY <1>0
    <3>2. S # {} /\ S \subseteq Nat
      BY <3>1
    <3> HIDE DEF S
    <3>3. PICK s \in S : \A y \in S : ~(y < s)
      BY <3>2, FirstExists
    <3>4. s \in Nat /\ n < (s + 1) * (s + 1)
      BY <3>3 DEF S
    <3>5. s # 0
      BY <1>0, <1>2, <3>4
    <3>6. s - 1 \in Nat /\ s - 1 < s
      BY <3>4, <3>5
    <3>7. s - 1 \notin S
      BY <3>3, <3>6
    <3>8. ~(n < ((s - 1) + 1) * ((s - 1) + 1))
      BY <3>6, <3>7 DEF S
    <3>9. (s - 1) + 1 = s
      BY <3>4
    <3>10. s * s <= n
      BY <1>0, <3>4, <3>8, <3>9
    <3>11. s * s >= s
      BY <3>4, <3>5
    <3>12. s \in 1 .. n
      BY <1>0, <3>4, <3>5, <3>10, <3>11
    <3> QED BY <3>4, <3>10, <3>12
  <2>2. PICK s \in 1 .. n : Below(s)
    BY <2>1
  \* A step from above does not go below the root, and stops there.
  <2>3. ASSUME NEW x \in 1 .. n
        PROVE  /\ Step(x) \in Nat
               /\ x * x <= n => Step(x) >= x
               /\ ~(x * x <= n) => Step(x) < x /\ Step(x) >= s /\ Step(x) \in 1 .. n
    <3> DEFINE q == n \div x
               y == Step(x)
    <3>1. x \in Nat \ {0} /\ q \in Int /\ n = x * q + (n % x) /\ (n % x) \in 0 .. x - 1
      BY <1>0, DivMod
    <3> HIDE DEF q
    <3>2. q >= 1
      <4> SUFFICES ASSUME q <= 0 PROVE FALSE
        BY <3>1
      <4>1. x * (-q) >= 0 /\ x * (-q) = -(x * q) /\ x * q \in Int
        BY <3>1
      <4>2. x <= n
        BY <1>0
      <4> QED BY <1>0, <3>1, <4>1, <4>2
    <3>3. x + q <= n + 1
      <4>1. (x - 1) * (q - 1) >= 0
        BY <3>1, <3>2
      <4>2. (x - 1) * (q - 1) = x * q - x - q + 1 /\ x * q \in Int
        BY <3>1
      <4> QED BY <1>0, <3>1, <4>1, <4>2
    <3>4. x + q \in 0 .. UMax
      BY <1>0, <3>1, <3>2, <3>3, Width
    <3>5. Wrap(x + q) = x + q
      BY <3>4, WrapIs
    <3>6. y = (x + q) \div 2
      BY <3>5 DEF q
    <3> HIDE DEF y
    <3>7. y \in Int /\ x + q = 2 * y + ((x + q) % 2) /\ ((x + q) % 2) \in 0 .. 1
      <4> DEFINE z == x + q
      <4>1. z \in Int /\ 2 \in Nat \ {0}
        BY <3>1
      <4> HIDE DEF z
      <4>2. z \div 2 \in Int /\ z = 2 * (z \div 2) + (z % 2) /\ (z % 2) \in 0 .. 1
        BY <4>1, DivMod
      <4> QED BY <3>6, <4>2 DEF z
    <3>8. y \in Nat
      BY <3>1, <3>2, <3>7
    <3>9. ASSUME x * x <= n PROVE y >= x
      <4>1. q >= x
        <5> SUFFICES ASSUME q + 1 <= x PROVE FALSE
          BY <3>1
        <5>1. x * (x - (q + 1)) >= 0 /\ x * (x - (q + 1)) = x * x - x * q - x
              /\ x * q \in Int /\ x * x \in Int
          BY <3>1
        <5> QED BY <1>0, <3>1, <3>9, <5>1
      <4> QED BY <3>1, <3>7, <4>1
    <3>10. ASSUME ~(x * x <= n) PROVE y < x /\ y >= s /\ y \in 1 .. n
      <4>1. q < x
        <5> SUFFICES ASSUME q >= x PROVE FALSE
          BY <3>1
        <5>1. x * (q - x) >= 0 /\ x * (q - x) = x * q - x * x
              /\ x * q \in Int /\ x * x \in Int
          BY <3>1
        <5> QED BY <1>0, <3>1, <3>10, <5>1
      <4>2. y < x
        BY <3>1, <3>7, <4>1
      <4>3. n < (y + 1) * (y + 1)
        <5> DEFINE p == q + 1
        <5>1. n < x * p /\ p \in Nat /\ x * p \in Int
          <6>1. x * p = x * q + x /\ x * q \in Int
            BY <3>1
          <6> QED BY <1>0, <3>1, <3>2, <6>1
        <5>2. 2 * (y + 1) >= x + p
          BY <3>1, <3>7
        <5> HIDE DEF p
        <5>3. PICK d \in Nat : 2 * (y + 1) = (x + p) + d
          <6>1. 2 * (y + 1) - (x + p) \in Nat
            BY <3>1, <3>8, <5>1, <5>2
          <6>2. 2 * (y + 1) = (x + p) + (2 * (y + 1) - (x + p))
            BY <3>1, <3>8, <5>1
          <6> QED BY <6>1, <6>2
        <5>4. (2 * (y + 1)) * (2 * (y + 1)) >= (x + p) * (x + p)
          <6>1. ((x + p) + d) * ((x + p) + d) = (x + p) * (x + p) + 2 * ((x + p) * d) + d * d
            BY <3>1, <5>1, <5>3
          <6>2. (x + p) * d >= 0 /\ d * d >= 0 /\ (x + p) * d \in Int /\ d * d \in Int
                /\ (x + p) * (x + p) \in Int
            BY <3>1, <5>1, <5>3
          <6> QED BY <5>3, <6>1, <6>2
        <5>5. (x + p) * (x + p) >= 4 * (x * p)
          <6>1. (x - p) * (x - p) >= 0
            BY <3>1, <5>1
          <6>2. (x - p) * (x - p) = (x + p) * (x + p) - 4 * (x * p)
            BY <3>1, <5>1
          <6>3. (x + p) * (x + p) \in Int
            BY <3>1, <5>1
          <6> QED BY <5>1, <6>1, <6>2, <6>3
        <5>6. (2 * (y + 1)) * (2 * (y + 1)) = 4 * ((y + 1) * (y + 1))
          BY <3>8
        <5>7. (y + 1) * (y + 1) \in Int /\ (x + p) * (x + p) \in Int
          BY <3>1, <3>8, <5>1
        <5> QED BY <1>0, <5>1, <5>4, <5>5, <5>6, <5>7
      <4>4. y >= s
        <5> SUFFICES ASSUME y + 1 <= s PROVE FALSE
          BY <3>8
        <5>1. (y + 1) * (y + 1) <= s * s
          <6>1. s * (s - (y + 1)) >= 0 /\ s * (s - (y + 1)) = s * s - s * (y + 1)
            BY <3>8
          <6>2. (y + 1) * (s - (y + 1)) >= 0
                /\ (y + 1) * (s - (y + 1)) = s * (y + 1) - (y + 1) * (y + 1)
            BY <3>8
          <6>3. s * s \in Int /\ s * (y + 1) \in Int /\ (y + 1) * (y + 1) \in Int
            BY <3>8
          <6> QED BY <6>1, <6>2, <6>3
        <5>2. s * s \in Int /\ (y + 1) * (y + 1) \in Int
          BY <3>8
        <5> QED BY <1>0, <2>2, <4>3, <5>1, <5>2
      <4>5. s \in Nat /\ s >= 1 /\ x \in Nat /\ x <= n
        BY <1>0
      <4>6. y \in 1 .. n
        BY <1>0, <3>8, <4>2, <4>4, <4>5
      <4> QED BY <4>2, <4>4, <4>6
    <3> QED BY <3>8, <3>9, <3>10 DEF y
  <2>4. ASSUME NEW x \in 1 .. n, x * x <= n, x >= s PROVE x = s
    <3> SUFFICES ASSUME x >= s + 1 PROVE FALSE
      BY <2>4
    <3>1. x * (x - (s + 1)) >= 0 /\ x * (x - (s + 1)) = x * x - x * (s + 1)
      BY <2>4
    <3>2. (s + 1) * (x - (s + 1)) >= 0
          /\ (s + 1) * (x - (s + 1)) = x * (s + 1) - (s + 1) * (s + 1)
      BY <2>4
    <3>3. x * x \in Int /\ x * (s + 1) \in Int /\ (s + 1) * (s + 1) \in Int
      OBVIOUS
    <3> QED BY <1>0, <2>2, <2>4, <3>1, <3>2, <3>3
  <2> HIDE DEF Step, Below
  \* So one function follows the loop, and root is one that does.
  <2>5. \E f : f = [x \in 1 .. n |-> IF Step(x) >= x THEN x ELSE f[Step(x)]]
    <3> DEFINE f == [x \in 1 .. n |-> IF x * x <= n THEN x ELSE s]
    <3>1. ASSUME NEW x \in 1 .. n PROVE f[x] = IF Step(x) >= x THEN x ELSE f[Step(x)]
      <4>1. CASE x * x <= n
        BY <2>3, <4>1
      <4>2. CASE ~(x * x <= n)
        <5>1. Step(x) < x /\ Step(x) >= s /\ Step(x) \in 1 .. n
          BY <2>3, <4>2
        <5>2. f[Step(x)] = s
          BY <2>4, <5>1
        <5>3. ~(Step(x) >= x)
          BY <5>1
        <5> QED BY <4>2, <5>2, <5>3
      <4> QED BY <4>1, <4>2
    <3>2. f = [x \in 1 .. n |-> f[x]]
      OBVIOUS
    <3> HIDE DEF f
    <3>3. f = [x \in 1 .. n |-> IF Step(x) >= x THEN x ELSE f[Step(x)]]
      BY <3>1, <3>2
    <3> QED BY <3>3
  <2>6. root = [x \in 1 .. n |-> IF Step(x) >= x THEN x ELSE root[Step(x)]]
    BY <2>5, Zenon
  <2>7. ISqrt(n) = root[n]
    BY <1>2 DEF ISqrt, Step
  <2> HIDE DEF root
  <2>8. \A x \in 1 .. n : x >= s => root[x] = s
    <3> DEFINE B == {x \in 1 .. n : x >= s /\ root[x] # s}
    <3> SUFFICES ASSUME B # {} PROVE FALSE
      OBVIOUS
    <3>1. B \subseteq Nat
      OBVIOUS
    <3> HIDE DEF B
    <3>2. PICK x \in B : \A z \in B : ~(z < x)
      BY <3>1, FirstExists
    <3>3. x \in 1 .. n /\ x >= s /\ root[x] # s
      BY <3>2 DEF B
    <3>4. root[x] = IF Step(x) >= x THEN x ELSE root[Step(x)]
      BY <2>6, <3>3
    <3>5. CASE x * x <= n
      BY <2>3, <2>4, <3>3, <3>4, <3>5
    <3>6. CASE ~(x * x <= n)
      <4>1. Step(x) < x /\ Step(x) >= s /\ Step(x) \in 1 .. n
        BY <2>3, <3>3, <3>6
      <4>2. Step(x) \notin B
        BY <3>2, <4>1
      <4>3. root[Step(x)] = s
        BY <4>1, <4>2 DEF B
      <4>4. ~(Step(x) >= x)
        BY <3>3, <4>1
      <4> QED BY <3>3, <3>4, <4>3, <4>4
    <3> QED BY <3>5, <3>6
  <2>9. n \in 1 .. n /\ n >= s
    BY <1>0, <1>2
  <2> QED BY <2>2, <2>7, <2>8, <2>9 DEF Below
<1> QED BY <1>1, <1>2

-----------------------------------------------------------------------------
(* Divisors *)

Common(a, b, d) == Divides(d, a) /\ Divides(d, b)
IsGcd(a, b, d) ==
    IF a = 0 /\ b = 0 THEN d = 0
    ELSE /\ d \in Nat \ {0} /\ Common(a, b, d)
         /\ \A e \in Nat \ {0} : Common(a, b, e) => e <= d

\* A divisor of a number but 0 is no larger.
LEMMA DivisorBelow ==
    ASSUME NEW a \in Nat \ {0}, NEW d \in Nat \ {0}, Divides(d, a)
    PROVE  d <= a
<1> SUFFICES ASSUME a < d PROVE FALSE
  OBVIOUS
<1>1. a \in 0 .. d - 1
  OBVIOUS
<1>2. a % d = a
  BY <1>1, ModSmall
<1> QED BY <1>2 DEF Divides

\* A step of Euclid's loop keeps the common divisors.
LEMMA CommonStays ==
    ASSUME NEW a \in Nat, NEW b \in Nat \ {0}, NEW d \in Nat \ {0}
    PROVE  Common(a, b, d) <=> Common(b, a % b, d)
<1> SUFFICES ASSUME b % d = 0 PROVE a % d = 0 <=> (a % b) % d = 0
  BY Zenon DEF Common, Divides
<1> DEFINE q == a \div b
           k == b \div d
           r == a % b
<1>4. k \in Int /\ b = d * k
  <2>1. k \in Int /\ b = d * k + (b % d)
    BY DivMod
  <2> QED BY <2>1
<1>5. q \in Int /\ r \in Int /\ a = b * q + r
  BY DivMod
<1> HIDE DEF q, k, r
<1>6. k * q \in Int /\ b * q = d * (k * q)
  BY <1>4, <1>5
<1>7. (r + d * (k * q)) % d = r % d
  BY <1>5, <1>6, ModPlusMultiple
<1>8. a = r + d * (k * q)
  BY <1>5, <1>6
<1>9. a % d = r % d
  BY <1>7, <1>8
<1> QED BY <1>9 DEF r

\* Nor does such a step change the greatest of them.
LEMMA GcdStays ==
    ASSUME NEW a \in Nat, NEW b \in Nat \ {0}, NEW d
    PROVE  IsGcd(a, b, d) <=> IsGcd(b, a % b, d)
<1>1. \A e \in Nat \ {0} : Common(a, b, e) <=> Common(b, a % b, e)
  BY CommonStays
<1>2. ~(a = 0 /\ b = 0) /\ ~(b = 0 /\ a % b = 0)
  OBVIOUS
<1> QED BY <1>1, <1>2, Zenon DEF IsGcd

\* Two numbers have a greatest common divisor ...
LEMMA GcdExists ==
    ASSUME NEW a \in Nat, NEW b \in Nat
    PROVE  \E d : IsGcd(a, b, d)
<1>1. CASE a = 0 /\ b = 0
  BY <1>1 DEF IsGcd
<1>2. CASE ~(a = 0 /\ b = 0)
  <2> DEFINE D == {d \in Nat \ {0} : Common(a, b, d)}
             S == {k \in Nat : \E d \in D : k = a + b - d}
  <2>1. \A d \in D : d \in Nat \ {0} /\ d <= a + b
    <3> SUFFICES ASSUME NEW d \in D PROVE d <= a + b
      OBVIOUS
    <3>1. a # 0 => d <= a
      BY DivisorBelow DEF Common
    <3>2. b # 0 => d <= b
      BY DivisorBelow DEF Common
    <3> QED BY <1>2, <3>1, <3>2
  <2>2. 1 \in D
    <3>1. a % 1 = 0 /\ b % 1 = 0
      OBVIOUS
    <3> QED BY <3>1 DEF Common, Divides
  <2> HIDE DEF D
  <2>3. a + b - 1 \in S
    BY <2>1, <2>2
  <2>4. S \subseteq Nat /\ S # {}
    BY <2>3
  <2> HIDE DEF S
  <2>5. PICK k \in S : \A j \in S : ~(j < k)
    BY <2>4, FirstExists
  <2>6. PICK d \in D : k = a + b - d
    BY <2>5 DEF S
  <2>7. \A e \in D : e <= d
    <3> SUFFICES ASSUME NEW e \in D, e > d PROVE FALSE
      BY <2>1, <2>6
    <3>1. a + b - e \in S
      BY <2>1 DEF S
    <3> QED BY <2>1, <2>5, <2>6, <3>1
  <2> QED BY <1>2, <2>6, <2>7, Zenon DEF IsGcd, D
<1> QED BY <1>1, <1>2

\* ... and only one.
LEMMA GcdIsOne ==
    ASSUME NEW a \in Nat, NEW b \in Nat, NEW d, NEW e, IsGcd(a, b, d), IsGcd(a, b, e)
    PROVE  d = e
<1>1. CASE a = 0 /\ b = 0
  BY <1>1 DEF IsGcd
<1>2. CASE ~(a = 0 /\ b = 0)
  <2>1. d \in Nat /\ e \in Nat /\ d <= e /\ e <= d
    BY <1>2, Zenon DEF IsGcd
  <2> QED BY <2>1
<1> QED BY <1>1, <1>2

\* With nothing left the other number is the divisor.
LEMMA GcdOfZero == ASSUME NEW a \in Nat PROVE IsGcd(a, 0, a)
<1>1. CASE a = 0
  BY <1>1 DEF IsGcd
<1>2. CASE a # 0
  <2>1. Common(a, 0, a)
    BY <1>2, ModSelf, ModSmall DEF Common, Divides
  <2>2. \A e \in Nat \ {0} : Common(a, 0, e) => e <= a
    BY <1>2, DivisorBelow DEF Common
  <2>3. a \in Nat \ {0} /\ ~(a = 0 /\ 0 = 0)
    BY <1>2
  <2> QED BY <2>1, <2>2, <2>3, Zenon DEF IsGcd
<1> QED BY <1>1, <1>2

\* Euclid's loop ends with the greatest common divisor.
LEMMA GcdIsExact == ASSUME NEW a \in Nat, NEW b \in Nat PROVE IsGcd(a, b, Gcd(a, b))
<1> DEFINE N2 == Nat \X Nat
           gcd == CHOOSE gcd : gcd = [p \in N2 |->
                      IF p[2] = 0 THEN p[1] ELSE gcd[<<p[2], p[1] % p[2]>>]]
<1>0. \A p \in N2 : p[2] # 0 => <<p[2], p[1] % p[2]>> \in N2
  <2> SUFFICES ASSUME NEW x \in Nat, NEW y \in Nat, y # 0 PROVE x % y \in Nat
    OBVIOUS
  <2> QED BY DivMod
<1>1. \E f : f = [p \in N2 |-> IF p[2] = 0 THEN p[1] ELSE f[<<p[2], p[1] % p[2]>>]]
  <2> DEFINE f == [p \in N2 |-> CHOOSE d : IsGcd(p[1], p[2], d)]
  <2>1. ASSUME NEW x \in Nat, NEW y \in Nat PROVE IsGcd(x, y, f[<<x, y>>])
    <3>1. \E d : IsGcd(x, y, d)
      BY GcdExists
    <3>2. IsGcd(x, y, CHOOSE d : IsGcd(x, y, d))
      BY <3>1, Zenon
    <3>3. f[<<x, y>>] = CHOOSE d : IsGcd(x, y, d)
      OBVIOUS
    <3> QED BY <3>2, <3>3
  <2>2. f = [p \in N2 |-> f[p]]
    OBVIOUS
  <2> HIDE DEF f
  <2>3. ASSUME NEW x \in Nat, NEW y \in Nat
        PROVE  f[<<x, y>>] = IF y = 0 THEN x ELSE f[<<y, x % y>>]
    <3>1. CASE y = 0
      BY <2>1, <3>1, GcdOfZero, GcdIsOne
    <3>2. CASE y # 0
      <4>1. x % y \in Nat /\ y \in Nat \ {0}
        BY <3>2, DivMod
      <4>2. IsGcd(y, x % y, f[<<y, x % y>>])
        BY <2>1, <4>1
      <4>3. IsGcd(x, y, f[<<y, x % y>>])
        BY <4>1, <4>2, GcdStays
      <4>4. f[<<x, y>>] = f[<<y, x % y>>]
        BY <2>1, <4>3, GcdIsOne
      <4> QED BY <3>2, <4>4
    <3> QED BY <3>1, <3>2
  <2>4. \A p \in N2 : f[p] = IF p[2] = 0 THEN p[1] ELSE f[<<p[2], p[1] % p[2]>>]
    BY <2>3
  <2>5. f = [p \in N2 |-> IF p[2] = 0 THEN p[1] ELSE f[<<p[2], p[1] % p[2]>>]]
    BY <2>2, <2>4
  <2> QED BY <2>5
<1>2. gcd = [p \in N2 |-> IF p[2] = 0 THEN p[1] ELSE gcd[<<p[2], p[1] % p[2]>>]]
  BY <1>1, Zenon
<1>3. Gcd(a, b) = gcd[<<a, b>>]
  BY DEF Gcd
<1> HIDE DEF gcd
<1>4. \A x, y \in Nat : gcd[<<x, y>>] = IF y = 0 THEN x ELSE gcd[<<y, x % y>>]
  BY <1>2
<1> DEFINE B == {y \in Nat : \E x \in Nat : ~IsGcd(x, y, gcd[<<x, y>>])}
<1>5. B = {}
  <2> SUFFICES ASSUME B # {} PROVE FALSE
    OBVIOUS
  <2>1. B \subseteq Nat
    OBVIOUS
  <2> HIDE DEF B
  <2>2. PICK y \in B : \A z \in B : ~(z < y)
    BY <2>1, FirstExists
  <2>3. PICK x \in Nat : ~IsGcd(x, y, gcd[<<x, y>>])
    BY <2>2 DEF B
  <2>4. y \in Nat
    BY <2>1
  <2>5. y # 0
    BY <1>4, <2>3, GcdOfZero
  <2>6. x % y \in Nat /\ x % y < y /\ y \in Nat \ {0}
    BY <2>4, <2>5, DivMod
  <2>7. x % y \notin B
    BY <2>2, <2>6
  <2>8. IsGcd(y, x % y, gcd[<<y, x % y>>])
    BY <2>4, <2>6, <2>7 DEF B
  <2>9. IsGcd(x, y, gcd[<<y, x % y>>])
    BY <2>6, <2>8, GcdStays
  <2> QED BY <1>4, <2>3, <2>4, <2>5, <2>9
<1> QED BY <1>3, <1>5

\* math_gcd, math_lcm and math_div_ceil.
LEMMA DivisorsAreExact ==
    ASSUME NEW a \in 0 .. UMax, NEW b \in 0 .. UMax
    PROVE  DivisorsExact(a, b)
<1>0. a \in Nat /\ b \in Nat /\ a * b \in Nat
  BY Width
<1>1. ASSUME a > 0, b > 0
      PROVE  LET g == Gcd(a, b)
                 least == (a * b) \div g
             IN  /\ g \in 1 .. a /\ Divides(g, a) /\ Divides(g, b)
                 /\ \A d \in 1 .. a : Divides(d, a) /\ Divides(d, b) => d <= g
                 /\ Lcm(a, b) = (IF least > UMax THEN 0 ELSE least)
  <2> DEFINE g == Gcd(a, b)
             k == a \div g
  <2>1. IsGcd(a, b, g)
    BY <1>0, GcdIsExact
  <2>2. ~(a = 0 /\ b = 0)
    BY <1>1
  <2> HIDE DEF g
  <2>3. /\ g \in Nat \ {0} /\ Divides(g, a) /\ Divides(g, b)
        /\ \A e \in Nat \ {0} : Divides(e, a) /\ Divides(e, b) => e <= g
    BY <2>1, <2>2, Zenon DEF IsGcd, Common
  <2>4. g <= a
    BY <1>0, <1>1, <2>3, DivisorBelow
  <2>5. k \in Int /\ a = g * k
    <3>1. k \in Int /\ a = g * k + (a % g)
      BY <1>0, <2>3, DivMod
    <3>2. a % g = 0
      BY <2>3 DEF Divides
    <3>3. g * k \in Int
      BY <2>3, <3>1
    <3> QED BY <3>1, <3>2, <3>3
  <2> HIDE DEF k
  <2>6. k \in 0 .. UMax
    <3>1. k >= 0
      <4> SUFFICES ASSUME k <= -1 PROVE FALSE
        BY <2>5
      <4>1. g * (-k) >= 0 /\ g * (-k) = -(g * k)
        BY <2>3, <2>5
      <4> QED BY <1>0, <1>1, <2>5, <4>1
    <3>2. (g - 1) * k >= 0 /\ (g - 1) * k = g * k - k
      BY <2>3, <2>5, <3>1
    <3> QED BY <1>0, <2>5, <3>1, <3>2, Width
  <2>7. (a * b) \div g = k * b
    <3> DEFINE p == a * b
               q == k * b
    <3>1. p = g * q /\ p \in Int /\ q \in Int /\ 0 \in 0 .. g - 1
      BY <1>0, <2>3, <2>5
    <3> HIDE DEF p, q
    <3>2. p = g * q + 0
      BY <2>3, <3>1
    <3>3. p \div g = q
      BY <2>3, <3>1, <3>2, DivIs
    <3> QED BY <3>3 DEF p, q
  <2>8. Truthful(MulU(k, b), k * b, 0, UMax)
    BY <2>6, UnsignedExact
  <2>9. k * b \in Nat
    BY <1>0, <2>6, Width
  <2>10. MulU(k, b).over = (k * b > UMax) /\ (~MulU(k, b).over => MulU(k, b).out = k * b)
    <3>1. (k * b \notin 0 .. UMax) = (k * b > UMax)
      BY <2>9, Width
    <3> QED BY <2>8, <3>1, Zenon DEF Truthful
  <2>11. Lcm(a, b) = IF MulU(k, b).over THEN 0 ELSE MulU(k, b).out
    BY <1>1, <1>0 DEF Lcm, k, g
  <2>12. Lcm(a, b) = IF k * b > UMax THEN 0 ELSE k * b
    BY <2>10, <2>11, Zenon
  <2>13. g \in 1 .. a /\ \A d \in 1 .. a : d \in Nat \ {0}
    BY <1>0, <2>3, <2>4
  <2> QED BY <2>3, <2>7, <2>12, <2>13, Zenon DEF g
<1>2. ASSUME b > 0, a + b - 1 <= UMax
      PROVE  DivCeil(a, b) * b >= a /\ DivCeil(a, b) * b < a + b
  <2> DEFINE s == a + b - 1
             q == s \div b
  <2>1. s \in 0 .. UMax /\ s \in Int /\ b \in Nat \ {0}
    BY <1>0, <1>2, Width
  <2>2. DivCeil(a, b) = q
    BY <2>1, WrapIs DEF DivCeil
  <2>3. q \in Int /\ s = b * q + (s % b) /\ (s % b) \in 0 .. b - 1
    <3> HIDE DEF s
    <3> QED BY <2>1, DivMod
  <2> HIDE DEF q
  <2>4. q * b = b * q /\ b * q \in Int
    BY <1>0, <2>3
  <2>5. s = a + b - 1
    OBVIOUS
  <2> HIDE DEF s
  <2> QED BY <1>0, <2>1, <2>2, <2>3, <2>4, <2>5
<1> QED BY <1>1, <1>2, Zenon DEF DivisorsExact

-----------------------------------------------------------------------------
(* The program *)

WordOK == word \in 0 .. UMax

\* ArithmeticExact for words of any width and any operands: whatever words a
\* program has computed with baremath.h, its checked operations tell exactly when
\* they wrap, and its divisors, multiples, square roots, rounded quotients and
\* fixed-point numbers are those of unbounded integers.
THEOREM ArithmeticIsExact == WordsSpec => []ArithmeticExact
<1>1. WordsInit => WordOK
  BY Width DEF WordsInit, WordOK
<1>2. WordOK /\ [WordsNext]_word => WordOK'
  <2> SUFFICES ASSUME WordOK, [WordsNext]_word PROVE word' \in 0 .. UMax
    BY DEF WordOK
  <2>1. CASE UNCHANGED word
    BY <2>1 DEF WordOK
  <2>2. CASE WordsNext
    <3>1. PICK b \in Operands :
              word' \in {AddU(word, b).out, SubU(word, b).out, MulU(word, b).out,
                         Gcd(word, b), Lcm(word, b), Wrap(FixMul(Signed(word), Signed(b)))}
      BY <2>2 DEF WordsNext
    <3>2. b \in 0 .. UMax /\ b \in Nat /\ word \in 0 .. UMax /\ word \in Nat
      BY Width, WordsAssumption DEF WordOK
    <3>3. \A x \in Int : Wrap(x) \in 0 .. UMax
      BY WrapIs
    <3>4. AddU(word, b).out \in 0 .. UMax /\ SubU(word, b).out \in 0 .. UMax
      BY <3>2, <3>3 DEF AddU, SubU, Checked
    <3>5. \A x, y \in Nat : MulU(x, y).out \in 0 .. UMax
      BY <3>3 DEF MulU, Checked
    <3>6. Gcd(word, b) \in 0 .. UMax
      <4>1. IsGcd(word, b, Gcd(word, b))
        BY <3>2, GcdIsExact
      <4>2. CASE word = 0 /\ b = 0
        BY <4>1, <4>2, Width DEF IsGcd
      <4>3. CASE ~(word = 0 /\ b = 0)
        <5>1. Gcd(word, b) \in Nat \ {0} /\ Divides(Gcd(word, b), word) /\ Divides(Gcd(word, b), b)
          BY <4>1, <4>3, Zenon DEF IsGcd, Common
        <5>2. word # 0 => Gcd(word, b) <= word
          BY <3>2, <5>1, DivisorBelow
        <5>3. b # 0 => Gcd(word, b) <= b
          BY <3>2, <5>1, DivisorBelow
        <5> QED BY <3>2, <4>3, <5>1, <5>2, <5>3, Width
      <4> QED BY <4>2, <4>3
    <3>7. Lcm(word, b) \in 0 .. UMax
      <4>1. 0 \in 0 .. UMax
        BY Width
      <4>2. CASE word = 0 \/ b = 0
        BY <4>1, <4>2 DEF Lcm
      <4>3. CASE ~(word = 0 \/ b = 0)
        <5>1. IsGcd(word, b, Gcd(word, b))
          BY <3>2, GcdIsExact
        <5>2. Gcd(word, b) \in Nat \ {0}
          BY <4>3, <5>1, Zenon DEF IsGcd
        <5>3. word \div Gcd(word, b) \in Nat
          <6> DEFINE g == Gcd(word, b)
          <6> HIDE DEF g
          <6>1. g \in Nat \ {0}
            BY <5>2 DEF g
          <6>2. word \div g \in Nat
            BY <3>2, <6>1
          <6> QED BY <6>2 DEF g
        <5>4. MulU(word \div Gcd(word, b), b).out \in 0 .. UMax
          BY <3>2, <3>5, <5>3
        <5> QED BY <4>1, <5>4, Zenon DEF Lcm
      <4> QED BY <4>2, <4>3
    <3>8. Wrap(FixMul(Signed(word), Signed(b))) \in 0 .. UMax
      <4>1. Signed(word) \in Int /\ Signed(b) \in Int
        BY <3>2, SignedIs, Width
      <4>2. Signed(word) * Signed(b) \in Int /\ One \in Nat \ {0}
        BY <4>1, WordsAssumption
      <4>3. (Signed(word) * Signed(b)) \div One \in Int
        BY <4>2, DivMod
      <4>4. FixMul(Signed(word), Signed(b)) \in Int
        BY <4>3, SignedIs, Width DEF FixMul
      <4> QED BY <3>3, <4>4
    <3>9. MulU(word, b).out \in 0 .. UMax
      BY <3>2, <3>5
    <3> QED BY <3>1, <3>4, <3>6, <3>7, <3>8, <3>9
  <2> QED BY <2>1, <2>2
<1>3. WordOK => ArithmeticExact
  <2> SUFFICES ASSUME WordOK PROVE ArithmeticExact
    OBVIOUS
  <2>1. word \in 0 .. UMax /\ Operands \subseteq 0 .. UMax
    BY WordsAssumption DEF WordOK
  <2>2. ASSUME NEW b \in Operands PROVE FixedExact(Signed(word), Signed(b))
    <3>1. word \in Int /\ b \in Int
      BY <2>1, Width
    <3> QED BY <3>1, SignedIs, FixedPoints
  <2> QED BY <2>1, <2>2, RootIsExact, CheckedIsExact, DivisorsAreExact DEF ArithmeticExact
<1> QED BY <1>1, <1>2, <1>3, PTL DEF WordsSpec
==============================================================================
