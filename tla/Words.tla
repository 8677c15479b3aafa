-------------------------------- MODULE Words --------------------------------
(***************************************************************************)
(* The arithmetic of baremath.h on words that wrap as the code's uint32_t  *)
(* and uint64_t: checked operations, divisors, the square root and fixed-  *)
(* point numbers.  The versions of a function for the two widths are one   *)
(* operator here.  A program computes with the word it has and operands of *)
(* its own, and what comes out is the next word, wrapped or not.           *)
(***************************************************************************)
EXTENDS Integers

CONSTANTS
    Half,       \* half the number of words: 2^31 or 2^63 in the code
    One,        \* Q16_16_ONE or Q8_24_ONE
    Operands    \* words the program computes with

Values == 2 * Half
UMax == Values - 1
IMax == Half - 1
IMin == -Half

ASSUME WordsAssumption ==
    /\ Half \in Nat \ {0} /\ One \in Nat \ {0}
    /\ Operands \subseteq 0 .. UMax

VARIABLE word

Wrap(n) == n % Values                                          \* (uintN_t)
Signed(n) == IF Wrap(n) > IMax THEN Wrap(n) - Values ELSE Wrap(n)   \* (intN_t)
Magnitude(n) == IF n < 0 THEN -n ELSE n
\* C's division, towards zero.
Quotient(a, b) == LET q == Magnitude(a) \div Magnitude(b)
                  IN  IF (a < 0) = (b < 0) THEN q ELSE -q

-----------------------------------------------------------------------------
(* Checked arithmetic: the truncated result, and whether it was truncated. *)

Checked(out, over) == [out |-> out, over |-> over]

AddU(a, b) == Checked(Wrap(a + b), Wrap(a + b) < a)
SubU(a, b) == Checked(Wrap(a - b), b > a)
MulU_AtMost(a, b) == Checked(Wrap(a * b), a # 0 /\ b >= UMax \div a)
MulU(a, b) == Checked(Wrap(a * b), a # 0 /\ b > UMax \div a)
AddI(a, b) == Checked(Signed(a + b), \/ b > 0 /\ a > IMax - b
                                     \/ b < 0 /\ a < IMin - b)
SubI(a, b) == Checked(Signed(a - b), \/ b < 0 /\ a > IMax + b
                                     \/ b > 0 /\ a < IMin + b)
MulI(a, b) == Checked(Signed(a * b), a * b > IMax \/ a * b < IMin)

-----------------------------------------------------------------------------
(* Divisors and roots *)

MathAbs(x) == IF x < 0 THEN Signed(-x) ELSE x

\* Euclid's loop, from the two numbers it has.
Gcd(a, b) ==
    LET gcd[p \in Nat \X Nat] ==
            IF p[2] = 0 THEN p[1] ELSE gcd[<<p[2], p[1] % p[2]>>]
    IN  gcd[<<a, b>>]

Lcm(a, b) ==
    IF a = 0 \/ b = 0 THEN 0
    ELSE LET r == MulU(a \div Gcd(a, b), b) IN IF r.over THEN 0 ELSE r.out

\* Newton's steps from above: x is the root so far and y the next.  For the
\* largest word the first y wraps to 0, and the code divides by it.
ISqrt(n) ==
    LET root[x \in 1 .. n] ==
            LET y == Wrap(x + n \div x) \div 2 IN IF y >= x THEN x ELSE root[y]
    IN  IF n = 0 THEN 0 ELSE root[n]

DivCeil(a, b) == Wrap(a + b - 1) \div b

-----------------------------------------------------------------------------
(* Fixed point: the raw word of a number is the number times One.          *)

FixFromInt(i) == Signed(i * One)
FixToInt(q) == q \div One
FixAdd(a, b) == Signed(a + b)
FixSub(a, b) == Signed(a - b)
FixMul(a, b) == Signed((a * b) \div One)
FixDiv(a, b) == Signed(Quotient(a * One, b))
FixNeg(a) == Signed(-a)
FixMin(a, b) == IF a < b THEN a ELSE b
FixMax(a, b) == IF a > b THEN a ELSE b

-----------------------------------------------------------------------------
(* The program *)

WordsInit == word = 0

WordsNext ==
    \E b \in Operands :
        word' \in {AddU(word, b).out, SubU(word, b).out, MulU(word, b).out,
                   Gcd(word, b), Lcm(word, b), Wrap(FixMul(Signed(word), Signed(b)))}

WordsSpec == WordsInit /\ [][WordsNext]_word

-----------------------------------------------------------------------------
(* What they promise, against unbounded integers.                          *)

\* An operation that says its result is exact has the result of unbounded
\* integers, and one that says it is truncated has no exact one.
Truthful(result, exact, low, high) ==
    /\ result.over = (exact \notin low .. high)
    /\ ~result.over => result.out = exact
CheckedExact(a, b) ==
    /\ Truthful(AddU(a, b), a + b, 0, UMax)
    /\ Truthful(SubU(a, b), a - b, 0, UMax)
    /\ Truthful(MulU(a, b), a * b, 0, UMax)
    /\ LET x == Signed(a)
           y == Signed(b)
       IN  /\ Truthful(AddI(x, y), x + y, IMin, IMax)
           /\ Truthful(SubI(x, y), x - y, IMin, IMax)
           /\ Truthful(MulI(x, y), x * y, IMin, IMax)
           /\ x # IMin => MathAbs(x) = Magnitude(x)

Divides(d, n) == n % d = 0

\* The divisor is common and none is greater, the multiple is the product over it
\* or does not fit, and a rounded quotient is the least that reaches the word,
\* where the sum in it does not wrap.
DivisorsExact(a, b) ==
    /\ a > 0 /\ b > 0 =>
         LET g == Gcd(a, b)
             least == (a * b) \div g
         IN  /\ g \in 1 .. a /\ Divides(g, a) /\ Divides(g, b)
             /\ \A d \in 1 .. a : Divides(d, a) /\ Divides(d, b) => d <= g
             /\ Lcm(a, b) = (IF least > UMax THEN 0 ELSE least)
    /\ b > 0 /\ a + b - 1 <= UMax =>
         DivCeil(a, b) * b >= a /\ DivCeil(a, b) * b < a + b

\* The root is rounded down, below the word at which the code wraps.
SquareRootExact(n) ==
    n < UMax => ISqrt(n) * ISqrt(n) <= n /\ n < (ISqrt(n) + 1) * (ISqrt(n) + 1)

\* A product of fixed-point numbers is the exact one rounded down and a
\* quotient the exact one rounded towards zero, where the result is in range.
FixedExact(a, b) ==
    LET InRange(n) == n \in IMin .. IMax
    IN  /\ InRange(a * One) => FixToInt(FixFromInt(a)) = a /\ FixMul(FixFromInt(a), b) = Signed(a * b)
        /\ InRange((a * b) \div One) =>
             FixMul(a, b) * One <= a * b /\ a * b < (FixMul(a, b) + 1) * One
        /\ b # 0 /\ InRange(Quotient(a * One, b)) =>
             LET rest == a * One - FixDiv(a, b) * b
             IN  Magnitude(rest) < Magnitude(b) /\ rest * a >= 0
        /\ FixSub(FixAdd(a, b), b) = a /\ FixAdd(a, FixNeg(a)) = 0
        /\ FixMin(a, b) + FixMax(a, b) = a + b

\* Whatever words a program has computed, baremath.h computes on words that wrap what
\* it says of integers, and its checked operations tell exactly when they do not.
ArithmeticExact ==
    /\ SquareRootExact(word)
    /\ \A b \in Operands : /\ CheckedExact(word, b) /\ DivisorsExact(word, b)
                           /\ FixedExact(Signed(word), Signed(b))
=============================================================================
