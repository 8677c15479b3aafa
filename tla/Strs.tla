-------------------------------- MODULE Strs --------------------------------
(***************************************************************************)
(* The string operations of barestd.h (lines 368 to 632) and barestrs.h.   *)
(* A Str is a sequence of bytes; positions count from 0 as in the code, -1 *)
(* is "not found" and Null is str_null.  A predicate on bytes is the set   *)
(* of bytes it holds for.  Operations are pure: those that move the        *)
(* cursor of a Str return what is left of it.                              *)
(***************************************************************************)
EXTENDS Integers, SequencesExt

CONSTANTS
    Null,   \* str_null(): no string at all
    Word    \* values of a uint64_t (2^64 in the code)

ASSUME StrsAssumption == Word \in Nat \ {0}

Space == {9, 10, 11, 12, 13, 32}          \* isspace in the C locale
Upper == 65 .. 90
Lower == 97 .. 122
Digit == 48 .. 57
Colon == 58
LF == 10
CR == 13
Slash == 47
Root == <<Slash>>
ToLower(c) == IF c \in Upper THEN c + 32 ELSE c
ToUpper(c) == IF c \in Lower THEN c - 32 ELSE c

From(s, n) == SubSeq(s, n + 1, Len(s))
Upto(s, n) == SubSeq(s, 1, n)
Least(S) == IF S = {} THEN -1 ELSE Min(S)
Greatest(S) == IF S = {} THEN -1 ELSE Max(S)

-----------------------------------------------------------------------------
(* Searching.                                                              *)

HasPrefix(s, pfx) == IsPrefix(pfx, s)
HasSuffix(s, sfx) == IsSuffix(sfx, s)
Hits(hay, needle) ==
    {i \in 0 .. Len(hay) - Len(needle) : HasPrefix(From(hay, i), needle)}
Find(hay, needle) == Least(Hits(hay, needle))
LastFind(hay, needle) == Greatest(Hits(hay, needle))
IndexFunc(s, set) == Least({i \in 0 .. Len(s) - 1 : s[i + 1] \in set})
LastIndexFunc(s, set) == Greatest({i \in 0 .. Len(s) - 1 : s[i + 1] \in set})
EqualFold(s, t) ==
    Len(s) = Len(t) /\ \A i \in DOMAIN s : ToLower(s[i]) = ToLower(t[i])

RECURSIVE Matches(_, _)
Matches(s, sub) ==
    LET pos == Find(s, sub)
    IN  IF Len(s) < Len(sub) \/ pos < 0
        THEN 0 ELSE 1 + Matches(From(s, pos + Len(sub)), sub)

Count(s, sub) == IF sub = <<>> THEN Len(s) + 1 ELSE Matches(s, sub)

-----------------------------------------------------------------------------
(* Trimming and cutting.                                                   *)

TrimLeft(s, set) ==
    IF IndexFunc(s, Range(s) \ set) < 0
    THEN <<>> ELSE From(s, IndexFunc(s, Range(s) \ set))
TrimRight(s, set) == Upto(s, LastIndexFunc(s, Range(s) \ set) + 1)
Trim(s, set) == TrimLeft(TrimRight(s, set), set)
TrimSpace(s) == TrimRight(TrimLeft(s, Space), Space)
TrimPrefix(s, pfx) == IF HasPrefix(s, pfx) THEN From(s, Len(pfx)) ELSE s
TrimSuffix(s, sfx) == IF HasSuffix(s, sfx) THEN Upto(s, Len(s) - Len(sfx)) ELSE s

CutAt(s, pos, n) ==
    IF pos < 0 THEN [before |-> s, after |-> Null, found |-> FALSE]
    ELSE [before |-> Upto(s, pos), after |-> From(s, pos + n), found |-> TRUE]
Cut(s, sep) == CutAt(s, Find(s, sep), Len(sep))
CutFunc(s, set) == CutAt(s, IndexFunc(s, set), 1)
CutPrefix(s, pfx) ==
    [before |-> Null, found |-> HasPrefix(s, pfx),
     after |-> IF HasPrefix(s, pfx) THEN From(s, Len(pfx)) ELSE Null]
CutSuffix(s, sfx) ==
    [before |-> TrimSuffix(s, sfx), after |-> Null, found |-> HasSuffix(s, sfx)]

-----------------------------------------------------------------------------
(* Splitting and building.                                                 *)

\* str_split_n's loop, with the pieces still allowed (n < 0: all of them).
RECURSIVE SplitN(_, _, _)
SplitN(s, sep, n) ==
    LET pos == Find(s, sep)
    IN  IF n = 0 THEN <<>>
        ELSE IF n = 1 \/ pos < 0 THEN <<s>>
        ELSE <<Upto(s, pos)>> \o SplitN(From(s, pos + Len(sep)), sep, n - 1)

Split(s, sep) == SplitN(s, sep, -1)

RECURSIVE SplitAfter(_, _)
SplitAfter(s, sep) ==
    LET end == Find(s, sep) + Len(sep)
    IN  IF Find(s, sep) < 0 THEN <<s>>
        ELSE <<Upto(s, end)>> \o SplitAfter(From(s, end), sep)

RECURSIVE FieldsFunc(_, _)
FieldsFunc(s, set) ==
    LET word == TrimLeft(s, set)
        end == IndexFunc(word, set)
    IN  IF word = <<>> THEN <<>>
        ELSE IF end < 0 THEN <<word>>
        ELSE <<Upto(word, end)>> \o FieldsFunc(From(word, end), set)

Fields(s) == FieldsFunc(s, Space)

\* str_next_token called until it returns null: what is left is empty then.
NextToken(s, sep) ==
    LET pos == Find(s, sep)
    IN  IF s = <<>> THEN [token |-> Null, rest |-> <<>>]
        ELSE IF pos < 0 THEN [token |-> s, rest |-> <<>>]
        ELSE [token |-> Upto(s, pos), rest |-> From(s, pos + Len(sep))]

RECURSIVE Tokens(_, _)
Tokens(s, sep) ==
    LET next == NextToken(s, sep)
    IN  IF next.token = Null THEN <<>>
        ELSE <<next.token>> \o Tokens(next.rest, sep)

Join(parts, sep) ==
    FlattenSeq([i \in DOMAIN parts |-> IF i = 1 THEN parts[1] ELSE sep \o parts[i]])
Repeat(s, count) == FlattenSeq([i \in 1 .. count |-> s])

\* The first pass of str_replace, and the bytes it allocates.
RECURSIVE Occurrences(_, _, _)
Occurrences(s, old, n) ==
    LET pos == Find(s, old)
    IN  IF Len(s) < Len(old) \/ n = 0 \/ pos < 0
        THEN 0 ELSE 1 + Occurrences(From(s, pos + Len(old)), old, n - 1)
ReplaceSize_IgnoresLimit(s, old, new, n) ==
    Len(s) + Occurrences(s, old, -1) * (Len(new) - Len(old))
ReplaceSize(s, old, new, n) ==
    Len(s) + Occurrences(s, old, n) * (Len(new) - Len(old))

\* Its last pass, the one that fills them.
RECURSIVE Replace(_, _, _, _)
Replace(s, old, new, n) ==
    LET pos == Find(s, old)
    IN  IF old = <<>> \/ s = <<>> \/ n = 0 \/ pos < 0 THEN s
        ELSE Upto(s, pos) \o new
             \o Replace(From(s, pos + Len(old)), old, new, n - 1)

Mapped(s, Fn(_)) == [i \in DOMAIN s |-> Fn(s[i])]
ToUpperStr(s) == Mapped(s, ToUpper)
ToLowerStr(s) == Mapped(s, ToLower)
Title(s) ==
    [i \in DOMAIN s |-> IF i = 1 \/ s[i - 1] \in Space THEN ToUpper(s[i]) ELSE s[i]]

-----------------------------------------------------------------------------
(* Reading numbers and booleans off the front.                             *)

DigitValue(c, base) ==
    IF c \in Digit THEN c - 48
    ELSE IF base = 16 /\ ToLower(c) \in 97 .. 102 THEN ToLower(c) - 87
    ELSE -1
SkipBlanks(s) == TrimLeft(s, 0 .. 32)     \* _str_ws_len: any byte up to ' '
Hexed(s) == Len(s) >= 2 /\ s[1] = 48 /\ s[2] \in {88, 120}     \* 0x, 0X
Nothing == [ok |-> FALSE]

\* The digits at the front of a text, as a number of that base and sign.
ReadDigits(s, base, sign) ==
    LET digits == Upto(s, Len(s) - Len(TrimLeft(s, {c \in Range(s) : DigitValue(c, base) >= 0})))
    IN  IF digits = <<>> THEN Nothing
        ELSE [ok |-> TRUE, rest |-> From(s, Len(digits)),
              value |-> sign * FoldLeft(LAMBDA v, c : (v * base + DigitValue(c, base)) % Word,
                                        0, digits)]
Based(s, sign) == ReadDigits(IF Hexed(s) THEN From(s, 2) ELSE s,
                             IF Hexed(s) THEN 16 ELSE 10, sign)
SignedBy(s, signs) ==
    LET signed == s # <<>> /\ s[1] \in signs
    IN  Based(IF signed THEN Tail(s) ELSE s, IF signed /\ s[1] = 45 THEN -1 ELSE 1)
Consumed(s, signs) == SignedBy(SkipBlanks(s), signs)

\* For texts whose value a signed word holds: beyond, the code's arithmetic
\* is undefined.
ConsumeI64(s) == Consumed(s, {43, 45})
ConsumeU64(s) == Consumed(s, {43})

True == <<116, 114, 117, 101>>
False == <<102, 97, 108, 115, 101>>
ConsumeBool(s) ==
    LET r == SkipBlanks(s)
        Is(word) == Len(r) >= Len(word) /\ EqualFold(Upto(r, Len(word)), word)
        Taken(v, n) == [ok |-> TRUE, value |-> v, rest |-> From(r, n)]
    IN  IF Is(True) THEN Taken(TRUE, 4)
        ELSE IF Is(False) THEN Taken(FALSE, 5)
        ELSE IF r # <<>> /\ r[1] \in {48, 49} THEN Taken(r[1] = 49, 1)
        ELSE Nothing

ConsumeWhile(s, set) == [taken |-> Upto(s, Len(s) - Len(TrimLeft(s, set))),
                         rest |-> TrimLeft(s, set)]

\* What printf writes for "%d" and "%zu".
RECURSIVE Decimal(_)
Decimal(n) == IF n < 0 THEN <<45>> \o Decimal(-n)
              ELSE IF n < 10 THEN <<48 + n>>
              ELSE Append(Decimal(n \div 10), 48 + (n % 10))

-----------------------------------------------------------------------------
(* Properties of a text s, for the separators and replacements in Seps.    *)

\* Cutting a text at a separator and joining the pieces gives the text back,
\* no piece holds a separator, and str_count agrees with the cut; a limit
\* leaves the rest in the last piece (str_split_n, str_split_after, str_join,
\* str_count and str_cut scan on their own).
SplitsJoin(s, Seps) ==
    \A sep \in Seps :
        LET parts == Split(s, sep)
        IN  /\ Join(parts, sep) = s
            /\ \A i \in DOMAIN parts : Find(parts[i], sep) = -1
            /\ Len(parts) = Count(s, sep) + 1
            /\ \A n \in 1 .. 3 :
                   LET some == SplitN(s, sep, n)
                   IN  /\ Join(some, sep) = s
                       /\ Len(some) = Min({n, Len(parts)})
                       /\ \A i \in 1 .. Len(some) - 1 : some[i] = parts[i]
            /\ LastFind(s, sep) = IF Len(parts) = 1 THEN -1
                    ELSE Len(s) - Len(sep) - Find(Reverse(s), Reverse(sep))
            /\ FlattenSeq(SplitAfter(s, sep)) = s
            /\ Len(SplitAfter(s, sep)) = Len(parts)
            /\ LET cut == Cut(s, sep)
               IN  IF Len(parts) = 1 THEN ~cut.found /\ cut.before = s
                   ELSE /\ cut.before = parts[1]
                        /\ cut.before \o sep \o cut.after = s

\* str_replace fills exactly the bytes its first pass counted, and replacing
\* is cutting at the old text and joining with the new one; what stays is not
\* searched again.
ReplaceIsExact(s, Seps) ==
    \A old \in Seps, new \in Seps \cup {<<>>}, n \in {-1, 1, 2} :
        /\ Len(Replace(s, old, new, n)) = ReplaceSize(s, old, new, n)
        /\ Replace(s, old, new, n)
               = Join(SplitN(s, old, IF n < 0 THEN n ELSE n + 1), new)

\* Walking a text with str_next_token gives the pieces of str_split, but for
\* an empty last one; str_fields gives the pieces between spaces that are not
\* empty, and trimming gives the text from the first to the last that is not
\* a space.
TokensAreSplits(s, Seps) ==
    /\ \A sep \in Seps :
           LET parts == Split(s, sep)
           IN  Tokens(s, sep) = IF Last(parts) = <<>> THEN Front(parts) ELSE parts
    /\ Fields(s) = SelectSeq(Split([i \in DOMAIN s |->
                                       IF s[i] \in Space THEN 32 ELSE s[i]], <<32>>),
                             LAMBDA w : w # <<>>)
    /\ \E l, r \in 0 .. Len(s) :
           /\ l + r <= Len(s) /\ TrimSpace(s) = SubSeq(s, l + 1, Len(s) - r)
           /\ \A i \in 1 .. l : s[i] \in Space
           /\ \A i \in Len(s) - r + 1 .. Len(s) : s[i] \in Space
           /\ TrimSpace(s) # <<>> =>
                  {Head(TrimSpace(s)), Last(TrimSpace(s))} \cap Space = {}
    /\ Trim(s, Space) = TrimSpace(s)
    /\ ToLowerStr(Title(s)) = ToLowerStr(s) /\ EqualFold(ToUpperStr(s), s)

\* The number read off the front of a text is the one a printer writes: its
\* decimal form before the same rest reads the same, what follows it is no digit,
\* and unsigned reading agrees where it can.  What the cursor operations take and
\* leave is the text they began with (str_consume_i64, _u64, _bool, _while,
\* str_cut_prefix, str_cut_suffix).
NumbersRead(s) ==
    LET read == ConsumeI64(s)
        unsigned == ConsumeU64(s)
        flag == ConsumeBool(s)
    IN  /\ read.ok =>
               /\ IsSuffix(read.rest, s) /\ IndexFunc(read.rest, Digit) # 0
               /\ IndexFunc(read.rest, {88, 120}) # 0 =>
                      ConsumeI64(Decimal(read.value) \o read.rest) = read
        /\ unsigned.ok => read = unsigned
        /\ read.ok /\ read.value >= 0 /\ 45 \notin Range(s) => unsigned = read
        /\ flag.ok /\ read.ok => flag.value = (SkipBlanks(s)[1] = 49)
        /\ LET some == ConsumeWhile(s, Digit \cup Space)
           IN  /\ some.taken \o some.rest = s
               /\ some.rest # <<>> => Head(some.rest) \notin Digit \cup Space
        /\ \A n \in 0 .. Len(s) :
               /\ CutPrefix(s, Upto(s, n)).after = From(s, n)
               /\ CutSuffix(s, From(s, n)).before = Upto(s, n)
=============================================================================
