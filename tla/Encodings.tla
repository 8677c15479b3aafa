------------------------------ MODULE Encodings ------------------------------
(***************************************************************************)
(* bareencoding.h: base64, hex, percent encoding and HTML escaping, as     *)
(* functions from byte sequences to byte sequences or Null.  A base64      *)
(* digit is its value, 0 to 63, whichever of the two alphabets writes it;  *)
(* Pad is '=' and anything else is no digit.                               *)
(***************************************************************************)
EXTENDS Strs

-----------------------------------------------------------------------------
(* Base64.                                                                 *)

Pad == 64
Bits(n, i, width) == (n \div 2^i) % 2^width
Group(s, n, width) == FoldLeft(LAMBDA v, x : v * 2^width + x, 0, s) * 2^(width * n)

RECURSIVE Base64Encode(_, _)
Base64Encode(s, pad) ==
    LET missing == Max({0, 3 - Len(s)})
        v == Group(Upto(s, Min({3, Len(s)})), missing, 8)
        digits == [i \in 1 .. 4 - missing |-> Bits(v, 24 - 6 * i, 6)]
    IN  IF s = <<>> THEN <<>>
        ELSE digits \o (IF pad THEN Repeat(<<Pad>>, missing) ELSE <<>>)
             \o Base64Encode(From(s, Min({3, Len(s)})), pad)

Base64EncodedLen(n) == ((n + 2) \div 3) * 4
Base64DecodedLen(n) == (n \div 4) * 3 + 3

\* _b64_val: padding inside a group counts as the digit 0.
B64Val(c) == IF c = Pad THEN 0 ELSE IF c \in 0 .. 63 THEN c ELSE -1

\* The groups of base64_decode, the last one of two or three digits; one
\* digit left over is dropped.
RECURSIVE Groups(_)
Groups(s) ==
    LET n == Min({4, Len(s)})
        v == Group([i \in 1 .. n |-> B64Val(s[i])], 4 - n, 6)
    IN  IF n < 2 THEN <<>>
        ELSE [i \in 1 .. n - 1 |-> Bits(v, 24 - 8 * i, 8)] \o Groups(From(s, n))

Base64Decode(s) ==
    LET digits == TrimRight(s, {Pad})
        read == Upto(digits, Len(digits) - (IF Len(digits) % 4 = 1 THEN 1 ELSE 0))
    IN  IF \E i \in DOMAIN read : B64Val(read[i]) < 0 THEN Null ELSE Groups(digits)

-----------------------------------------------------------------------------
(* Hex and percent encoding.                                               *)

HexDigit(n, upper) == IF n < 10 THEN n + 48 ELSE n + (IF upper THEN 55 ELSE 87)
HexByte(b, upper) == <<HexDigit(b \div 16, upper), HexDigit(b % 16, upper)>>
HexEncode(s, upper) == FlattenSeq([i \in DOMAIN s |-> HexByte(s[i], upper)])

HexVal(c) == DigitValue(c, 16)
HexDecode(s) ==
    LET body == IF Hexed(s) THEN From(s, 2) ELSE s
    IN  IF Len(body) % 2 = 1 \/ \E i \in DOMAIN body : HexVal(body[i]) < 0
        THEN Null
        ELSE [i \in 1 .. Len(body) \div 2 |->
                 HexVal(body[2 * i - 1]) * 16 + HexVal(body[2 * i])]

Percent == 37
Plus == 43
Unreserved == Upper \cup Lower \cup Digit \cup {45, 46, 95, 126}

\* strchr finds the NUL that ends a list of characters to keep.
PctEncodeImpl(s, alsoSafe) ==
    FlattenSeq([i \in DOMAIN s |->
        IF s[i] \in Unreserved \/ (alsoSafe # {} /\ s[i] \in alsoSafe \cup {0})
        THEN <<s[i]>> ELSE <<Percent>> \o HexByte(s[i], TRUE)])
PctEncode(s) == PctEncodeImpl(s, {})
PctEncodePath(s) == PctEncodeImpl(s, {47})
PctEncodeQuery(s) == PctEncodeImpl(s, {61, 38, Plus})

Escaped(s) == /\ Len(s) > 2 /\ s[1] = Percent
              /\ HexVal(s[2]) >= 0 /\ HexVal(s[3]) >= 0

RECURSIVE PctDecode(_)
PctDecode(s) ==
    IF s = <<>> THEN <<>>
    ELSE IF Escaped(s)
    THEN <<HexVal(s[2]) * 16 + HexVal(s[3])>> \o PctDecode(From(s, 3))
    ELSE <<IF s[1] = Plus THEN 32 ELSE s[1]>> \o PctDecode(Tail(s))

-----------------------------------------------------------------------------
(* HTML.                                                                   *)

Amp == 38
Semicolon == 59
Amp_ == <<38, 97, 109, 112, 59>>             \* &amp;
Lt_ == <<38, 108, 116, 59>>                  \* &lt;
Gt_ == <<38, 103, 116, 59>>                  \* &gt;
Quot_ == <<38, 113, 117, 111, 116, 59>>      \* &quot;
Apos_ == <<38, 97, 112, 111, 115, 59>>       \* &apos;
Entity(c) == CASE c = Amp -> Amp_ [] c = 60 -> Lt_ [] c = 62 -> Gt_ [] c = 34 -> Quot_
               [] c = 39 -> <<38, 35, 51, 57, 59>>      \* &#39;
               [] OTHER -> <<c>>
HtmlEscape(s) == FlattenSeq([i \in DOMAIN s |-> Entity(s[i])])

\* The number of "&#N;" if it is one of ASCII; after "&#x" the code reads
\* decimal digits too.
Ascii(read) == IF read.ok /\ read.value \in 1 .. 127 THEN read.value ELSE 0
Numeric(num) ==
    Ascii(IF num[1] \in {88, 120} THEN ConsumeU64(Tail(num)) ELSE ConsumeI64(num))

\* What stands for an entity: one character, or itself.
Replacement(ent) ==
    CASE ent = Amp_ -> Amp [] ent = Lt_ -> 60 [] ent = Gt_ -> 62
      [] ent = Quot_ -> 34 [] ent = Apos_ -> 39
      [] OTHER -> IF Len(ent) > 3 /\ ent[2] = 35
                  THEN Numeric(SubSeq(ent, 3, Len(ent) - 1)) ELSE 0
Replaced(c, ent) == IF c # 0 THEN <<c>> ELSE ent

RECURSIVE HtmlUnescape(_)
HtmlUnescape(s) ==
    LET end == IndexFunc(Upto(s, Min({11, Len(s)})), {Semicolon})
        n == IF s[1] # Amp \/ end < 0 THEN 1 ELSE end + 1
        ent == Upto(s, n)
    IN  IF s = <<>> THEN <<>>
        ELSE (IF n = 1 THEN ent ELSE Replaced(Replacement(ent), ent))
             \o HtmlUnescape(From(s, n))

-----------------------------------------------------------------------------
(* Properties of a byte sequence s.                                        *)

\* Decoding what an encoder wrote gives the bytes back, for each of the encoders,
\* within the lengths the header's size functions promise.  The query encoder keeps
\* a '+', which pct_decode turns into a space, although bareencoding.h:95 says that
\* it passes through: of such texts nothing is claimed.
EncodingsRoundTrip(s) ==
    /\ \A pad \in BOOLEAN :
           LET enc == Base64Encode(s, pad)
           IN  /\ Base64Decode(enc) = s
               /\ Len(enc) <= Base64EncodedLen(Len(s))
               /\ pad => Len(enc) = Base64EncodedLen(Len(s))
               /\ Len(s) <= Base64DecodedLen(Len(enc))
    /\ \A upper \in BOOLEAN : HexDecode(HexEncode(s, upper)) = s
    /\ PctDecode(PctEncode(s)) = s
    /\ PctDecode(PctEncodePath(s)) = s
    /\ Plus \notin Range(s) => PctDecode(PctEncodeQuery(s)) = s
    /\ HtmlUnescape(HtmlEscape(s)) = s

\* Escaped text holds none of the characters it protects from, and decoders
\* never write more than they read, which is what they allocate.
EncodingsProtect(s) ==
    /\ Range(PctEncode(s)) \subseteq Unreserved \cup {Percent}
    /\ Range(HtmlEscape(s)) \cap {60, 62, 34, 39} = {}
    /\ Len(PctDecode(s)) <= Len(s)
    /\ Len(HtmlUnescape(s)) <= Len(s)
=============================================================================
