-------------------------------- MODULE Utf8 --------------------------------
(***************************************************************************)
(* bareutf8.h and the rune operations of barestrs.h.  A Rune is a code     *)
(* point; its bytes are EncodeBytes of it, which is what every operation   *)
(* here leaves in its other field.                                         *)
(***************************************************************************)
EXTENDS Strs

RuneError == 65533
RuneEof == -1
RuneMax == 1114111
Surrogates == 55296 .. 57343
Cont == 128 .. 191          \* continuation bytes, 10xxxxxx

Width(cp) == IF cp < 0 THEN 0 ELSE IF cp < 128 THEN 1 ELSE IF cp < 2048 THEN 2
             ELSE IF cp < 65536 THEN 3 ELSE 4

Six(cp, i) == 128 + ((cp \div 64^i) % 64)
EncodeBytes(cp) ==
    CASE Width(cp) = 1 -> <<cp>>
      [] Width(cp) = 2 -> <<192 + cp \div 64, Six(cp, 0)>>
      [] Width(cp) = 3 -> <<224 + cp \div 4096, Six(cp, 1), Six(cp, 0)>>
      [] Width(cp) = 4 -> <<240 + cp \div 262144, Six(cp, 2), Six(cp, 1), Six(cp, 0)>>

RuneIsValid_Surrogates(cp) == cp \in 0 .. RuneMax
RuneIsValid(cp) == cp \in 0 .. RuneMax /\ cp \notin Surrogates
Utf8Encode(cp) == IF RuneIsValid(cp) THEN cp ELSE RuneError

\* What the first byte asks for: bytes in all, and the smallest code point
\* that may take so many.
Lead(b) == CASE b < 128 -> [n |-> 1, bits |-> b, least |-> 0]
             [] b \in 192 .. 223 -> [n |-> 2, bits |-> b % 32, least |-> 128]
             [] b \in 224 .. 239 -> [n |-> 3, bits |-> b % 16, least |-> 2048]
             [] b \in 240 .. 247 -> [n |-> 4, bits |-> b % 8, least |-> 65536]
             [] OTHER -> [n |-> 0, bits |-> 0, least |-> 0]

Utf8Decode(s) ==
    LET lead == Lead(s[1])
        whole == /\ lead.n > 0 /\ Len(s) >= lead.n
                 /\ \A i \in 2 .. lead.n : s[i] \in Cont
        cp == FoldLeft(LAMBDA v, b : v * 64 + (b % 64), lead.bits, SubSeq(s, 2, lead.n))
    IN  IF s = <<>> THEN [cp |-> RuneEof, n |-> 0]
        ELSE IF whole /\ cp >= lead.least /\ RuneIsValid(cp)
        THEN [cp |-> cp, n |-> lead.n]
        ELSE [cp |-> RuneError, n |-> 1]

\* The runes utf8_next returns until it is false, with the bytes of each.
RECURSIVE Runes(_)
Runes(s) == LET r == Utf8Decode(s)
            IN  IF r.n = 0 THEN <<>> ELSE <<r>> \o Runes(From(s, r.n))

Utf8Len(s) == Len(Runes(s))
ContainsRune(s, cp) == \E i \in DOMAIN Runes(s) : Runes(s)[i].cp = cp

RECURSIVE IndexRune(_, _)
IndexRune(s, cp) ==
    LET r == Utf8Decode(s)
        later == IndexRune(From(s, r.n), cp)
    IN  IF r.n = 0 THEN -1 ELSE IF r.cp = cp THEN 0
        ELSE IF later < 0 THEN -1 ELSE r.n + later

MapRune(s, Fn(_)) ==
    FlattenSeq([i \in DOMAIN Runes(s) |-> EncodeBytes(Fn(Runes(s)[i].cp))])

BadByte(r) == r.cp = RuneError /\ r.n = 1
RECURSIVE ToValidUtf8(_, _)
ToValidUtf8(s, replacement) ==
    LET r == Utf8Decode(s)
    IN  IF r.n = 0 THEN <<>>
        ELSE (IF BadByte(r) THEN replacement ELSE Upto(s, r.n))
             \o ToValidUtf8(From(s, r.n), replacement)

RuneIsAlpha(cp) == cp \in Upper \cup Lower
RuneIsAlnum(cp) == RuneIsAlpha(cp) \/ cp \in Digit
RuneIsPunct(cp) == cp \in (33 .. 47) \cup (58 .. 64) \cup (91 .. 96) \cup (123 .. 126)
RuneToUpper(cp) == IF cp \in Lower THEN Utf8Encode(cp - 32) ELSE cp
RuneToLower(cp) == IF cp \in Upper THEN Utf8Encode(cp + 32) ELSE cp

-----------------------------------------------------------------------------
(* The byte sequences of the Unicode standard (its Table 3-7).             *)

WellFormed == {
    <<0 .. 127>>, <<194 .. 223, Cont>>, <<{224}, 160 .. 191, Cont>>,
    <<(225 .. 236) \cup {238, 239}, Cont, Cont>>, <<{237}, 128 .. 159, Cont>>,
    <<{240}, 144 .. 191, Cont, Cont>>, <<241 .. 243, Cont, Cont, Cont>>,
    <<{244}, 128 .. 143, Cont, Cont>>}

Fits(s, row) == Len(s) >= Len(row) /\ \A i \in DOMAIN row : s[i] \in row[i]

\* utf8_decode accepts what the standard's table lists and nothing else (no
\* overlong form, no surrogate, nothing beyond U+10FFFF, nothing cut short),
\* takes that many bytes, and encoding its code point gives them back.
DecodesTheTable(s) ==
    s # <<>> =>
        LET r == Utf8Decode(s)
            rows == {row \in WellFormed : Fits(s, row)}
        IN  IF rows = {} THEN r = [cp |-> RuneError, n |-> 1]
            ELSE /\ \E row \in rows : r.n = Len(row)
                 /\ EncodeBytes(Utf8Encode(r.cp)) = Upto(s, r.n)
                 /\ Width(r.cp) = r.n

\* str_to_valid_utf8 writes only well-formed text, keeps a U+FFFD that was in
\* the text, and leaves valid text alone; with U+FFFD as the replacement it is
\* str_map_rune of the identity; the rune search agrees with the iterator; a
\* graphic rune of ASCII is a letter, a digit or punctuation.
ValidTextStays(s) ==
    LET replaced == EncodeBytes(RuneError)
        valid == ToValidUtf8(s, replaced)
        bad == {i \in DOMAIN Runes(s) : BadByte(Runes(s)[i])}
    IN  /\ \A i \in DOMAIN Runes(valid) : ~BadByte(Runes(valid)[i])
        /\ Len(valid) = Len(s) + 2 * Cardinality(bad)
        /\ valid = MapRune(s, LAMBDA cp : cp)
        /\ Utf8Len(valid) = Utf8Len(s)
        /\ bad = {} <=> ToValidUtf8(s, <<>>) = s
        /\ \A cp \in {RuneError, 65} :
               /\ ContainsRune(s, cp) <=> IndexRune(s, cp) >= 0
               /\ IndexRune(s, cp) >= 0 =>
                      Utf8Decode(From(s, IndexRune(s, cp))).cp = cp
        /\ MapRune(MapRune(s, RuneToUpper), RuneToLower) = MapRune(s, RuneToLower)
        /\ \A i \in DOMAIN Runes(s) :
               LET cp == Runes(s)[i].cp
               IN  (cp \in 33 .. 126) <=> (RuneIsAlnum(cp) \/ RuneIsPunct(cp))
=============================================================================
