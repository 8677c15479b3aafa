------------------------------ MODULE JsonText ------------------------------
(***************************************************************************)
(* barejson.h: the parser and the emitter, over byte sequences.  Numbers   *)
(* are integers: fractions and exponents are strtod's and printf's.  The   *)
(* messages of errors and the growth of the arena's arrays are left out.   *)
(* Then a caller of the emitter who writes one value: any sequence of      *)
(* calls that opens and closes containers in order and gives each member   *)
(* of an object a key.  "open" and "root" are what the caller means.       *)
(***************************************************************************)
EXTENDS Utf8

CONSTANT MaxDepth    \* JSON_EMIT_MAX_DEPTH (64 in the code)

JNull == [type |-> "null"]
JBool(b) == [type |-> "bool", b |-> b]
JNum(n) == [type |-> "num", n |-> n]
JStr(s) == [type |-> "str", s |-> s]
JArr(items) == [type |-> "arr", items |-> items]
JObj(pairs) == [type |-> "obj", pairs |-> pairs]
JErr == [type |-> "err"]

Quot == 34
Comma == 44
Backslash == 92
OpenArr == 91
CloseArr == 93
OpenObj == 123
CloseObj == 125

-----------------------------------------------------------------------------
(* The parser.  Each operator returns a value and the text after it.       *)

Ws(s) == TrimLeft(s, {9, 10, 13, 32})
Starts(s, c) == s # <<>> /\ s[1] = c

\* How much of a string's text the scan takes, its closing quote included.
RECURSIVE ScanString(_, _)
ScanString(s, i) ==
    IF i >= Len(s) THEN Len(s)
    ELSE IF s[i + 1] = Backslash THEN ScanString(s, i + 2)
    ELSE IF s[i + 1] = Quot THEN i + 1 ELSE ScanString(s, i + 1)

Escape(c) == CASE c = 98 -> 8 [] c = 102 -> 12 [] c = 110 -> 10 [] c = 114 -> 13
               [] c = 116 -> 9 [] OTHER -> c
HexOrZero(c) == Max({0, DigitValue(c, 16)})
CodeUnit(hex) == FoldLeft(LAMBDA v, c : v * 16 + HexOrZero(c), 0, hex)

RECURSIVE Unescape(_)
Unescape(s) ==
    IF s = <<>> \/ s = <<Backslash>> THEN <<>>
    ELSE IF s[1] # Backslash THEN <<s[1]>> \o Unescape(Tail(s))
    ELSE IF s[2] # 117 THEN <<Escape(s[2])>> \o Unescape(From(s, 2))
    ELSE IF Len(s) < 6 THEN <<63>> \o Unescape(From(s, 2))
    ELSE EncodeBytes(CodeUnit(SubSeq(s, 3, 6))) \o Unescape(From(s, 6))

\* A string that is not closed ends one byte early; with nothing after its
\* quote the length the code computes is below zero.
ParseString(s) ==
    LET body == Tail(s)
        end == ScanString(body, 0)
    IN  [val |-> JStr(IF end = 0 THEN Null ELSE Unescape(Upto(body, end - 1))),
         rest |-> From(body, end)]

ParseNumber(s) ==
    LET body == IF Starts(s, 45) THEN Tail(s) ELSE s
        rest == TrimLeft(body, Digit)
        read == ConsumeI64(Upto(s, Len(s) - Len(rest)))
    IN  [val |-> JNum(IF read.ok THEN read.value ELSE 0), rest |-> rest]

Token(s, word, val) ==
    IF HasPrefix(s, word) THEN [val |-> val, rest |-> From(s, Len(word))]
                          ELSE [val |-> JErr, rest |-> s]

Failed == [list |-> Null, rest |-> <<>>]
Closed(list, rest) == [list |-> list, rest |-> rest]

RECURSIVE ParseVal(_), ParseItems(_), ParsePairs(_)

\* After an element: the bracket that ends the list, or a comma and more.
Continued(elem, s, close, More(_)) ==
    LET rest == Ws(s)
        more == More(Tail(rest))
    IN  IF Starts(rest, close) THEN Closed(<<elem>>, Tail(rest))
        ELSE IF ~Starts(rest, Comma) \/ more.list = Null THEN Failed
        ELSE Closed(<<elem>> \o more.list, more.rest)

ParseItems(s) ==
    LET v == ParseVal(s)
    IN  IF v.val = JErr THEN Failed ELSE Continued(v.val, v.rest, CloseArr, ParseItems)

ParsePairs(s) ==
    LET key == ParseString(Ws(s))
        v == ParseVal(Tail(Ws(key.rest)))
    IN  IF ~Starts(Ws(s), Quot) \/ ~Starts(Ws(key.rest), Colon) \/ v.val = JErr
        THEN Failed
        ELSE Continued([key |-> key.val.s, val |-> v.val], v.rest, CloseObj, ParsePairs)

List(s, close, Parse(_), Val(_)) ==
    LET inside == Ws(Tail(s))
        read == IF Starts(inside, close) THEN Closed(<<>>, Tail(inside)) ELSE Parse(inside)
    IN  [val |-> IF read.list = Null THEN JErr ELSE Val(read.list), rest |-> read.rest]

ParseVal(src) ==
    LET s == Ws(src)
        c == IF s = <<>> THEN 0 ELSE s[1]
    IN  CASE c = OpenObj -> List(s, CloseObj, ParsePairs, JObj)
          [] c = OpenArr -> List(s, CloseArr, ParseItems, JArr)
          [] c = Quot -> ParseString(s)
          [] c = 116 -> Token(s, True, JBool(TRUE))
          [] c = 102 -> Token(s, False, JBool(FALSE))
          [] c = 110 -> Token(s, <<110, 117, 108, 108>>, JNull)
          [] c \in Digit \cup {45} -> ParseNumber(s)
          [] OTHER -> [val |-> JErr, rest |-> s]

\* json_parse: what follows the value is ignored.
JsonParse(src) == ParseVal(src).val

JsonAt(v, idx) ==
    IF v.type # "arr" \/ idx >= Len(v.items) THEN JNull ELSE v.items[idx + 1]
JsonGet(v, key) ==
    LET found == IF v.type # "obj" THEN {}
                 ELSE {i \in DOMAIN v.pairs : v.pairs[i].key = key}
    IN  IF found = {} THEN JNull ELSE v.pairs[Min(found)].val

-----------------------------------------------------------------------------
(* The emitter: its text, its depth, and for each open container whether a *)
(* comma goes before its next element.                                     *)

EmitBegin == [out |-> <<>>, depth |-> 0, comma |-> [d \in 1 .. MaxDepth |-> FALSE]]
Write(j, s) == [j EXCEPT !.out = @ \o s]
NeedsComma(j, needs) ==
    IF j.depth > 0 THEN [j EXCEPT !.comma[j.depth] = needs] ELSE j
Separated(j) ==
    IF j.depth > 0 /\ j.comma[j.depth] THEN Write(j, <<Comma>>) ELSE j
JeComma(j) == NeedsComma(Separated(j), TRUE)

EscByte(c) ==
    CASE c \in {Quot, Backslash} -> <<Backslash, c>>
      [] c = 10 -> <<Backslash, 110>> [] c = 13 -> <<Backslash, 114>>
      [] c = 9 -> <<Backslash, 116>>
      [] c < 32 /\ c \notin {9, 10, 13} ->
             <<Backslash, 117, 48, 48, 48 + c \div 16,
               IF c % 16 < 10 THEN 48 + (c % 16) ELSE 55 + (c % 16)>>
      [] OTHER -> <<c>>
JeEsc(s) == <<Quot>> \o FlattenSeq([i \in DOMAIN s |-> EscByte(s[i])]) \o <<Quot>>

Start(j, bracket) ==
    LET w == Write(JeComma(j), <<bracket>>)
    IN  IF j.depth < MaxDepth
        THEN NeedsComma([w EXCEPT !.depth = @ + 1], FALSE) ELSE w
End(j, bracket) ==
    NeedsComma(Write([j EXCEPT !.depth = Max({0, @ - 1})], <<bracket>>), TRUE)
Key_LeavesComma(j, key) == Write(JeComma(j), JeEsc(key) \o <<Colon>>)
Key(j, key) ==
    Write(NeedsComma(Separated(j), FALSE), JeEsc(key) \o <<Colon>>)
Scalar(j, s) == Write(JeComma(j), s)

Printed(v) == CASE v.type = "bool" -> IF v.b THEN True ELSE False
                [] v.type = "num" -> Decimal(v.n)
                [] v.type = "str" -> JeEsc(v.s)
                [] OTHER -> <<110, 117, 108, 108>>

RECURSIVE EmitVal(_, _)
EmitVal(j, v) ==
    CASE v.type = "arr" ->
             End(FoldLeft(EmitVal, Start(j, OpenArr), v.items), CloseArr)
      [] v.type = "obj" ->
             End(FoldLeft(LAMBDA e, p : EmitVal(Key(e, p.key), p.val),
                          Start(j, OpenObj), v.pairs), CloseObj)
      [] OTHER -> Scalar(j, Printed(v))

-----------------------------------------------------------------------------
(* What the grammar of JSON allows, for texts over brackets, commas,       *)
(* colons, quotes and digits: n bounds the nesting.                        *)

RECURSIVE IsJson(_, _), AreItems(_, _), ArePairs(_, _)
Strips(s, l, r) == Len(s) >= 2 /\ s[1] = l /\ s[Len(s)] = r
Inner(s) == SubSeq(s, 2, Len(s) - 1)
AreItems(s, n) ==
    \/ IsJson(s, n)
    \/ \E k \in DOMAIN s : /\ s[k] = Comma /\ IsJson(Upto(s, k - 1), n)
                           /\ AreItems(From(s, k), n)
IsString(s) == Strips(s, Quot, Quot) /\ Quot \notin Range(Inner(s))
IsPair(s, n) == \E k \in DOMAIN s : /\ s[k] = Colon /\ IsString(Upto(s, k - 1))
                                    /\ IsJson(From(s, k), n)
ArePairs(s, n) ==
    \/ IsPair(s, n)
    \/ \E k \in DOMAIN s : /\ s[k] = Comma /\ IsPair(Upto(s, k - 1), n)
                           /\ ArePairs(From(s, k), n)
IsJson(s, n) ==
    \/ s # <<>> /\ Range(s) \subseteq Digit
    \/ IsString(s)
    \/ n > 0 /\ Strips(s, OpenArr, CloseArr)
       /\ (Inner(s) = <<>> \/ AreItems(Inner(s), n - 1))
    \/ n > 0 /\ Strips(s, OpenObj, CloseObj)
       /\ (Inner(s) = <<>> \/ ArePairs(Inner(s), n - 1))

\* json_parse accepts a text exactly when it begins with a JSON value, for a
\* text whose strings are closed, and what it reads is written and read back
\* unchanged.
ParsesTheGrammar(s) ==
    LET v == JsonParse(s)
    IN  /\ Cardinality({i \in DOMAIN s : s[i] = Quot}) % 2 = 0 =>
               (v # JErr <=> \E n \in 1 .. Len(s) : IsJson(Upto(s, n), Len(s)))
        /\ v # JErr /\ Cardinality({i \in DOMAIN s : s[i] = Quot}) % 2 = 0 =>
               JsonParse(EmitVal(EmitBegin, v).out) = v

-----------------------------------------------------------------------------
(* A caller of the emitter *)

CONSTANTS
    Scalars,    \* the null, booleans, numbers and strings the caller writes
    Keys,
    MaxNest,    \* bound: containers open at once
    MaxBytes    \* bound: no call begins once the text is so long

VARIABLES emit, open, root
jsonVars == <<emit, open, root>>

JsonInit == emit = EmitBegin /\ open = <<>> /\ root = JErr

Top == Last(open)
Calling == Len(emit.out) < MaxBytes /\ root = JErr
WantsKey == open # <<>> /\ Top.type = "obj" /\ Top.key = Null
WantsValue == ~WantsKey

\* A value becomes the root, or an element of the innermost container.
Placed(v, stack) ==
    IF stack = <<>> THEN root' = v /\ open' = <<>>
    ELSE /\ UNCHANGED root
         /\ open' = [stack EXCEPT ![Len(stack)] =
                        IF @.type = "arr" THEN [@ EXCEPT !.items = Append(@, v)]
                        ELSE [@ EXCEPT !.key = Null,
                                       !.pairs = Append(@, [key |-> stack[Len(stack)].key,
                                                            val |-> v])]]

EmitScalar ==
    /\ Calling /\ WantsValue
    /\ \E v \in Scalars : emit' = Scalar(emit, Printed(v)) /\ Placed(v, open)

EmitStart ==
    /\ Calling /\ WantsValue /\ Len(open) < MaxNest
    /\ \/ emit' = Start(emit, OpenArr) /\ open' = Append(open, JArr(<<>>))
       \/ /\ emit' = Start(emit, OpenObj)
          /\ open' = Append(open, [type |-> "obj", pairs |-> <<>>, key |-> Null])
    /\ UNCHANGED root

EmitKey ==
    /\ Calling /\ WantsKey
    /\ \E k \in Keys : emit' = Key(emit, k) /\ open' = [open EXCEPT ![Len(open)].key = k]
    /\ UNCHANGED root

EmitEnd ==
    /\ root = JErr /\ open # <<>>
    /\ \/ /\ Top.type = "arr" /\ emit' = End(emit, CloseArr)
          /\ Placed(JArr(Top.items), Front(open))
       \/ /\ Top.type = "obj" /\ Top.key = Null /\ emit' = End(emit, CloseObj)
          /\ Placed(JObj(Top.pairs), Front(open))

\* json_val: an existing tree in one call.
EmitTree ==
    /\ Calling /\ WantsValue
    /\ \E v \in Scalars : LET tree == JArr(<<v, JObj(<<[key |-> <<97>>, val |-> v]>>)>>)
                          IN  /\ Len(open) + 2 <= MaxNest
                              /\ emit' = EmitVal(emit, tree) /\ Placed(tree, open)

JsonNext == EmitScalar \/ EmitStart \/ EmitKey \/ EmitEnd \/ EmitTree

\* Whatever legal calls wrote a value, json_parse of the text is that value,
\* json_val of the value writes the same text, and the first of two members
\* with one key is the one json_get finds.
TextIsTheTree ==
    root # JErr =>
        /\ JsonParse(emit.out) = root
        /\ EmitVal(EmitBegin, root).out = emit.out
        /\ \A k \in Keys : JsonGet(root, k) # JNull => root.type = "obj" /\
               \E i \in DOMAIN root.pairs :
                   /\ root.pairs[i] = [key |-> k, val |-> JsonGet(root, k)]
                   /\ \A h \in 1 .. i - 1 : root.pairs[h].key # k
        /\ \A i \in 0 .. 2 : JsonAt(root, i) # JNull =>
               root.type = "arr" /\ root.items[i + 1] = JsonAt(root, i)
=============================================================================
