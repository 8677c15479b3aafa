------------------------------- MODULE MCText -------------------------------
(***************************************************************************)
(* The operations on texts: barestrs.h, bareencoding.h, bareutf8.h,        *)
(* barecsv.h, barepath.h, barejson.h, the text of barehttp.h and the       *)
(* integers of baremath.h.  A behaviour of one subject grows a text byte   *)
(* by byte and every text it passes is put to the subject's operations;    *)
(* four subjects have state of their own: a caller of the JSON emitter, a  *)
(* program that computes with words, one that registers routes and an HTTP *)
(* exchange.                                                               *)
(***************************************************************************)
EXTENDS Encodings, Csv, Paths, JsonText, HttpExchange, IntMath

VARIABLES subject, text

\* The bytes that mean something to a subject, one or two that do not, and the
\* neighbours of the bounds of ranges.
Alphabet == [
    strings |-> {44, 32, 59, 97},
    numbers |-> {48, 55, 45, 43, 32, 120, 97, 49},
    codes   |-> {0, 1, 37, 38, 43, 35, 59, 51, 57, 255, 250, 65, 120, 48},
    utf8    |-> {65, 127, 128, 143, 144, 159, 160, 191, 193, 194, 224, 237, 239, 240, 244, 245, 189},
    csv     |-> {97, 44, 34, 0, 1},
    paths   |-> {46, 47, 97, 92},
    json    |-> {91, 93, 123, 125, 44, 58, 34, 49},
    request |-> {38, 61, 97, 47, 58},
    integers |-> 0 .. 2 ^ ByteBits - 1]

\* Long enough for the longest thing a subject looks at twice; of the UTF-8 texts
\* only those whose first byte begins a sequence of four grow to four.
Longest == [
    strings |-> 5, numbers |-> 4, codes |-> 3, utf8 |-> IF text # <<>> /\ text[1] \in {240, 244} THEN 4 ELSE 3,
    csv |-> 4, paths |-> 6, json |-> 5, request |-> 5,
    integers |-> WordBits \div ByteBits]

Grow ==
    /\ subject \in DOMAIN Alphabet /\ Len(text) < Longest[subject]
    /\ \E c \in Alphabet[subject] : text' = Append(text, c)

\* A text read as a table, cells that end at a 0 in rows that end at a 1.
Table(s) == [r \in DOMAIN Split(s, <<1>>) |-> Split(Split(s, <<1>>)[r], <<0>>)]

MCSeps == {<<44>>, <<44, 44>>, <<44, 97>>, <<97>>}
MCBases == {<<97>>, <<97, 47, 97>>, <<47, 97>>}
MCScalars == {JNull, JBool(TRUE), JNum(-12), JStr(<<34, 10>>), JStr(<<1, 92>>)}
MCKeys == {<<97>>, <<>>}

\* Words at the bounds of the two readings, powers of two, divisors.
MCOthers == {0, 1, 2, 3, 6, 8, 15, 16, 64, 85, 126, 127, 128, 129, 170, 254, 255}
MCOperands == {0, 1, 6, 8, 127, 128, 129, 255}

\* A catch-all, an exact route, a prefix and one below it, no text at all; paths
\* each of them matches, several match and none does, by methods as written,
\* otherwise written and others.
MCPatterns == {<<47>>, <<47, 97>>, <<47, 97, 47>>, <<>>}
MCMethods == {<<>>, GET}
MCUsers == {<<49>>, <<50>>}
MCRequests ==
    [path : {<<47>>, <<47, 97>>, <<47, 97, 47>>, <<47, 97, 47, 97>>, <<97>>},
     method : {GET, <<103>>, <<80>>}]

\* The routes "/a" and "/d/", the second by method and with a user of its own.
MCMux ==
    LET plain == Handle(Handle(NewMux, <<47, 97>>, <<>>), <<47, 100, 47>>, GET)
    IN  SetUser(HandleCtx(plain, <<47, 100, 47>>, <<80>>, <<49>>), <<50>>)

Opts(extra, follow) == [contentType |-> <<98>>, extra |-> extra, follow |-> follow]
Request(method, url, body, opts) ==
    [method |-> method, url |-> url, body |-> body, opts |-> opts]

\* A header of n + 5 bytes.
Long(n) == Field(<<89>>, [i \in 1 .. n |-> 50])

\* A GET of "h://h/a?k=1" whose second header finds no room, and does where a
\* redirect made the path shorter; one whose header ends behind the buffer; POSTs
\* to "h:81/d/x" and to "h"; and a URL without a host.
MCCalls == {
    Request(GET, <<104, 58, 47, 47, 104, 47, 97, 63, 107, 61, 49>>, <<>>,
            Opts(<<Long(34), Field(<<88>>, <<49>>)>>, TRUE)),
    Request(GET, <<104, 47, 97>>, <<>>, Opts(<<Long(50)>>, FALSE)),
    Request(<<80>>, <<104, 58, 56, 49, 47, 100, 47, 120>>, <<98, 111>>,
            Opts(<<Field(<<88>>, <<49>>)>>, TRUE)),
    Request(<<80>>, <<104>>, <<98>>, Opts(<<>>, FALSE)),
    Request(<<80>>, <<58, 56>>, <<98>>, Opts(<<>>, FALSE))}

\* One name in two spellings; a body that looks like the end of a head; an
\* absolute and a relative target.
MCExtra == {Field(<<75>>, <<49>>), Field(<<107>>, <<50>>)}
MCPieces == {<<>>, <<120, 13, 10, 13, 10, 121>>}
MCTargets == {<<104, 58, 47, 47, 98, 47, 97>>, <<47, 97>>}

TextInit ==
    /\ subject \in DOMAIN Alphabet \cup {"emitter", "words", "routes", "exchange"}
    /\ text = <<>>
    /\ JsonInit /\ WordsInit /\ MuxInit /\ ExchangeInit
    /\ subject # "exchange" => client.at = "done"

TextNext ==
    /\ UNCHANGED subject
    /\ \/ Grow /\ UNCHANGED <<jsonVars, word, table, exchangeVars>>
       \/ subject = "emitter" /\ JsonNext /\ UNCHANGED <<text, word, table, exchangeVars>>
       \/ subject = "words" /\ WordsNext /\ UNCHANGED <<text, jsonVars, table, exchangeVars>>
       \/ subject = "routes" /\ MuxNext /\ UNCHANGED <<text, jsonVars, word, exchangeVars>>
       \/ subject = "exchange" /\ ExchangeNext /\ UNCHANGED <<text, jsonVars, word, table>>

TextSpec == TextInit /\ [][TextNext]_<<subject, text, jsonVars, word, table, exchangeVars>>

-----------------------------------------------------------------------------
\* The scans of barestrs.h agree with each other: splitting with joining and
\* counting, replacing with splitting, tokens and fields with pieces, reading
\* numbers with printing them.  Tables, JSON texts, paths and the parts of a request
\* are read as what they stand for.
TextsExact ==
    /\ subject = "strings" => /\ SplitsJoin(text, MCSeps) /\ ReplaceIsExact(text, MCSeps)
                              /\ TokensAreSplits(text, MCSeps)
    /\ subject = "numbers" => NumbersRead(text)
    /\ subject = "csv" => ReadsTable(Table(text))
    /\ subject = "json" => ParsesTheGrammar(text)
    /\ subject = "paths" => PathsAgree(text, MCBases)
    /\ subject = "request" => PartsRead(text, <<97>>)

\* What an encoder of bareencoding.h writes is decoded unchanged and harmless;
\* UTF-8 is read as the standard's table lists it.
CodesExact ==
    /\ subject = "codes" => EncodingsRoundTrip(text) /\ EncodingsProtect(text)
    /\ subject = "utf8" => DecodesTheTable(text) /\ ValidTextStays(text)

\* A text read as a word, byte by byte.
TheWord == FoldLeft(LAMBDA n, c : n * 2 ^ ByteBits + c, 0, text)

\* The bit tricks of baremath.h give what the set of a word's bits does, and its
\* logarithms, cube root and alignments round as they say.
BitOpsExact ==
    subject = "integers" =>
        /\ BitsExact(TheWord) /\ RootsExact(TheWord)
        /\ \A other \in MCOthers : AlignExact(TheWord, other)

\* baremath.h, of bit_next_perm: "Next permutation of bits with same popcount
\* (Gosper's hack)"; examples/math.c expects 11 after 7.
NextPermIsNext == subject = "integers" => NextPermExact(TheWord)
=============================================================================
