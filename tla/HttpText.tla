------------------------------ MODULE HttpText ------------------------------
(***************************************************************************)
(* The text of HTTP in barehttp.h: how the server parses a request and     *)
(* prints a response's head, how the client parses a URL, prints a request *)
(* and parses a response.  Names of headers and values that mean something *)
(* to the code stand by a byte or two; the rest is as the code writes it.  *)
(***************************************************************************)
EXTENDS Encodings, Mux

CONSTANTS
    MaxHeaders,   \* HTTP_MAX_HEADERS
    ReadBuf       \* HTTP_READ_BUF

SP == 32
Crlf == <<CR, LF>>
Blanks == 0 .. 32
HttpVersion == <<72, 84, 84, 80, 47, 49, 46, 49>>     \* "HTTP/1.1"
GET == <<71>>
Host == <<72>>                  \* "Host"
ContentType == <<84>>           \* "Content-Type"
ContentLength == <<76>>         \* "Content-Length"
Connection == <<67>>            \* "Connection"
Accept == <<65>>                \* "Accept"
Location == <<79>>              \* "Location"
Close == <<99>>                 \* "close"
AnyType == <<42>>               \* "*/*"
PlainText == <<112>>            \* "text/plain; charset=utf-8"
HttpsScheme == <<115>>          \* "https"
HttpScheme == <<104>>           \* "http"

Field(key, value) == [key |-> key, value |-> value]

\* _http_trim
HttpTrim(s) == Trim(s, Blanks)

\* The value of the first field of that name: http_header, http_res_header.
Header(fields, key) ==
    LET i == SelectInSeq(fields, LAMBDA f : SameName(f.key, key))
    IN  IF i = 0 THEN Null ELSE fields[i].value

-----------------------------------------------------------------------------
(* Requests, as the server reads them.                                     *)

Line(s) ==
    LET eol == IndexFunc(s, {CR, LF}) IN IF eol < 0 THEN s ELSE Upto(s, eol)
SkipEol(s) == TrimPrefix(TrimPrefix(s, <<CR>>), <<LF>>)
AtBlankLine(s) == s = <<>> \/ Head(s) \in {CR, LF}

\* The header loop: a line without a colon, or one too many, is passed over.
RECURSIVE RequestFields(_, _)
RequestFields(s, fields) ==
    LET cut == Cut(Line(s), <<Colon>>)
        rest == SkipEol(From(s, Len(Line(s))))
    IN  IF AtBlankLine(s) THEN [fields |-> fields, rest |-> SkipEol(s)]
        ELSE IF cut.found /\ Len(fields) < MaxHeaders
        THEN RequestFields(rest, Append(fields, Field(HttpTrim(cut.before), HttpTrim(cut.after))))
        ELSE RequestFields(rest, fields)

\* _http_parse_request.
ParseRequest(raw) ==
    LET method == Cut(Line(raw), <<SP>>)
        target == Cut(method.after, <<SP>>)
        query == Cut(target.before, <<63>>)
        rest == RequestFields(SkipEol(From(raw, Len(Line(raw)))), <<>>)
    IN  IF ~method.found THEN [ok |-> FALSE]
        ELSE [ok |-> TRUE,
              method |-> method.before,
              path |-> query.before,
              query |-> query.after,
              version |-> IF target.found THEN target.after ELSE <<>>,
              fields |-> rest.fields,
              body |-> rest.rest,
              keepAlive |-> LET c == Header(rest.fields, Connection)
                            IN  c = Null \/ ~SameName(c, Close)]

\* http_query: the first pair of that key, its value empty without a '='.
Query(query, key) ==
    LET pairs == [i \in DOMAIN Tokens(query, <<38>>) |->
                      Cut(Tokens(query, <<38>>)[i], <<61>>)]
        i == SelectInSeq(pairs, LAMBDA p : p.before = key)
    IN  IF query = Null \/ i = 0 THEN Null
        ELSE IF pairs[i].found THEN pairs[i].after ELSE <<>>

Segments(path) == Tokens(TrimPrefix(path, Root), Root)

\* http_path_seg, counted from 0.
PathSeg(path, index) ==
    IF index < Len(Segments(path)) THEN Segments(path)[index + 1] ELSE Null

\* http_path_param: the segment where the pattern of the route has ":name".
PathParam(pattern, path, name) ==
    LET both == Min({Len(Segments(pattern)), Len(Segments(path))})
        i == SelectInSeq(Upto(Segments(pattern), both),
                         LAMBDA seg : HasPrefix(seg, <<Colon>>) /\ Tail(seg) = name)
    IN  IF i = 0 THEN Null ELSE Segments(path)[i]

\* _http_url_decode, whose digits are not checked.
Nibble(c) == IF c >= 97 THEN c - 87 ELSE IF c >= 65 THEN c - 55 ELSE c - 48
RECURSIVE UrlDecode(_)
UrlDecode(s) ==
    IF s = <<>> THEN <<>>
    ELSE IF Head(s) = 37 /\ Len(s) > 2
    THEN <<(16 * Nibble(s[2]) + Nibble(s[3])) % 256>> \o UrlDecode(From(s, 3))
    ELSE <<IF Head(s) = 43 THEN SP ELSE Head(s)>> \o UrlDecode(Tail(s))

-----------------------------------------------------------------------------
(* The head of a response.                                                 *)

FieldLines(fields) ==
    FlattenSeq([i \in DOMAIN fields |->
                    fields[i].key \o <<Colon, SP>> \o fields[i].value \o Crlf])

Reason(status) == IF status \in {200, 301, 302, 303, 404} THEN <<107>> ELSE <<117>>

Defaults(fields) ==
    (IF Header(fields, ContentType) = Null
     THEN <<Field(ContentType, PlainText)>> ELSE <<>>)
    \o (IF Header(fields, Connection) = Null
        THEN <<Field(Connection, Close)>> ELSE <<>>)

\* What http_write_header writes.
ResponseHead(status, fields) ==
    HttpVersion \o <<SP>> \o Decimal(status) \o <<SP>> \o Reason(status) \o Crlf
    \o FieldLines(Defaults(fields) \o fields) \o Crlf

SetHeader_Appends(fields, key, value) ==
    IF Len(fields) >= MaxHeaders THEN fields ELSE Append(fields, Field(key, value))

\* http_set_header: a full table takes nothing, not even a new value.
SetHeader(fields, key, value) ==
    LET i == SelectInSeq(fields, LAMBDA f : SameName(f.key, key))
    IN  IF Len(fields) >= MaxHeaders THEN fields
        ELSE IF i # 0 THEN [fields EXCEPT ![i].value = value]
        ELSE Append(fields, Field(key, value))

-----------------------------------------------------------------------------
(* The client.                                                             *)

\* _http_parse_url.
ParseUrl(url) ==
    LET scheme == Cut(url, <<Colon, 47, 47>>)
        rest == IF scheme.found THEN scheme.after ELSE url
        slash == IndexFunc(rest, {47})
        place == Cut(IF slash < 0 THEN rest ELSE Upto(rest, slash), <<Colon>>)
        port == ConsumeI64(place.after)
    IN  [scheme |-> IF scheme.found THEN scheme.before ELSE HttpScheme,
         host |-> place.before,
         port |-> IF place.found THEN IF port.ok THEN port.value % 65536 ELSE 0
                  ELSE IF scheme.found /\ scheme.before = HttpsScheme THEN 443 ELSE 80,
         path |-> IF slash < 0 THEN Root ELSE From(rest, slash),
         ok |-> place.before # <<>>]

\* What _http_do_request writes before the caller's headers.
OwnLines(method, url, body, opts) ==
    method \o <<SP>> \o url.path \o <<SP>> \o HttpVersion \o Crlf
    \o FieldLines(<<Field(Host, url.host)>>
               \o (IF body = <<>> THEN <<>>
                   ELSE <<Field(ContentType, opts.contentType),
                          Field(ContentLength, Decimal(Len(body)))>>)
               \o <<Field(Connection, Close), Field(Accept, AnyType)>>)

\* The caller's headers, until the buffer is all but full: the rest is left out.
Fitting(own, extra) ==
    LET Room(i) == Len(own \o FieldLines(Upto(extra, i - 1))) < ReadBuf - 4
    IN  Upto(extra, Cardinality({i \in DOMAIN extra : Room(i)}))

\* The head as it would be in a buffer long enough.
RequestHead(method, url, body, opts) ==
    LET own == OwnLines(method, url, body, opts)
    IN  own \o FieldLines(Fitting(own, opts.extra)) \o Crlf

\* The client's header loop: lines end at a line feed, and one that does not end
\* loses its last byte; the key keeps what leads it and the value what trails.
RECURSIVE ResponseFields(_, _)
ResponseFields(s, fields) ==
    LET next == CutFunc(s, {LF})
        full == IF next.found THEN next.before ELSE Front(s)
        line == TrimSuffix(full, <<CR>>)
        cut == Cut(line, <<Colon>>)
        rest == IF next.found THEN next.after ELSE <<>>
    IN  IF s = <<>> THEN [fields |-> fields, rest |-> <<>>]
        ELSE IF Head(s) \in {CR, LF} THEN [fields |-> fields, rest |-> SkipEol(s)]
        ELSE IF cut.found /\ Len(fields) < MaxHeaders
        THEN ResponseFields(rest, Append(fields, Field(TrimRight(cut.before, Blanks),
                                                       TrimLeft(cut.after, Blanks))))
        ELSE ResponseFields(rest, fields)

ShortestResponse == 12

\* The parse of what _http_do_request has received.
ParseResponse(raw) ==
    LET first == CutFunc(raw, {SP})
        rest == IF first.found THEN first.after ELSE <<>>
        digits == ConsumeWhile(rest, Digit).taken
        behind == CutFunc(From(rest, Len(digits)), {LF})
        parsed == ResponseFields(IF behind.found THEN behind.after ELSE <<>>, <<>>)
    IN  IF Len(raw) < ShortestResponse THEN [error |-> "empty response"]
        ELSE [error |-> "none",
              status |-> FoldLeft(LAMBDA n, c : 10 * n + c - 48, 0, digits),
              fields |-> parsed.fields,
              body |-> parsed.rest]

-----------------------------------------------------------------------------
(* Properties *)

\* Where the query has the name as a key: behind the start or a '&', before a
\* '=', a '&' or the end.
KeyAt(query, name) ==
    {i \in Hits(query, name) :
        /\ i = 0 \/ query[i] = 38
        /\ i + Len(name) = Len(query) \/ query[i + Len(name) + 1] \in {38, 61}}

ValueBehind(query, i) ==
    LET rest == From(query, i)
    IN  IF HasPrefix(rest, <<61>>) THEN CutFunc(Tail(rest), {38}).before ELSE <<>>

\* The parts of a request handlers ask for, cut on the fly from the text: the
\* first value of a key of the query, the segments of the path in order with
\* nothing lost between them, a named segment of a pattern at the place of the
\* name; and decoding takes back what the percent encoding of bareencoding.h wrote.
PartsRead(s, name) ==
    /\ Query(s, name) = LET at == KeyAt(s, name)
                        IN  IF at = {} THEN Null ELSE ValueBehind(s, Min(at) + Len(name))
    /\ LET joined == Join([i \in DOMAIN Segments(s) |-> PathSeg(s, i - 1)], Root)
           path == TrimPrefix(s, Root)
       IN  path \in {joined, joined \o Root}
    /\ \A i \in DOMAIN Segments(s) :
           LET named == [Segments(s) EXCEPT ![i] = <<Colon>> \o name]
               first == SelectInSeq(named, LAMBDA seg : seg = <<Colon>> \o name)
           IN  PathParam(Root \o Join(named, Root), s, name) = Segments(s)[first]
    /\ UrlDecode(PctEncode(s)) = s
=============================================================================
