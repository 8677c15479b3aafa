---------------------------- MODULE HttpExchange ----------------------------
(***************************************************************************)
(* A call of http_request against a server of barehttp.h: http_serve, one  *)
(* thread for each connection, so that what a connection shares with       *)
(* others is the mux alone.  The stream gives each net_recv any part of    *)
(* what is in flight; a timeout ends the client's reading; handlers make   *)
(* any calls of the response writer that its assertion allows.             *)
(***************************************************************************)
EXTENDS HttpText

CONSTANTS
    TheMux,        \* the routes the program registered
    Calls,         \* what http_request is called with
    Statuses, Extra, Pieces,   \* what handlers set and write
    Targets,       \* where they redirect to
    Splits,        \* bound: where a receive may end short of all there is
    WriteBuf,      \* HTTP_WRITE_BUF
    MaxRedirects,  \* HTTP_CLIENT_MAX_REDIRECTS
    MaxSaid        \* bound: calls of the writer by a handler

VARIABLES
    client,   \* http_request: where it is, its locals and its result
    up,       \* the bytes sent to the server and not received
    server,   \* the connection's thread: where it is and the request it parsed
    writer,   \* its HttpResponseWriter
    down,     \* the bytes sent to the client and not received
    said      \* what the handler has set and written (history)

exchangeVars == <<client, up, server, writer, down, said>>

NewWriter == [status |-> 200, fields |-> <<>>, sent |-> FALSE, buf |-> <<>>]
NotSaid == [status |-> 200, fields |-> <<>>, body |-> <<>>, calls |-> 0]
NoRequest == [at |-> "none", whole |-> FALSE, req |-> [ok |-> FALSE], route |-> 0]

\* http_request as it is called; its requests so far are counted for the property.
ExchangeInit ==
    /\ \E call \in Calls :
          LET url == ParseUrl(call.url)
          IN  client = [at |-> IF url.ok THEN "connect" ELSE "done",
                        method |-> call.method, url |-> url, body |-> call.body,
                        opts |-> call.opts, redirects |-> 0, requests |-> 0,
                        raw |-> <<>>, cutOff |-> FALSE,
                        res |-> [error |-> IF url.ok THEN "none" ELSE "invalid URL"]]
    /\ up = <<>> /\ down = <<>>
    /\ server = NoRequest /\ writer = NewWriter /\ said = NotSaid

-----------------------------------------------------------------------------
(* The client: _http_do_request and the loop of http_request.              *)

\* Counted as far as the property tells them apart.
More(requests) == Min({requests + 1, MaxRedirects + 2})

Connect ==
    /\ client.at = "connect"
    /\ \/ /\ client' = [client EXCEPT !.at = "send", !.requests = More(@),
                                      !.raw = <<>>, !.cutOff = FALSE]
          /\ server' = [NoRequest EXCEPT !.at = "recv"]
       \/ /\ client' = [client EXCEPT !.at = "judge", !.requests = More(@),
                                      !.res = [error |-> "connection failed", status |-> 0]]
          /\ UNCHANGED server
    /\ UNCHANGED <<up, writer, down, said>>

\* snprintf ends what it writes with a 0 in the last byte of the buffer, but hlen
\* counts the whole head, and as many bytes are sent: behind the buffer whatever
\* is there.
HeadBytes(stray) ==
    LET head == RequestHead(client.method, client.url, client.body, client.opts)
    IN  [i \in DOMAIN head |-> IF i < ReadBuf \/ Len(head) < ReadBuf THEN head[i]
                              ELSE IF i = ReadBuf THEN 0 ELSE stray]
Stray == {0, LF}

\* The server may have closed by the time the client sends.
SendFails(error) ==
    /\ server.at = "closed"
    /\ client' = [client EXCEPT !.at = "judge", !.res = [error |-> error, status |-> 0]]
    /\ UNCHANGED up

SendHead ==
    /\ client.at = "send"
    /\ \/ /\ \E stray \in Stray : up' = up \o HeadBytes(stray)
          /\ client' = [client EXCEPT !.at = IF client.body = <<>> THEN "recv" ELSE "sendBody"]
       \/ SendFails("send failed")
    /\ UNCHANGED <<server, writer, down, said>>

\* The body goes in a call of its own.
SendBody ==
    /\ client.at = "sendBody"
    /\ \/ up' = up \o client.body /\ client' = [client EXCEPT !.at = "recv"]
       \/ SendFails("send body failed")
    /\ UNCHANGED <<server, writer, down, said>>

\* A turn of the reading loop takes what there is.
ClientRecv ==
    /\ client.at = "recv" /\ down # <<>>
    /\ client' = [client EXCEPT !.raw = @ \o down]
    /\ down' = <<>>
    /\ UNCHANGED <<up, server, writer, said>>

\* The loop ends when the server has closed and everything has come, or when a
\* receive fails after k more bytes (a timeout, a reset of the connection): the
\* code does not tell the two apart.
ResponseEnds ==
    /\ client.at = "recv"
    /\ \E k \in ({0, Len(down)} \cup Splits) \cap 0 .. Len(down) :
          client' = [client EXCEPT !.at = "judge", !.raw = <<>>,
                        !.cutOff = server.at # "closed" \/ k < Len(down),
                        !.res = ParseResponse(client.raw \o Upto(down, k))]
    /\ down' = <<>>
    /\ UNCHANGED <<up, server, writer, said>>

Redirects == {301, 302, 303, 307, 308}
Stop(error) == [client EXCEPT !.at = "done", !.res.error = error]

\* Behind _http_do_request in the loop of http_request.  The client has closed: a
\* thread still busy with the connection is left to itself.
Judge ==
    /\ client.at = "judge"
    /\ LET res == client.res
           status == IF "status" \in DOMAIN res THEN res.status ELSE 0
           to == Header(res.fields, Location)
       IN  client' = IF ~client.opts.follow \/ status \notin Redirects
                     THEN [client EXCEPT !.at = "done"]
                     ELSE IF client.redirects >= MaxRedirects THEN Stop("too many redirects")
                     ELSE IF to = Null THEN Stop("redirect missing Location")
                     ELSE IF ~ParseUrl(to).ok THEN Stop("bad redirect URL")
                     ELSE [client EXCEPT !.at = "connect", !.url = ParseUrl(to),
                              !.redirects = @ + 1,
                              !.method = IF status = 303 THEN GET ELSE @,
                              !.body = IF status = 303 THEN <<>> ELSE @]
    /\ up' = <<>> /\ down' = <<>>
    /\ server' = NoRequest /\ writer' = NewWriter /\ said' = NotSaid

-----------------------------------------------------------------------------
(* The server: _http_handle_conn and the response writer.                  *)

\* _http_raw_write: what the full buffers leave goes out, the rest stays.
Flushed(buf, bytes) ==
    LET all == buf \o bytes
        left == IF all = <<>> THEN 0 ELSE ((Len(all) - 1) % WriteBuf) + 1
    IN  [out |-> Upto(all, Len(all) - left), kept |-> From(all, Len(all) - left)]

\* http_write: the head goes before the first bytes, then bytes; with them what
\* the handler said of the response stands.
RawWrite(w, bytes) ==
    LET text == (IF w.sent THEN <<>> ELSE ResponseHead(w.status, w.fields)) \o bytes
        f == Flushed(w.buf, text)
    IN  /\ writer' = [w EXCEPT !.sent = TRUE, !.buf = f.kept]
        /\ down' = down \o f.out

\* A malloc or the receive fails: the connection is closed without a word.
ServerGivesUp ==
    /\ server.at = "recv"
    /\ server' = [server EXCEPT !.at = "closed"]
    /\ UNCHANGED <<client, up, writer, down, said>>

\* The one net_recv of _http_handle_conn gives some of what has come; a request
\* it cannot parse is closed without an answer.
ServerRecv ==
    /\ server.at = "recv" /\ up # <<>>
    /\ \E n \in ({Len(up)} \cup Splits) \cap 1 .. Min({Len(up), ReadBuf - 1}) :
          LET req == ParseRequest(Upto(up, n))
          IN  server' = [at |-> IF req.ok THEN "handle" ELSE "closed",
                         whole |-> n = Len(up) /\ client.at = "recv",
                         req |-> req,
                         route |-> IF req.ok THEN Match(TheMux, req.path, req.method) ELSE 0]
    /\ up' = <<>>
    /\ UNCHANGED <<client, writer, down, said>>

Handling == server.at = "handle" /\ server.route # 0 /\ said.calls < MaxSaid
Speak(record) == said' = [record EXCEPT !.calls = @ + 1]

\* http_set_status; behind the head it changes nothing that is sent.
SetStatus(status) ==
    /\ Handling
    /\ writer' = [writer EXCEPT !.status = status]
    /\ Speak(IF writer.sent THEN said ELSE [said EXCEPT !.status = status])
    /\ UNCHANGED <<client, up, server, down>>

\* http_set_header, which asserts that the head has not gone.
HandlerSetsHeader(field) ==
    /\ Handling /\ ~writer.sent
    /\ writer' = [writer EXCEPT !.fields = SetHeader(@, field.key, field.value)]
    /\ Speak([said EXCEPT !.fields = Append(@, field)])
    /\ UNCHANGED <<client, up, server, down>>

HandlerWrites(piece) ==
    /\ Handling
    /\ RawWrite(writer, piece)
    /\ Speak([said EXCEPT !.body = @ \o piece])
    /\ UNCHANGED <<client, up, server>>

\* http_flush sends what is in the buffer, the head only if it is there.
HandlerFlushes ==
    /\ Handling /\ writer.buf # <<>>
    /\ down' = down \o writer.buf
    /\ writer' = [writer EXCEPT !.buf = <<>>]
    /\ Speak(said)
    /\ UNCHANGED <<client, up, server>>

\* http_json, http_text, http_html and http_redirect: status, header, body.
Respond(status, field, piece) ==
    /\ Handling /\ ~writer.sent
    /\ RawWrite([writer EXCEPT !.status = status,
                               !.fields = SetHeader(@, field.key, field.value)], piece)
    /\ Speak([said EXCEPT !.status = status, !.fields = Append(@, field),
                          !.body = @ \o piece])
    /\ UNCHANGED <<client, up, server>>

\* What http_not_found and http_redirect write, shortened.
NotFoundText == <<110>>
RedirectText == <<114>>

\* http_not_found where no route matches.
NotFound ==
    /\ server.at = "handle" /\ server.route = 0
    /\ RawWrite([writer EXCEPT !.status = 404], NotFoundText)
    /\ said' = [NotSaid EXCEPT !.status = 404, !.body = NotFoundText]
    /\ server' = [server EXCEPT !.at = "finish"]
    /\ UNCHANGED <<client, up>>

HandlerReturns ==
    /\ server.at = "handle" /\ server.route # 0
    /\ server' = [server EXCEPT !.at = "finish"]
    /\ UNCHANGED <<client, up, writer, down, said>>

\* The head if nothing was written, the flush, shutdown and close.
Finish ==
    /\ server.at = "finish"
    /\ LET head == IF writer.sent THEN <<>> ELSE ResponseHead(writer.status, writer.fields)
       IN  down' = down \o writer.buf \o head
    /\ writer' = [writer EXCEPT !.sent = TRUE, !.buf = <<>>]
    /\ server' = [server EXCEPT !.at = "closed"]
    /\ UNCHANGED <<client, up, said>>

ClientStep == Connect \/ SendHead \/ SendBody \/ ClientRecv \/ ResponseEnds \/ Judge

ServerStep == ServerGivesUp \/ ServerRecv \/ NotFound \/ HandlerReturns \/ Finish

HandlerStep ==
    \/ \E status \in Statuses : SetStatus(status)
    \/ \E field \in Extra : HandlerSetsHeader(field)
    \/ \E piece \in Pieces : HandlerWrites(piece)
    \/ HandlerFlushes
    \/ \E field \in Extra, piece \in Pieces : Respond(200, field, piece)
    \/ \E status \in Statuses \cap Redirects, to \in Targets :
          Respond(status, Field(Location, to), RedirectText)

ExchangeNext == ClientStep \/ ServerStep \/ HandlerStep
-----------------------------------------------------------------------------
(* Properties *)

LastSaid(key) ==
    said.fields[SelectLastInSeq(said.fields, LAMBDA f : SameName(f.key, key))].value

RequestArrived ==
    LET req == server.req
        url == client.url
        Got(key, value) == Header(req.fields, key) = value
        target == IF req.query = Null THEN req.path ELSE req.path \o <<63>> \o req.query
        own == OwnLines(client.method, url, client.body, client.opts)
    IN  /\ req.method = client.method
        /\ IsPrefix(target, url.path) /\ IsPrefix(req.body, client.body)
        /\ server.whole =>
              /\ target = url.path /\ req.body = client.body /\ ~req.keepAlive
              /\ req.version = HttpVersion
              /\ Got(Host, url.host)
              /\ client.body # <<>> => Got(ContentLength, Decimal(Len(client.body)))
              /\ \A f \in Range(Fitting(own, client.opts.extra)) : Got(f.key, f.value)

ResponseArrived ==
    LET res == client.res
    IN  /\ res.status = said.status
        /\ IsPrefix(res.body, said.body)
        /\ ~client.cutOff =>
              /\ res.body = said.body
              /\ {Header(res.fields, ContentType), Header(res.fields, Connection)}
                     \cap {Null} = {}
              /\ \A f \in Range(said.fields) : Header(res.fields, f.key) = LastSaid(f.key)

\* What http_request was asked is what the handler sees, if the one net_recv of
\* the server took it whole, but for headers of the caller that did not fit the
\* client's buffer, and never more than a beginning of it otherwise; and
\* what the handler said is what the caller gets, each header as it was set last,
\* however the buffers cut it; a response cut off is a beginning of it.  No call
\* makes more requests than redirects and one.
ExchangeExact ==
    /\ server.req.ok => RequestArrived
    /\ client.at = "judge" /\ client.res.error = "none" =>
          server.req.ok /\ ResponseArrived
    /\ client.requests <= MaxRedirects + 1
=============================================================================
