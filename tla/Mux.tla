-------------------------------- MODULE Mux --------------------------------
(***************************************************************************)
(* The route table of barehttp.h's server.  A mux is what the program      *)
(* registered: the routes, in the order of the calls, and the user pointer *)
(* plain handlers get.  A program registers routes and sets the user in    *)
(* any order; every table on the way is put to the requests a client may   *)
(* make of it.                                                             *)
(***************************************************************************)
EXTENDS Integers, Sequences

CONSTANTS
    MaxRoutes,     \* HTTP_MAX_ROUTES
    Patterns,      \* what routes are registered for, texts
    Methods,       \* what routes are restricted to; <<>> is any
    Users,         \* what user pointers point to
    Requests       \* the requests that may come, a path and a method each

Texts == Seq(0 .. 255)

ASSUME MuxAssumption ==
    /\ Patterns \subseteq Texts
    /\ \A r \in Requests : r.path \in Texts

VARIABLE table     \* the mux of the program

NoUser == <<>>     \* NULL
Anything == <<47>> \* "/"

NewMux == [routes |-> <<>>, user |-> NoUser]

\* _http_add_route; one route too many is an assertion.
AddRoute(mux, route) == [routes |-> Append(mux.routes, route), user |-> mux.user]
CanAdd(mux) == Len(mux.routes) < MaxRoutes

Route(pattern, method, kind, user) ==
    [pattern |-> pattern, method |-> method, kind |-> kind, user |-> user]

\* http_handle and http_handle_method, http_handle_ctx and http_handle_ctx_method;
\* the method <<>> is any.
Handle(mux, pattern, method) ==
    AddRoute(mux, Route(pattern, method, "plain", mux.user))
HandleCtx(mux, pattern, method, user) ==
    AddRoute(mux, Route(pattern, method, "ctx", user))

\* http_mux_set_user: the plain routes registered before get it too.
SetUser(mux, user) ==
    [routes |-> [i \in DOMAIN mux.routes |->
                    LET r == mux.routes[i]
                    IN  IF r.kind = "plain" THEN Route(r.pattern, r.method, "plain", user)
                        ELSE r],
     user |-> user]

-----------------------------------------------------------------------------
(* Matching *)

ToLowerOf(c) == IF c \in 65 .. 90 THEN c + 32 ELSE c

\* _str_eq_nocase
SameName(a, b) ==
    Len(a) = Len(b) /\ \A i \in 1 .. Len(a) : ToLowerOf(a[i]) = ToLowerOf(b[i])

Admits(route, method) == route.method = <<>> \/ SameName(route.method, method)
Covers(pattern, path) ==
    LET n == Len(pattern)
    IN  /\ n > 0 /\ pattern[n] = 47
        /\ Len(path) >= n /\ SubSeq(path, 1, n) = pattern

\* What the loop of _http_match holds behind a route: the place of the best so
\* far, 0 for none, and whether it returned there.
Held(at, exact) == [at |-> at, exact |-> exact]

Visit_LaterPrefix(mux, path, method, i, held) ==
    LET r == mux.routes[i]
    IN  IF held.exact \/ ~Admits(r, method) THEN held
        ELSE IF r.pattern = path THEN Held(i, TRUE)
        ELSE IF Covers(r.pattern, path) THEN Held(i, FALSE) ELSE held

\* One route of the loop: of prefixes as long the later wins.
Visit(mux, path, method, i, held) ==
    LET r == mux.routes[i]
    IN  IF held.exact \/ ~Admits(r, method) THEN held
        ELSE IF r.pattern = path THEN Held(i, TRUE)
        ELSE IF /\ Covers(r.pattern, path)
                /\ held.at # 0 => Len(r.pattern) >= Len(mux.routes[held.at].pattern)
        THEN Held(i, FALSE) ELSE held

Best(mux, path, method) ==
    LET held[i \in 0 .. Len(mux.routes)] ==
            IF i = 0 THEN Held(0, FALSE) ELSE Visit(mux, path, method, i, held[i - 1])
    IN  held[Len(mux.routes)].at

\* The fallback does not ask for the method.
Fallback(mux) ==
    LET Roots == {i \in DOMAIN mux.routes : mux.routes[i].pattern = Anything}
    IN  IF Roots = {} THEN 0 ELSE CHOOSE i \in Roots : \A j \in Roots : i <= j

\* _http_match: the index of the route, 0 for NULL.
Match(mux, path, method) ==
    IF Best(mux, path, method) # 0 THEN Best(mux, path, method) ELSE Fallback(mux)

-----------------------------------------------------------------------------

MuxInit == table = NewMux

MuxHandle ==
    /\ CanAdd(table)
    /\ \E pattern \in Patterns, method \in Methods : table' = Handle(table, pattern, method)
MuxHandleCtx ==
    /\ CanAdd(table)
    /\ \E pattern \in Patterns, method \in Methods, user \in Users :
           table' = HandleCtx(table, pattern, method, user)
MuxSetUser == \E user \in Users : table' = SetUser(table, user)

MuxNext == MuxHandle \/ MuxHandleCtx \/ MuxSetUser
MuxSpec == MuxInit /\ [][MuxNext]_table

-----------------------------------------------------------------------------

\* What the header says of routing: of the routes that admit the method the first
\* exact match beats every prefix, and of the prefixes none longer covers the
\* path.  What is left goes to the first route "/", if there is one.  Where one of
\* them is restricted to another method, it may come here although the header
\* restricts it (MethodsKept): which "/" answers then is left open.
RoutesRight(mux, path, method) ==
    LET found == Match(mux, path, method)
        Admitted == {i \in DOMAIN mux.routes : Admits(mux.routes[i], method)}
        Same == {i \in Admitted : mux.routes[i].pattern = path}
        Covering == {i \in Admitted : Covers(mux.routes[i].pattern, path)}
        Roots == {i \in DOMAIN mux.routes : mux.routes[i].pattern = Anything}
        First(S) == found \in S /\ \A i \in S : found <= i
    IN  IF Same # {} THEN First(Same)
        ELSE IF Covering # {}
        THEN /\ found \in Covering
             /\ \A i \in Covering :
                    Len(mux.routes[i].pattern) <= Len(mux.routes[found].pattern)
        ELSE IF Roots = {} THEN found = 0
        ELSE /\ found \in Roots \cup {0}
             /\ Roots \subseteq Admitted => First(Roots)

\* Whatever routes were registered in whatever order, a request that a route
\* admits and covers goes to the one the header describes, a request that none
\* does to a catch-all if any, and every plain handler has the user that was set
\* last, whether it was registered before or after.
RoutingSound ==
    /\ \A r \in Requests : RoutesRight(table, r.path, r.method)
    /\ \A i \in DOMAIN table.routes :
           table.routes[i].kind = "plain" => table.routes[i].user = table.user

\* barehttp.h:249 and 261: "Register a Go-style handler restricted to one HTTP
\* method", "Register a context handler restricted to one method": a request that
\* finds a route comes by its method.
MethodsKept ==
    \A r \in Requests :
        LET found == Match(table, r.path, r.method)
        IN  found # 0 => Admits(table.routes[found], r.method)
=============================================================================
