---------------------------- MODULE HttpDispatch ----------------------------
(***************************************************************************)
(* What answers a request (src/src/server/http_server.cpp, web_ui.cpp):    *)
(* the head as it was parsed, the request filter, the route that matches   *)
(* best, the files of the web UI and the fallback.  A path is its segments *)
(* and whether it ends with a slash, with no empty segment in between.     *)
(***************************************************************************)
EXTENDS Integers, Sequences, FiniteSets

CONSTANTS
  Routes,    \* routes_: [method, segs, wild, name]
  Upgrades,  \* upgrades_: paths
  Assets,    \* assets_: paths of the embedded web UI
  Dotted,    \* segments with a file extension
  Cors       \* config_.enableCors

\* A segment of a route is <<literal>> or a parameter.
Param == <<>>

ASSUME DispatchAssumption ==
  /\ \A k \in DOMAIN Routes : Routes[k].wild \in BOOLEAN
  /\ Cors \in BOOLEAN

-----------------------------------------------------------------------------
(* The head.                                                               *)

\* The values given for a header.  A repeated one is joined to the first, but
\* the last Content-Length counts.
Values(q, key) ==
  LET given == SelectSeq(q.headers, LAMBDA h : h[1] = key)
  IN  IF given # <<>> /\ key = "content-length" THEN <<given[Len(given)][2]>>
      ELSE [i \in DOMAIN given |-> given[i][2]]

Says(q, key, word) == \E i \in DOMAIN Values(q, key) : Values(q, key)[i] = word

\* parseRequestHead accepts it.
WellFormed(q) ==
  /\ q.version \in {"HTTP/1.0", "HTTP/1.1"}
  /\ q.target \in {"path", "*"}
  /\ \A i \in DOMAIN q.headers : Len(q.headers[i]) = 2    \* name and value around a colon

\* A negative number stands for all that is none.
ContentLength(q) == IF Values(q, "content-length") = <<>> THEN 0 ELSE Values(q, "content-length")[1]

Chunked(q) == Values(q, "content-length") = <<>> /\ Says(q, "transfer-encoding", "chunked")

KeepAlive(q) ==
  /\ ~Says(q, "connection", "close")
  /\ q.version = "HTTP/1.0" => Says(q, "connection", "keep-alive")

Expects(q) == Values(q, "expect") = <<"100-continue">>
WantsUpgrade(q) == Values(q, "upgrade") = <<"websocket">>

-----------------------------------------------------------------------------
(* matchRoute.                                                             *)

OnPath(r, segs) ==
  /\ IF r.wild THEN Len(segs) >= Len(r.segs) ELSE Len(segs) = Len(r.segs)
  /\ \A i \in DOMAIN r.segs : r.segs[i] \in {Param, <<segs[i]>>}

Score(r) ==
  2 * Cardinality({i \in DOMAIN r.segs : r.segs[i] # Param}) + (IF r.wild THEN 0 ELSE 1)

Candidates(method, segs) == {k \in DOMAIN Routes : OnPath(Routes[k], segs) /\ Routes[k].method = method}

\* The best score, registered first among equals.
Best(K) ==
  CHOOSE k \in K : \A j \in K :
    \/ Score(Routes[j]) < Score(Routes[k])
    \/ Score(Routes[j]) = Score(Routes[k]) /\ k <= j

\* HEAD takes the handler of GET when it has none of its own.
Matching(q) ==
  LET own == Candidates(q.method, q.path.segs)
  IN  IF own = {} /\ q.method = "HEAD" THEN Candidates("GET", q.path.segs) ELSE own

-----------------------------------------------------------------------------
(* serveStatic and the fallback.                                           *)

Index(path) == [segs |-> Append(path.segs, "index.html"), slash |-> FALSE]

Answer(code, by) == [code |-> code, by |-> by]
NotFound == Answer(404, "nothing")

ApiPath(path) ==
  path.segs # <<>> /\ (path.segs[1] = "ws" \/ (path.segs[1] = "api" /\ (Len(path.segs) > 1 \/ path.slash)))

\* The single page for whatever is no file and no part of the API.
Page(q) ==
  IF /\ q.method = "GET"
     /\ ~ApiPath(q.path)
     /\ [segs |-> <<"index.html">>, slash |-> FALSE] \in Assets
     /\ q.path.segs = <<>> \/ q.path.segs[Len(q.path.segs)] \notin Dotted
  THEN Answer(200, "page") ELSE NotFound

Static(q) ==
  IF q.method \in {"GET", "HEAD"} /\ (q.path \in Assets \/ (q.path.slash /\ Index(q.path) \in Assets))
  THEN Answer(IF Says(q, "if-none-match", "current") THEN 304 ELSE 200, "static")
  ELSE Page(q)

-----------------------------------------------------------------------------
\* What a handler makes of the request (external), and what dispatch makes of
\* an exception it throws.
Handled(q, route) ==
  Answer(CASE q.fate = "ok" -> 200 [] q.fate = "invalid" -> 400 [] q.fate = "throws" -> 500, route.name)

Dispatch(q) ==
  IF Cors /\ q.method = "OPTIONS" THEN Answer(204, "preflight")
  ELSE IF q.denied THEN Answer(401, "filter")
  ELSE IF Matching(q) # {} THEN Handled(q, Routes[Best(Matching(q))])
  ELSE IF \E k \in DOMAIN Routes : OnPath(Routes[k], q.path.segs) THEN Answer(405, "method")
  ELSE Static(q)
=============================================================================
