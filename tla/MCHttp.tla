------------------------------- MODULE MCHttp -------------------------------
(* Clients of the HTTP server for model checking: routes of the API, two more *)
(* that overlap with them and come last, and requests that come complete, cut *)
(* off, too long, malformed, several in one piece.                            *)
EXTENDS HttpConnection, SequencesExt

Route(method, segs, wild, name) == [method |-> method, segs |-> segs, wild |-> wild, name |-> name]

MCRoutes ==
  << Route("POST", <<<<"tests">>, <<"run">>>>, FALSE, "run"),
     Route("GET", <<<<"tests">>>>, FALSE, "list"),
     Route("GET", <<<<"tests">>, Param>>, FALSE, "test"),
     Route("GET", <<<<"tests">>, Param, <<"result">>>>, FALSE, "result"),
     Route("GET", <<<<"specs">>>>, FALSE, "specs"),
     Route("GET", <<<<"specs">>>>, TRUE, "read"),
     Route("PUT", <<<<"specs">>>>, TRUE, "write"),
     Route("POST", <<<<"specs">>, <<"reload">>>>, FALSE, "reload"),
     Route("GET", <<<<"specs">>, <<"reload">>>>, FALSE, "reloads"),
     Route("GET", <<<<"tests">>, <<"run">>>>, FALSE, "runs") >>

Segments == {"tests", "run", "result", "specs", "reload", "x"}
MCTargets == UNION {[1..n -> Segments] : n \in 0..3}

At(segs) == [segs |-> segs, slash |-> FALSE]
Root == [segs |-> <<>>, slash |-> TRUE]
MCUpgrades == {At(<<"ws">>)}
MCAssets == {Root, At(<<"index.html">>), At(<<"app.js">>)}
MCDotted == {"index.html", "app.js", "y.js"}

Get == [size |-> 2, version |-> "HTTP/1.1", target |-> "path", method |-> "GET",
        path |-> At(<<"tests">>), headers |-> <<>>, denied |-> FALSE, fate |-> "ok", end |-> 0]
To(method, segs) == [Get EXCEPT !.method = method, !.path = At(segs)]
With(q, headers) == [q EXCEPT !.headers = headers]
Post(n) == With(To("POST", <<"tests", "run">>), << <<"content-length", n>> >>)
Ws == With(To("GET", <<"ws">>), << <<"upgrade", "websocket">> >>)

\* What a request is, alone on its connection.
Single ==
  {To("GET", <<"tests", "x">>), To("GET", <<"tests", "x", "result">>), To("HEAD", <<"tests">>),
   To("GET", <<"specs">>), To("GET", <<"tests", "run">>), To("GET", <<"specs", "reload">>), To("GET", <<"specs", "x", "x">>),
   To("PUT", <<"specs", "x">>), To("DELETE", <<"tests">>), To("OPTIONS", <<"tests">>),
   To("GET", <<"app.js">>), To("GET", <<"y.js">>), To("GET", <<"dashboard">>),
   To("POST", <<"dashboard">>), [Get EXCEPT !.path = Root],
   With(To("HEAD", <<"app.js">>), << <<"if-none-match", "current">> >>),
   [Get EXCEPT !.denied = TRUE], [Get EXCEPT !.fate = "throws"], [Get EXCEPT !.fate = "invalid"],
   [Get EXCEPT !.version = "HTTP/2"], [Get EXCEPT !.target = "none"], With(Get, << <<"colon">> >>),
   Post(-1), With(Get, << <<"transfer-encoding", "chunked">> >>),
   Ws, [Ws EXCEPT !.denied = TRUE], [Ws EXCEPT !.fate = "invalid"], [Ws EXCEPT !.path = At(<<"x">>)]}

\* The requests of a script with their places in the stream.
Stream(s) ==
  [k \in DOMAIN s |-> [s[k] EXCEPT !.end = FoldSeq(LAMBDA q, n : n + Size(q), 0, SubSeq(s, 1, k))]]

\* At most three requests; <<>> is a client that connects and sends nothing.
Clients ==
  {<<>>} \cup {<<q>> : q \in Single} \cup
  {<<Get, Post(2), Get>>, <<Get, Get, Get>>, <<Post(3), Get>>, <<[Get EXCEPT !.size = 4], Get>>, <<Post(1), [Get EXCEPT !.size = 7]>>,
   << With(Post(2), << <<"expect", "100-continue">>, <<"content-length", 5>>, <<"content-length", 2>> >>), Get>>,
   << With(Get, << <<"connection", "close">> >>), Get>>,
   << [With(Get, << <<"connection", "keep-alive">> >>) EXCEPT !.version = "HTTP/1.0"],
      [Get EXCEPT !.version = "HTTP/1.0"], Get>>}

MCScripts == {Stream(s) : s \in Clients}
=============================================================================
