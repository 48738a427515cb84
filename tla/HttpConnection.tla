--------------------------- MODULE HttpConnection ---------------------------
(***************************************************************************)
(* One connection of the HTTP server (readRequest and handleConnection in  *)
(* src/src/server/http_server.cpp): requests are cut out of a stream that  *)
(* arrives in pieces of any size, possibly several in one piece, each is   *)
(* answered, and the connection is kept or closed.  A byte is the place it *)
(* has in the stream the client means to send.                             *)
(***************************************************************************)
EXTENDS HttpDispatch, FiniteSetsExt

CONSTANTS
  Scripts,    \* what a client may send: sequences of requests, with the size of the
              \* head and the last byte of each
  Chunk,      \* bytes one recv takes at most
  MaxHeader,  \* config_.maxHeaderBytes
  MaxBody,    \* config_.maxBodyBytes
  Targets     \* paths by which routes are compared, as segments

\* The bytes of a request: its head, and the body its length announces.
Size(q) == q.size + (IF ContentLength(q) > 0 THEN ContentLength(q) ELSE 0)

ASSUME ConnectionAssumption ==
  /\ Chunk \in Nat \ {0} /\ MaxHeader \in Nat /\ Chunk <= MaxHeader /\ MaxBody \in Nat
  /\ \A s \in Scripts :
       /\ Len(s) \in Nat /\ DOMAIN s = 1..Len(s)
       /\ \A k \in DOMAIN s : /\ s[k].size \in Nat \ {0} /\ ContentLength(s[k]) \in Int
                             /\ s[k].fate \in {"ok", "invalid", "throws"}
                             /\ s[k].end \in Nat
                             /\ s[k].end = (IF k = 1 THEN 0 ELSE s[k - 1].end) + Size(s[k])

Paths(r) == {p \in Targets : OnPath(r, p)}

\* The routes of the server are told apart by their names, and one that covers
\* less than another has the better score.  (<a, *> and <a, parameter, *> would not:
\* their scores are equal, and the first one registered answers.)
ASSUME RoutesAssumption ==
  /\ Len(Routes) \in Nat /\ DOMAIN Routes = 1..Len(Routes)
  /\ \A k \in DOMAIN Routes : /\ Len(Routes[k].segs) \in Nat
                              /\ DOMAIN Routes[k].segs = 1..Len(Routes[k].segs)
                              /\ Routes[k].name \notin {"server", "upgrade", "filter", "preflight",
                                                       "method", "static", "page", "nothing"}
  /\ \A j, k \in DOMAIN Routes :
       /\ Routes[j].name = Routes[k].name => j = k
       /\ Paths(Routes[j]) \subseteq Paths(Routes[k]) /\ Paths(Routes[j]) # Paths(Routes[k])
            => Score(Routes[j]) > Score(Routes[k])

VARIABLES
  script,     \* the requests of this client
  sends,      \* how many bytes it sends before it falls silent
  got,        \* how many the server has received
  pc,         \* where handleConnection is, or "closed" or "taken"
  buffer,     \* buffer of readRequest, leftover between two requests
  body,       \* request.body
  number,     \* the request that is read or served, by its place in script
  quitting,   \* stopping_
  invited,    \* requests answered with 100 Continue
  sent,       \* answers: [code, by, keep, read: the bytes taken for the request]
  broken      \* the peer was found gone

connVars == <<script, sends, got, pc, buffer, body, number, quitting, invited, sent, broken>>

\* The bytes after the first a, up to the b-th.
Span(a, b) == [i \in 1..(b - a) |-> a + i]

Before(k)  == IF k = 1 THEN 0 ELSE script[k - 1].end
HeadEnd(k) == Before(k) + script[k].size
Bytes(k)   == Span(Before(k), Before(k + 1))

ConnInit ==
  /\ script \in Scripts
  /\ sends \in 0..Before(Len(script) + 1)
  /\ got = 0
  /\ pc = "top"
  /\ buffer = <<>>
  /\ body = <<>>
  /\ number = 0
  /\ quitting = FALSE
  /\ invited = {}
  /\ sent = <<>>
  /\ broken = FALSE

Stays == UNCHANGED <<script, sends, quitting>>
Unanswered == UNCHANGED <<invited, sent, broken>>

-----------------------------------------------------------------------------
(* The socket: pieces arrive, nothing comes in time, the peer goes.        *)

\* A client that expects 100-continue sends no body before it is invited to.
Available ==
  LET held == {k \in DOMAIN script :
                 Expects(script[k]) /\ ContentLength(script[k]) > 0 /\ k \notin invited}
  IN  Min({sends} \cup {HeadEnd(k) : k \in held})

Piece(n) == Span(got, got + n)

\* send fails, or the answer is out and the connection goes on or ends.
Respond(answer, keep, read) ==
  \/ /\ sent' = Append(sent, [code |-> answer.code, by |-> answer.by, keep |-> keep, read |-> read])
     /\ pc' = IF keep THEN "top" ELSE "closed"
     /\ UNCHANGED broken
  \/ /\ broken' = TRUE
     /\ pc' = "closed"
     /\ UNCHANGED sent

Refuse(code) == Respond(Answer(code, "server"), FALSE, <<>>)

-----------------------------------------------------------------------------
(* handleConnection and readRequest.                                       *)

\* while (!stopping_)
Top ==
  /\ pc = "top"
  /\ pc' = IF quitting THEN "closed" ELSE "head"
  /\ UNCHANGED <<got, buffer, body, number>> /\ Stays /\ Unanswered

\* Where heads end in what has been read.
Ends(b) == {i \in DOMAIN b : \E k \in DOMAIN script : b[i] = HeadEnd(k)}

TooLong(b) == Len(b) > MaxHeader

RecvHead ==
  /\ pc = "head" /\ Ends(buffer) = {}
  /\ \E n \in 1..Chunk :
       /\ got + n <= Available
       /\ got' = got + n
       /\ buffer' = buffer \o Piece(n)
  /\ IF Ends(buffer') = {} /\ TooLong(buffer')
     THEN Refuse(431) /\ UNCHANGED invited
     ELSE UNCHANGED pc /\ Unanswered
  /\ UNCHANGED <<body, number>> /\ Stays

\* Nothing is said to a peer that has sent nothing.
HeadTimeout ==
  /\ pc = "head" /\ Ends(buffer) = {}
  /\ IF buffer = <<>> THEN pc' = "closed" /\ UNCHANGED <<sent, broken>>
     ELSE Refuse(408)
  /\ UNCHANGED <<got, buffer, body, number, invited>> /\ Stays

HeadClosed ==
  /\ pc = "head" /\ Ends(buffer) = {}
  /\ pc' = "closed"
  /\ broken' = TRUE
  /\ UNCHANGED <<got, buffer, body, number, invited, sent>> /\ Stays

\* The head as parsed: the one request these bytes are the head of.
Parsed(head) == {k \in DOMAIN script : head = Span(Before(k), HeadEnd(k))}

Invites(q, rest) == Expects(q) /\ ContentLength(q) > Len(rest)

ParseHead ==
  /\ pc = "head" /\ Ends(buffer) # {}
  /\ LET end  == Min(Ends(buffer))
         head == SubSeq(buffer, 1, end)
         rest == SubSeq(buffer, end + 1, Len(buffer))
         Bad(k) == Parsed(head) = {} \/ ~WellFormed(script[k]) \/ ContentLength(script[k]) < 0
     IN  \E k \in IF Parsed(head) = {} THEN {0} ELSE Parsed(head) :
           /\ number' = k
           /\ buffer' = <<>>
           /\ body' = rest
           /\ IF Bad(k) THEN Refuse(400) /\ UNCHANGED invited
              ELSE IF Chunked(script[k]) THEN Refuse(501) /\ UNCHANGED invited
              ELSE IF ContentLength(script[k]) > MaxBody THEN Refuse(413) /\ UNCHANGED invited
              ELSE /\ pc' = "body"
                   /\ invited' = IF Invites(script[k], rest) THEN invited \cup {k} ELSE invited
                   /\ UNCHANGED <<sent, broken>>
  /\ UNCHANGED got /\ Stays

Missing == Len(body) < ContentLength(script[number])

RecvBody ==
  /\ pc = "body" /\ Missing
  /\ \E n \in 1..Chunk :
       /\ got + n <= Available
       /\ got' = got + n
       /\ body' = body \o Piece(n)
  /\ UNCHANGED <<pc, buffer, number>> /\ Stays /\ Unanswered

BodyTimeout ==
  /\ pc = "body" /\ Missing
  /\ Refuse(408)
  /\ UNCHANGED <<got, buffer, body, number, invited>> /\ Stays

\* A peer that has closed its side only may still read the refusal.
BodyClosed ==
  /\ pc = "body" /\ Missing
  /\ Refuse(400)
  /\ UNCHANGED <<got, buffer, body, number, invited>> /\ Stays

\* Mutant: what was read beyond the body is dropped.
Leftover_Dropped(length) == <<>>

\* What was read beyond the body is the next request's.
Leftover(length) == SubSeq(body, length + 1, Len(body))

Cut(length) == SubSeq(body, 1, length)

BodyRead ==
  /\ pc = "body" /\ ~Missing
  /\ LET length == ContentLength(script[number])
     IN  /\ buffer' = Leftover(length)
         /\ body' = Cut(length)
  /\ pc' = "serve"
  /\ UNCHANGED <<got, number>> /\ Stays /\ Unanswered

Taken == Span(Before(number), HeadEnd(number)) \o body

\* A handler that takes the socket keeps it; one that does not has answered.
TakeSocket ==
  /\ pc = "serve" /\ WantsUpgrade(script[number])
  /\ LET q == script[number]
     IN  IF q.path \notin Upgrades THEN Respond(Answer(404, "upgrade"), FALSE, Taken)
         ELSE IF q.denied THEN Respond(Answer(401, "filter"), FALSE, Taken)
         ELSE IF q.fate # "ok" THEN Respond(Answer(400, "upgrade"), FALSE, Taken)
         ELSE \/ /\ pc' = "taken"
                 /\ sent' = Append(sent, [code |-> 101, by |-> "upgrade", keep |-> FALSE, read |-> Taken])
                 /\ UNCHANGED broken
              \/ pc' = "closed" /\ broken' = TRUE /\ UNCHANGED sent
  /\ UNCHANGED <<got, buffer, body, number, invited>> /\ Stays

\* The handler runs before stopping_ is looked at.
Serve ==
  /\ pc = "serve" /\ ~WantsUpgrade(script[number])
  /\ Respond(Dispatch(script[number]), KeepAlive(script[number]) /\ ~quitting, Taken)
  /\ UNCHANGED <<got, buffer, body, number, invited>> /\ Stays

Stop ==
  /\ ~quitting
  /\ quitting' = TRUE
  /\ UNCHANGED <<script, sends, got, pc, buffer, body, number, invited, sent, broken>>

-----------------------------------------------------------------------------
\* poll ends every wait.
Handling ==
  \/ Top \/ ParseHead \/ BodyRead \/ TakeSocket \/ Serve
  \/ RecvHead \/ HeadTimeout \/ RecvBody \/ BodyTimeout

ConnNext == Handling \/ HeadClosed \/ BodyClosed \/ Stop

ConnSpec == ConnInit /\ [][ConnNext]_connVars

-----------------------------------------------------------------------------
\* Whatever the sizes of the pieces, and however many requests come in one, the
\* i-th answer is for the i-th request, built from its bytes and no others; only
\* a refusal, which ends the connection, comes without a request read whole.
RequestsReadWhole ==
  \A i \in DOMAIN sent :
    IF sent[i].by = "server" THEN ~sent[i].keep ELSE sent[i].read = Bytes(i)

\* A request that has arrived in whole on a connection that was to be kept is
\* answered, unless the server stops or the peer is gone: what came with an
\* earlier request is not forgotten.
NoneForgotten ==
  LET n == Len(sent)
  IN  (pc = "closed" /\ ~quitting /\ ~broken) =>
        \/ n > 0 /\ ~sent[n].keep
        \/ n = Len(script)
        \/ got < Before(n + 2)

\* After an answer that says close there is none.
CloseAnnounced ==
  \A i \in DOMAIN sent : ~sent[i].keep => i = Len(sent) /\ pc \in {"closed", "taken"}

\* The bound on heads: one refused as too long is longer than the bound, and one
\* that was answered exceeds it by less than a piece, since the end of a head
\* that comes with the piece is looked for first.
HeadersBounded ==
  \A i \in DOMAIN sent :
    /\ sent[i].code = 431 => script[i].size > MaxHeader
    /\ sent[i].by # "server" => script[i].size <= MaxHeader + Chunk

\* Client and server never wait for each other: a client that waits to be asked
\* for its body has been asked when the server waits for it.
NoMutualWait ==
  pc = "body" /\ Missing /\ got < sends => got < Available

\* A request is answered by a route for it, and by none that covers more paths
\* than another route for it: what is registered for a fixed path is not taken by
\* a parameter or a wildcard, in whatever order they were registered.
MostSpecificRoute ==
  \A i \in DOMAIN sent : \A r \in {Routes[k] : k \in DOMAIN Routes} :
    sent[i].by = r.name =>
      /\ OnPath(r, script[i].path.segs)
      /\ ~\E k \in Matching(script[i]) :
            Paths(Routes[k]) \subseteq Paths(r) /\ Paths(Routes[k]) # Paths(r)

\* However a client's requests are cut into pieces, each is read whole and answered
\* in its turn (see RequestsReadWhole, NoneForgotten), by the most specific route
\* (see MostSpecificRoute), within the bound on heads (see HeadersBounded), with
\* nothing after an answer that says close (see CloseAnnounced) and with no client
\* left waiting for 100 Continue (see NoMutualWait).
RequestsAnsweredAsSent ==
  /\ RequestsReadWhole /\ NoneForgotten
  /\ MostSpecificRoute /\ HeadersBounded
  /\ CloseAnnounced /\ NoMutualWait
=============================================================================
