----------------------------- MODULE HttpServer -----------------------------
(***************************************************************************)
(* The HTTP server (src/src/server/http_server.cpp): one thread accepts    *)
(* connections into pending_, worker threads take them from there and      *)
(* serve one connection each, request after request while it is kept       *)
(* alive.  A request to upgrade leaves the socket to its handler; what     *)
(* that does is WebSocketServer.  Hub is the thread in TestHub::stop.      *)
(* Requests, routes and bodies are left out, the ways a read can end are   *)
(* not; a silent peer neither sends nor reads, so a send to it blocks.     *)
(***************************************************************************)
EXTENDS Naturals, Sequences, FiniteSets

CONSTANTS
  Conns,        \* connections clients make
  Workers,      \* worker threads
  Threads, Hub, \* all threads of the server, and the one that stops it
  Lives         \* bounds, one of which each behaviour keeps: see life

ASSUME HttpServerAssumption ==
  /\ IsFiniteSet(Threads) /\ Conns # {} /\ Workers \cup {Hub} \subseteq Threads /\ Hub \notin Workers
  /\ \A l \in Lives : l.conns \subseteq Conns /\ {l.requests, l.events, l.faults} \subseteq Nat

VARIABLES
  at,         \* per thread: [pc, conn, next, bye, todo]
  acceptor,   \* the accepting thread: "loop", "notify" or "ended"
  sock,       \* per connection: "none", "backlog", "open" or "closed"
  peer,       \* per connection: "talks", "silent" or "gone"
  pending,    \* pending_
  stopping,   \* stopping_
  closes,     \* how often each socket was closed
  requests,   \* requests and frames read so far
  life        \* bounds of this behaviour: [conns: who connects, requests, events:
              \* broadcasts, faults: changes of a peer, stop: whether the server is stopped]

httpVars == <<at, acceptor, sock, peer, pending, stopping, closes, requests, life>>
stopVars == <<acceptor, pending, stopping, life>>

NoConn == CHOOSE k \in Conns : TRUE    \* of a thread that serves none
At(pc, k)   == [pc |-> pc, conn |-> k, next |-> "none", bye |-> FALSE, todo |-> {}]
Goto(t, pc) == at' = [at EXCEPT ![t].pc = pc]

HttpInit(start) ==
  /\ at = start
  /\ acceptor = "loop"
  /\ sock = [k \in Conns |-> "none"]
  /\ peer = [k \in Conns |-> "talks"]
  /\ pending = <<>>
  /\ stopping = FALSE
  /\ closes = [k \in Conns |-> 0]
  /\ requests = 0
  /\ life \in Lives

CloseSocket(k) ==
  /\ sock' = [sock EXCEPT ![k] = "closed"]
  /\ closes' = [closes EXCEPT ![k] = @ + 1]

-----------------------------------------------------------------------------
(* Clients (external).                                                     *)

Connect(k) ==
  /\ k \in life.conns /\ sock[k] = "none" /\ acceptor # "ended"
  /\ sock' = [sock EXCEPT ![k] = "backlog"]
  /\ UNCHANGED <<at, stopVars, peer, closes, requests>>

PeerChanges(k) ==
  /\ sock[k] = "open"
  /\ Cardinality({j \in Conns : peer[j] # "talks"}) < life.faults \/ peer[k] = "silent"
  /\ \/ peer[k] = "talks" /\ peer' = [peer EXCEPT ![k] = "silent"]
     \/ peer[k] # "gone" /\ peer' = [peer EXCEPT ![k] = "gone"]
  /\ UNCHANGED <<at, stopVars, sock, closes, requests>>

-----------------------------------------------------------------------------
(* acceptLoop.                                                             *)

\* Mutant: nobody is notified.
Accept_Silent(k) ==
  /\ acceptor = "loop"
  /\ sock[k] = "backlog"
  /\ sock' = [sock EXCEPT ![k] = "open"]
  /\ pending' = Append(pending, k)
  /\ UNCHANGED <<life, at, acceptor, stopping, peer, closes, requests>>

\* The loop has looked at stopping_ before it waits for a client: a stop that
\* comes in between leaves it one more.
Accept(k) ==
  /\ acceptor = "loop"
  /\ sock[k] = "backlog"
  /\ sock' = [sock EXCEPT ![k] = "open"]
  /\ pending' = Append(pending, k)
  /\ acceptor' = "notify"
  /\ UNCHANGED <<life, at, stopping, peer, closes, requests>>

Asleep == {w \in Workers : at[w].pc = "asleep"}
Wake(W) == at' = [t \in Threads |-> IF t \in W THEN [at[t] EXCEPT !.pc = "look"] ELSE at[t]]

NotifyOne ==
  /\ acceptor = "notify"
  /\ acceptor' = IF stopping THEN "ended" ELSE "loop"
  /\ IF Asleep # {} THEN \E w \in Asleep : Wake({w}) ELSE UNCHANGED at
  /\ UNCHANGED <<life, sock, peer, pending, stopping, closes, requests>>

AcceptorEnds ==
  /\ acceptor = "loop" /\ stopping
  /\ acceptor' = "ended"
  /\ UNCHANGED <<life, at, sock, peer, pending, stopping, closes, requests>>

-----------------------------------------------------------------------------
(* workerLoop and handleConnection.                                        *)

\* The predicate of the wait, under pendingMutex_.
WorkerLooks(w) ==
  /\ at[w].pc = "look"
  /\ \/ /\ pending # <<>>
        /\ at' = [at EXCEPT ![w] = At("serve", Head(pending))]
        /\ pending' = Tail(pending)
     \/ /\ pending = <<>>
        /\ Goto(w, IF stopping THEN "exited" ELSE "asleep")
        /\ UNCHANGED pending
  /\ UNCHANGED <<life, acceptor, stopping, sock, peer, closes, requests>>

\* while (!stopping_)
ServeNext(w) ==
  /\ at[w].pc = "serve"
  /\ Goto(w, IF stopping THEN "close" ELSE "read")
  /\ UNCHANGED <<stopVars, sock, peer, closes, requests>>

\* readRequest: nothing comes in time, the peer is gone, or a request is read:
\* one that is answered and keeps the connection or not, a malformed one
\* included, or one to upgrade.
ReadRequest(w) ==
  /\ at[w].pc = "read"
  /\ \/ Goto(w, "close") /\ UNCHANGED requests
     \/ /\ peer[at[w].conn] = "talks" /\ requests < life.requests
        /\ requests' = requests + 1
        /\ \/ \E next \in {"serve", "close"} : at' = [at EXCEPT ![w].pc = "reply", ![w].next = next]
           \/ Goto(w, "upgrade")
  /\ UNCHANGED <<stopVars, sock, peer, closes>>

\* dispatch and sendAll; a stop by now ends the connection.
Reply(w) ==
  /\ at[w].pc = "reply"
  /\ peer[at[w].conn] # "silent"
  /\ Goto(w, IF peer[at[w].conn] = "gone" \/ stopping THEN "close" ELSE at[w].next)
  /\ UNCHANGED <<stopVars, sock, peer, closes, requests>>

CloseConn(w) ==
  /\ at[w].pc = "close"
  /\ CloseSocket(at[w].conn)
  /\ Goto(w, "look")
  /\ UNCHANGED <<stopVars, peer, requests>>

Work(w) == WorkerLooks(w) \/ ServeNext(w) \/ ReadRequest(w) \/ Reply(w) \/ CloseConn(w)

-----------------------------------------------------------------------------
(* stop.                                                                   *)

SetStopping ==
  /\ at[Hub].pc = "http"
  /\ stopping' = TRUE
  /\ Goto(Hub, "joinAcceptor")
  /\ UNCHANGED <<life, acceptor, pending, sock, peer, closes, requests>>

\* The accepting thread is joined and the listening socket closed with whoever
\* was still in its backlog; then the workers are woken.
JoinAcceptor ==
  /\ at[Hub].pc = "joinAcceptor"
  /\ acceptor = "ended"
  /\ sock' = [k \in Conns |-> IF sock[k] = "backlog" THEN "closed" ELSE sock[k]]
  /\ at' = [t \in Threads |-> IF t = Hub THEN [at[Hub] EXCEPT !.pc = "joinWorkers"]
                              ELSE IF t \in Asleep THEN [at[t] EXCEPT !.pc = "look"] ELSE at[t]]
  /\ UNCHANGED <<stopVars, peer, closes, requests>>

JoinWorkers ==
  /\ at[Hub].pc = "joinWorkers"
  /\ \A w \in Workers : at[w].pc = "exited"
  /\ LET left == {pending[i] : i \in DOMAIN pending}
     IN  /\ sock' = [k \in Conns |-> IF k \in left THEN "closed" ELSE sock[k]]
         /\ closes' = [k \in Conns |-> IF k \in left THEN closes[k] + 1 ELSE closes[k]]
  /\ pending' = <<>>
  /\ Goto(Hub, "stopped")
  /\ UNCHANGED <<life, acceptor, stopping, peer, requests>>

StopHttp == SetStopping \/ JoinAcceptor \/ JoinWorkers

HttpNext ==
  \/ NotifyOne \/ AcceptorEnds \/ StopHttp
  \/ \E w \in Workers : Work(w)
  \/ \E k \in Conns : Connect(k) \/ PeerChanges(k) \/ Accept(k)

=============================================================================
