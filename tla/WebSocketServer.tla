-------------------------- MODULE WebSocketServer ---------------------------
(***************************************************************************)
(* WebSocket connections on top of the HTTP server                         *)
(* (src/src/server/websocket_server.cpp).  The worker that reads an        *)
(* upgrade registers the connection, greets the client and starts a reader *)
(* thread; the event dispatcher (Bus) broadcasts to every registered       *)
(* connection; TestHub::stop closes them all and then stops the HTTP       *)
(* server.  A connection may be closed by its reader, by a broadcast that  *)
(* fails and by stop, at the same time.  Threads run sendRaw and           *)
(* closeConnection step by step; the reader of a connection is a thread    *)
(* named like the connection.  A thread object that is destroyed unjoined  *)
(* ends the process (std::terminate).                                      *)
(***************************************************************************)
EXTENDS HttpServer

CONSTANTS
  Bus           \* the event dispatcher

ASSUME WebSocketServerAssumption ==
  /\ Threads = Conns \cup Workers \cup {Hub, Bus}
  /\ Conns \cap (Workers \cup {Hub, Bus}) = {} /\ Bus \notin Workers \cup {Hub}

VARIABLES
  connections,  \* connections_
  open,         \* Connection::open
  writer,       \* Connection::writeMutex: "free" or "held"
  handle,       \* Connection::reader: "none", "held", "finished" or "joined"
  finished,     \* finishedReaders_
  wsStopping,   \* stopping_
  events,       \* events broadcast so far
  crashed       \* the process is gone

wsVars == <<connections, open, writer, handle, finished, wsStopping, events, crashed>>
vars   == <<httpVars, wsVars>>

Init ==
  /\ HttpInit([t \in Threads |-> At(CASE t \in Workers -> "look" [] t \in Conns -> "none" [] OTHER -> "idle", NoConn)])
  /\ connections = {}
  /\ open = [k \in Conns |-> FALSE]
  /\ writer = [k \in Conns |-> "free"]
  /\ handle = [k \in Conns |-> "none"]
  /\ finished = {}
  /\ wsStopping = FALSE
  /\ events = 0
  /\ crashed = FALSE

Call(t, pc, next) == at' = [at EXCEPT ![t].pc = pc, ![t].next = next]
Close(t, bye)     == at' = [at EXCEPT ![t].pc = "cOpen", ![t].bye = bye]

-----------------------------------------------------------------------------
(* handleUpgrade, by a worker.                                             *)

\* The handshake is refused or answered; the socket is the server's to close
\* again if it fails.
Handshake(w) ==
  /\ at[w].pc = "upgrade"
  /\ peer[at[w].conn] # "silent"
  /\ \/ Goto(w, "close")
     \/ peer[at[w].conn] = "talks" /\ Goto(w, "register")
  /\ UNCHANGED <<stopVars, sock, peer, closes, requests, wsVars>>

Register(w) ==
  /\ at[w].pc = "register"
  /\ connections' = connections \cup {at[w].conn}
  /\ open' = [open EXCEPT ![at[w].conn] = TRUE]
  /\ Call(w, "sOpen", "reap")
  /\ UNCHANGED <<stopVars, sock, peer, closes, requests, writer, handle, finished, wsStopping,
                 events, crashed>>

\* reapFinishedReaders: by the next upgrade, and by stop.
Reap(t) ==
  /\ at[t].pc = "reap"
  /\ at' = [at EXCEPT ![t].pc = "reaping", ![t].todo = finished]
  /\ finished' = {}
  /\ UNCHANGED <<stopVars, sock, peer, closes, requests, connections, open, writer, handle,
                 wsStopping, events, crashed>>

Reaped(t) ==
  /\ at[t].pc = "reaping"
  /\ \A k \in at[t].todo : at[k].pc = "ended"
  /\ handle' = [k \in Conns |-> IF k \in at[t].todo THEN "joined" ELSE handle[k]]
  /\ at' = [at EXCEPT ![t].pc = IF t = Hub THEN "http" ELSE "spawn", ![t].todo = {}]
  /\ UNCHANGED <<stopVars, sock, peer, closes, requests, connections, open, writer, finished,
                 wsStopping, events, crashed>>

SpawnReader(w) ==
  /\ at[w].pc = "spawn"
  /\ handle' = [handle EXCEPT ![at[w].conn] = "held"]
  /\ at' = [at EXCEPT ![at[w].conn] = At("rLoop", at[w].conn), ![w] = At("look", NoConn)]
  /\ UNCHANGED <<stopVars, sock, peer, closes, requests, connections, open, writer, finished,
                 wsStopping, events, crashed>>

-----------------------------------------------------------------------------
(* readerLoop, by the reader of k.                                         *)

\* Mutant: the loop looks at its own connection only.
ReaderLoop_NoStop(k) ==
  /\ at[k].pc = "rLoop"
  /\ IF open[k] THEN Goto(k, "rRead") ELSE Close(k, FALSE)
  /\ UNCHANGED <<stopVars, sock, peer, closes, requests, wsVars>>

ReaderLoop(k) ==
  /\ at[k].pc = "rLoop"
  /\ IF open[k] /\ ~wsStopping THEN Goto(k, "rRead") ELSE Close(k, FALSE)
  /\ UNCHANGED <<stopVars, sock, peer, closes, requests, wsVars>>

\* recvExact polls until something comes or the connection is no longer open: a
\* close frame, which is answered, or one that is too large, which is not; a
\* ping to answer, a subscription, whose answer goes out with filterMutex held,
\* or a message without an answer.
ReadFrame(k) ==
  /\ at[k].pc = "rRead"
  /\ \/ ~open[k] \/ peer[k] = "gone" \/ sock[k] = "closed"
     \/ peer[k] = "talks"
  /\ \/ (~open[k] \/ peer[k] = "gone" \/ sock[k] = "closed") /\ Close(k, FALSE)
     \/ /\ open[k] /\ peer[k] = "talks" /\ sock[k] = "open"
        /\ \E bye \in BOOLEAN : Close(k, bye)
     \/ /\ open[k] /\ peer[k] = "talks" /\ sock[k] = "open" /\ requests < life.requests
        /\ \E next \in {"rLoop", "subscribed"} : Call(k, "sOpen", next)
  /\ requests' = IF at'[k].pc = "sOpen" THEN requests + 1 ELSE requests
  /\ UNCHANGED <<stopVars, sock, peer, closes, wsVars>>

Subscribed(k) ==
  /\ at[k].pc = "subscribed"
  /\ Goto(k, "rLoop")
  /\ UNCHANGED <<stopVars, sock, peer, closes, requests, wsVars>>

FilterLocked(k) == at[k].next = "subscribed" /\ at[k].pc \in {"sOpen", "sLock", "sSend", "subscribed"}

-----------------------------------------------------------------------------
(* sendRaw, by t: the flag, then the mutex, then the socket, whose number    *)
(* may be another connection's by now.                                     *)

\* What a failed send leads to: a broadcast closes the connection, the others
\* go on.
Failed(t) ==
  IF t = Bus THEN Close(t, FALSE) ELSE Goto(t, at[t].next)

SendCheck(t) ==
  /\ at[t].pc = "sOpen"
  /\ IF open[at[t].conn] THEN Goto(t, "sLock") ELSE Failed(t)
  /\ UNCHANGED <<stopVars, sock, peer, closes, requests, wsVars>>

WriteLock(t) ==
  /\ at[t].pc \in {"sLock", "cLock"}
  /\ writer[at[t].conn] = "free"
  /\ writer' = [writer EXCEPT ![at[t].conn] = "held"]
  /\ Goto(t, IF at[t].pc = "sLock" THEN "sSend" ELSE "cSend")
  /\ UNCHANGED <<stopVars, sock, peer, closes, requests, connections, open, handle, finished,
                 wsStopping, events, crashed>>

Send(t) ==
  LET k == at[t].conn
  IN  /\ at[t].pc = "sSend"
      /\ \/ /\ sock[k] = "closed" \/ peer[k] = "talks"
            /\ Goto(t, at[t].next)
            /\ UNCHANGED open
         \/ /\ sock[k] = "closed" \/ peer[k] = "gone"
            /\ open' = [open EXCEPT ![k] = FALSE]
            /\ Failed(t)
      /\ writer' = [writer EXCEPT ![k] = "free"]
      /\ UNCHANGED <<stopVars, sock, peer, closes, requests, connections, handle, finished,
                     wsStopping, events, crashed>>

-----------------------------------------------------------------------------
(* closeConnection, by t.                                                  *)

MarkClosed(t) ==
  LET k == at[t].conn
  IN  /\ at[t].pc = "cOpen"
      /\ open' = [open EXCEPT ![k] = FALSE]
      /\ Goto(t, IF open[k] /\ at[t].bye THEN "cLock" ELSE "cErase")
      /\ UNCHANGED <<stopVars, sock, peer, closes, requests, connections, writer, handle, finished,
                     wsStopping, events, crashed>>

SendClose(t) ==
  LET k == at[t].conn
  IN  /\ at[t].pc = "cSend"
      /\ sock[k] = "closed" \/ peer[k] # "silent"
      /\ writer' = [writer EXCEPT ![k] = "free"]
      /\ Goto(t, "cErase")
      /\ UNCHANGED <<stopVars, sock, peer, closes, requests, connections, open, handle, finished,
                     wsStopping, events, crashed>>

\* Mutant: whoever comes closes the socket.
Erase_Always(t) ==
  /\ at[t].pc = "cErase"
  /\ connections' = connections \ {at[t].conn}
  /\ Goto(t, "cClose")
  /\ UNCHANGED <<stopVars, sock, peer, closes, requests, open, writer, handle, finished,
                 wsStopping, events, crashed>>

\* Only the thread that takes the connection out of the registry goes on.
Erase(t) ==
  /\ at[t].pc = "cErase"
  /\ connections' = connections \ {at[t].conn}
  /\ Goto(t, IF at[t].conn \in connections THEN "cClose" ELSE "cDone")
  /\ UNCHANGED <<stopVars, sock, peer, closes, requests, open, writer, handle, finished,
                 wsStopping, events, crashed>>

\* shutdown and close: a thread blocked in a send on it gets its error.
CloseWs(t) ==
  /\ at[t].pc = "cClose"
  /\ CloseSocket(at[t].conn)
  /\ Goto(t, "cJoin")
  /\ UNCHANGED <<stopVars, peer, requests, wsVars>>

\* The reader is joined, unless there is none yet; a reader cannot join itself
\* and leaves that to the next reap.
JoinReader(t) ==
  LET k == at[t].conn
  IN  /\ at[t].pc = "cJoin"
      /\ handle[k] = "held" /\ t # k => at[k].pc = "ended"
      /\ handle' = [handle EXCEPT ![k] = IF @ = "none" THEN @ ELSE IF t = k THEN "finished" ELSE "joined"]
      /\ finished' = IF handle[k] = "held" /\ t = k THEN finished \cup {k} ELSE finished
      /\ Goto(t, "cDone")
      /\ UNCHANGED <<stopVars, sock, peer, closes, requests, connections, open, writer, wsStopping,
                     events, crashed>>

\* Another thread has taken k out of the registry and is about to join its reader.
BeingJoined(k) == \E c \in {Bus, Hub} : at[c].conn = k /\ at[c].pc \in {"cClose", "cJoin"}

\* A reader ends here, with the last reference to its connection: a handle that
\* is still in it is destroyed unjoined.
Closed(t) ==
  /\ at[t].pc = "cDone"
  /\ Goto(t, CASE t \in Conns -> "ended" [] t = Bus -> "bNext" [] t = Hub -> "wNext")
  /\ crashed' = (t \in Conns /\ t \notin connections /\ handle[t] = "held" /\ ~BeingJoined(t))
  /\ UNCHANGED <<stopVars, sock, peer, closes, requests, connections, open, writer, handle, finished,
                 wsStopping, events>>

-----------------------------------------------------------------------------
(* broadcastEvent, by the dispatcher, and stop, by the hub.                 *)

Broadcast ==
  /\ at[Bus].pc = "idle" /\ events < life.events
  /\ events' = events + 1
  /\ at' = [at EXCEPT ![Bus].pc = "bNext", ![Bus].todo = connections]
  /\ UNCHANGED <<stopVars, sock, peer, closes, requests, connections, open, writer, handle, finished,
                 wsStopping, crashed>>

\* The connections one after the other, those whose filter does not match passed
\* over; the filter is looked at under filterMutex.
BroadcastNext ==
  /\ at[Bus].pc = "bNext"
  /\ \/ /\ at[Bus].todo = {}
        /\ at' = [at EXCEPT ![Bus] = At("idle", NoConn)]
     \/ \E k \in at[Bus].todo :
          /\ ~FilterLocked(k)
          /\ \/ at' = [at EXCEPT ![Bus].todo = @ \ {k}]
             \/ at' = [at EXCEPT ![Bus] = [pc |-> "sOpen", conn |-> k, next |-> "bNext", bye |-> FALSE,
                                           todo |-> at[Bus].todo \ {k}]]
  /\ UNCHANGED <<stopVars, sock, peer, closes, requests, wsVars>>

StopWs ==
  /\ at[Hub].pc = "idle" /\ life.stop
  /\ wsStopping' = TRUE
  /\ Goto(Hub, "wSnapshot")
  /\ UNCHANGED <<stopVars, sock, peer, closes, requests, connections, open, writer, handle, finished,
                 events, crashed>>

SnapshotWs ==
  /\ at[Hub].pc = "wSnapshot"
  /\ at' = [at EXCEPT ![Hub].pc = "wNext", ![Hub].todo = connections]
  /\ UNCHANGED <<stopVars, sock, peer, closes, requests, wsVars>>

StopNext ==
  /\ at[Hub].pc = "wNext"
  /\ \/ at[Hub].todo = {} /\ Goto(Hub, "reap")
     \/ \E k \in at[Hub].todo :
          at' = [at EXCEPT ![Hub] = [pc |-> "cOpen", conn |-> k, next |-> "none", bye |-> TRUE,
                                     todo |-> at[Hub].todo \ {k}]]
  /\ UNCHANGED <<stopVars, sock, peer, closes, requests, wsVars>>

-----------------------------------------------------------------------------
Upgrade(w) == Handshake(w) \/ Register(w) \/ SpawnReader(w)
ReaderStep(k) == ReaderLoop(k) \/ ReadFrame(k) \/ Subscribed(k)
Procedure(t) ==
  \/ SendCheck(t) \/ WriteLock(t) \/ Send(t) \/ Reap(t) \/ Reaped(t)
  \/ MarkClosed(t) \/ SendClose(t) \/ Erase(t) \/ CloseWs(t) \/ JoinReader(t) \/ Closed(t)

HttpStep == HttpNext /\ UNCHANGED wsVars

Next ==
  /\ ~crashed
  /\ \/ HttpStep
     \/ StopWs \/ SnapshotWs \/ StopNext \/ Broadcast \/ BroadcastNext
     \/ \E w \in Workers : Upgrade(w)
     \/ \E k \in Conns : ReaderStep(k)
     \/ \E t \in Threads : Procedure(t)

Spec == Init /\ [][Next]_vars

Running(A) == ~crashed /\ A

\* Every thread goes on while it can; a blocked send cannot.  Clients do as they
\* like, and nobody has to stop the server.
FairSpec ==
  /\ Spec
  /\ WF_vars(Running((NotifyOne \/ AcceptorEnds \/ \E k \in Conns : Accept(k)) /\ UNCHANGED wsVars))
  /\ WF_vars(Running(StopHttp /\ UNCHANGED wsVars))
  /\ WF_vars(Running(SnapshotWs \/ StopNext \/ Procedure(Hub)))
  /\ WF_vars(Running(BroadcastNext \/ Procedure(Bus)))
  /\ \A w \in Workers : WF_vars(Running((Work(w) /\ UNCHANGED wsVars) \/ Upgrade(w) \/ Procedure(w)))
  /\ \A k \in Conns : WF_vars(Running(ReaderStep(k) \/ Procedure(k)))

-----------------------------------------------------------------------------
\* A socket is closed once, by the worker that serves it or by the one thread
\* that takes its connection out of the registry: closed twice, the second close
\* may hit a client that was given the same number meanwhile.
ClosedOnce == \A k \in Conns : closes[k] <= 1

\* A reader thread that is over has been joined, is left for the next upgrade or
\* stop to join, as closeConnection says of a reader that ends by itself, or is
\* just being joined by the thread that closes its connection.
ReadersReclaimed ==
  \A k \in Conns : at[k].pc = "ended" => handle[k] \in {"finished", "joined"} \/ BeingJoined(k)

\* A thread waits for a client that does not read.
Stuck ==
  \E k \in Conns : peer[k] = "silent" /\ sock[k] = "open" /\
    \E t \in Threads : at[t].conn = k /\ at[t].pc \in {"reply", "upgrade", "sSend", "cSend"}

\* Whoever connects is served or turned away: no accepted connection is left in
\* pending_ with the workers asleep (notify_one after every push).  Clients are
\* bounded to life.requests: one that never stops asking keeps its worker, the
\* code limits neither the number of requests nor the age of a connection.
PendingServed ==
  \A k \in Conns : sock[k] = "backlog" \/ (\E i \in DOMAIN pending : pending[i] = k)
    ~> (sock[k] \in {"open", "closed"} /\ ~ \E i \in DOMAIN pending : pending[i] = k) \/ Stuck \/ crashed

\* TestHub::stop gets through both servers, joining the WebSocket readers, the
\* accepting thread and the workers, and leaves no client connected: one whose
\* upgrade passes after the WebSocket server has stopped is let go by its reader.
StopReturns ==
  at[Hub].pc # "idle" ~>
    (at[Hub].pc = "stopped" /\ \A k \in Conns : sock[k] # "open") \/ Stuck \/ crashed

=============================================================================
