------------------------------ MODULE MCServer ------------------------------
(* Two clients, a worker, the event dispatcher and TestHub::stop.           *)
EXTENDS WebSocketServer
CONSTANTS k1, k2
AllThreads == Conns \cup Workers \cup {Hub, Bus}

Life(cs, r, e, f, s) == [conns |-> cs, requests |-> r, events |-> e, faults |-> f, stop |-> s]

\* Two clients and a stop; one client, a broadcast, a fault and a stop; one
\* client that is left alone by the stop for longer; two clients and a fault.
AllLives ==
  { Life(Conns, 1, 0, 0, TRUE), Life({k1}, 1, 1, 1, TRUE),
    Life({k1}, 2, 1, 1, FALSE), Life(Conns, 2, 0, 1, FALSE) }

\* One client, gone while an event is broadcast to it.
LostLives == { Life({k1}, 1, 1, 1, FALSE) }

=============================================================================
