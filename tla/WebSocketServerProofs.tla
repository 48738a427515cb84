----------------------- MODULE WebSocketServerProofs ------------------------
(***************************************************************************)
(* A socket is closed once, for any number of clients and workers, with    *)
(* readers, broadcasts and stop closing the same connection together.      *)
(*                                                                         *)
(* At every moment the right to close a socket is with pending_, with one  *)
(* thread or with the registry, and with nobody once it was used.          *)
(*                                                                         *)
(* And the requests of one connection, for any stream, routes and pieces:  *)
(* what was read and not yet answered is one run of places of the stream,  *)
(* from the end of the last request that was answered to what has come.    *)
(***************************************************************************)
EXTENDS WebSocketServer, HttpConnection, FiniteSetTheorems, SequenceTheorems, WellFoundedInduction, TLAPS

\* A thread at one of these has the socket of its connection to close.
Owning == {"serve", "read", "reply", "upgrade", "close", "register", "cClose"}

\* closeConnection; no worker runs it.
Closing == {"cOpen", "cLock", "cSend", "cErase", "cClose", "cJoin", "cDone"}

\* sendRaw.
Sending == {"sOpen", "sLock", "sSend"}

Others == {"none", "idle", "look", "asleep", "exited", "reap", "reaping", "spawn", "rLoop", "rRead",
           "subscribed", "bNext", "wSnapshot", "wNext", "http", "joinAcceptor", "joinWorkers",
           "stopped", "ended"}

Pcs == Owning \cup Closing \cup Sending \cup Others

Place == [pc : Pcs, conn : Conns, next : Pcs, bye : BOOLEAN, todo : SUBSET Conns]

TypeOK ==
  /\ at \in [Threads -> Place]
  /\ sock \in [Conns -> {"none", "backlog", "open", "closed"}]
  /\ closes \in [Conns -> Nat]
  /\ pending \in Seq(Conns)
  /\ connections \subseteq Conns /\ finished \subseteq Conns

\* No procedure returns into a right its caller has given away.
Returns ==
  \A t \in Threads : /\ at[t].pc \in Sending => at[t].next \in Others
                     /\ at[t].pc = "reply" => at[t].next \in {"serve", "close"}
                     /\ at[t].pc \in Closing => t \notin Workers

Holds(t, k) == at[t].conn = k /\ at[t].pc \in Owning
Waits(k)    == \E i \in 1..Len(pending) : pending[i] = k

\* Nobody has a socket to close that was not accepted yet or is closed already.
Unowned ==
  \A k \in Conns : sock[k] \in {"none", "backlog"} \/ closes[k] # 0 =>
    k \notin connections /\ ~Waits(k) /\ \A t \in Threads : ~Holds(t, k)

Unclosed == \A k \in Conns : sock[k] \in {"none", "backlog"} => closes[k] = 0

OneOwner ==
  /\ \A k \in Conns : \A s, t \in Threads : Holds(s, k) /\ Holds(t, k) => s = t
  /\ \A k \in Conns : \A t \in Threads : Holds(t, k) => k \notin connections /\ ~Waits(k)
  /\ \A k \in connections : ~Waits(k)
  /\ \A i, j \in 1..Len(pending) : pending[i] = pending[j] => i = j

Inv == TypeOK /\ Returns /\ Unowned /\ Unclosed /\ OneOwner /\ ClosedOnce

-----------------------------------------------------------------------------
(* Steps that give nobody a right to close.                                *)

LEMMA Roles ==
  /\ Workers \subseteq Threads /\ Conns \subseteq Threads /\ Hub \in Threads /\ Bus \in Threads
  /\ Hub \notin Workers /\ Bus \notin Workers /\ Bus # Hub
  /\ \A k \in Conns : k \notin Workers /\ k # Hub /\ k # Bus
BY HttpServerAssumption, WebSocketServerAssumption

LEMMA NoConnIsConn == NoConn \in Conns
BY HttpServerAssumption DEF NoConn

LEMMA Pieces ==
  /\ Pcs = Owning \cup Closing \cup Sending \cup Others
  /\ \A spot \in Closing \cup Sending \cup Others : spot # "reply"
  /\ \A spot \in Others : spot \notin Owning /\ spot \notin Closing /\ spot \notin Sending
  /\ \A spot \in Sending : spot \notin Owning /\ spot \notin Closing
  /\ \A spot \in Closing : spot \in Owning => spot = "cClose"
BY DEF Pcs, Owning, Closing, Sending, Others

LEMMA Quiet ==
  ASSUME Inv, TypeOK', Returns', UNCHANGED <<closes, pending, connections>>,
         \A k \in Conns : sock'[k] \in {"none", "backlog"} => sock[k] \in {"none", "backlog"},
         \A t \in Threads, k \in Conns : Holds(t, k)' => Holds(t, k)
  PROVE  Inv'
<1>1. \A k \in Conns : Waits(k)' = Waits(k)
  BY DEF Waits
<1>2. Unowned'
  BY <1>1 DEF Inv, Unowned
<1>3. Unclosed'
  BY DEF Inv, Unclosed
<1>4. OneOwner'
  <2>1. \A k \in Conns : \A s, t \in Threads : Holds(s, k)' /\ Holds(t, k)' => s = t
    BY DEF Inv, OneOwner
  <2>2. \A k \in Conns : \A t \in Threads : Holds(t, k)' => k \notin connections' /\ ~Waits(k)'
    BY <1>1 DEF Inv, OneOwner
  <2>3. \A k \in connections' : ~Waits(k)'
    BY DEF Inv, OneOwner, Waits
  <2>4. \A i, j \in 1..Len(pending') : pending'[i] = pending'[j] => i = j
    BY DEF Inv, OneOwner
  <2> QED BY <2>1, <2>2, <2>3, <2>4 DEF OneOwner
<1>5. ClosedOnce'
  BY DEF Inv, ClosedOnce
<1> QED BY <1>2, <1>3, <1>4, <1>5 DEF Inv

\* What most steps leave alone.
Still == UNCHANGED <<sock, closes, pending, connections>> /\ finished' \subseteq Conns

\* One thread goes on, with no right to close that it did not have.
LEMMA OneGoesOn ==
  ASSUME Inv, NEW t \in Threads, NEW new \in Place, at' = [at EXCEPT ![t] = new],
         new.pc \in Owning => at[t].pc \in Owning /\ new.conn = at[t].conn,
         new.pc \in Sending => new.next \in Others,
         new.pc = "reply" => new.next \in {"serve", "close"},
         new.pc \in Closing => t \notin Workers,
         Still
  PROVE  Inv'
<1>1. at' \in [Threads -> Place] /\ at'[t] = new /\ \A s \in Threads : s # t => at'[s] = at[s]
  BY DEF Inv, TypeOK
<1>2. TypeOK'
  BY <1>1 DEF Inv, TypeOK, Still
<1>3. Returns'
  BY <1>1 DEF Inv, Returns
<1>4. \A s \in Threads, k \in Conns : Holds(s, k)' => Holds(s, k)
  BY <1>1 DEF Holds
<1> QED BY <1>2, <1>3, <1>4, Quiet DEF Still

LEMMA GotoInv ==
  ASSUME Inv, NEW t \in Threads, NEW spot \in Pcs \ {"reply"}, Goto(t, spot),
         spot \in Owning => at[t].pc \in Owning,
         spot \in Sending => at[t].next \in Others,
         spot \in Closing => t \notin Workers,
         Still
  PROVE  Inv'
<1> DEFINE new == [at[t] EXCEPT !.pc = spot]
<1>1. at[t] \in Place
  BY DEF Inv, TypeOK
<1>2. new \in Place /\ new.pc = spot /\ new.conn = at[t].conn /\ new.next = at[t].next
  BY <1>1 DEF Place
<1>3. at' = [at EXCEPT ![t] = new]
  BY DEF Goto
<1> HIDE DEF new
<1> QED BY <1>2, <1>3, OneGoesOn

LEMMA CallInv ==
  ASSUME Inv, NEW t \in Threads, NEW next \in Others, Call(t, "sOpen", next), Still
  PROVE  Inv'
<1> DEFINE new == [at[t] EXCEPT !.pc = "sOpen", !.next = next]
<1>1. at[t] \in Place /\ "sOpen" \in Sending
  BY DEF Inv, TypeOK, Sending
<1>2. new \in Place /\ new.pc = "sOpen" /\ new.next = next
  BY <1>1, Pieces DEF Place
<1>3. at' = [at EXCEPT ![t] = new]
  BY DEF Call
<1> HIDE DEF new
<1> QED BY <1>1, <1>2, <1>3, Pieces, OneGoesOn

LEMMA CloseInv ==
  ASSUME Inv, NEW t \in Threads, t \notin Workers, NEW bye \in BOOLEAN, Close(t, bye), Still
  PROVE  Inv'
<1> DEFINE new == [at[t] EXCEPT !.pc = "cOpen", !.bye = bye]
<1>1. at[t] \in Place /\ "cOpen" \in Closing
  BY DEF Inv, TypeOK, Closing
<1>2. new \in Place /\ new.pc = "cOpen"
  BY <1>1, Pieces DEF Place
<1>3. at' = [at EXCEPT ![t] = new]
  BY DEF Close
<1> HIDE DEF new
<1> QED BY <1>1, <1>2, <1>3, Pieces, OneGoesOn

-----------------------------------------------------------------------------
(* The HTTP server.                                                        *)

LEMMA ConnectInv ==
  ASSUME Inv, NEW k \in Conns, Connect(k), UNCHANGED wsVars
  PROVE  Inv'
<1>1. /\ sock[k] = "none" /\ sock' = [sock EXCEPT ![k] = "backlog"]
      /\ UNCHANGED <<at, closes, pending, connections, finished>>
  BY DEF Connect, stopVars, wsVars
<1>2. TypeOK'
  BY <1>1 DEF Inv, TypeOK
<1>3. \A j \in Conns : sock'[j] \in {"none", "backlog"} => sock[j] \in {"none", "backlog"}
  BY <1>1 DEF Inv, TypeOK
<1> QED BY <1>1, <1>2, <1>3, Quiet DEF Inv, Returns, Holds

\* The connection goes from the backlog to pending_, where it was not.
LEMMA AcceptInv ==
  ASSUME Inv, NEW k \in Conns, Accept(k), UNCHANGED wsVars
  PROVE  Inv'
<1>1. /\ sock[k] = "backlog" /\ sock' = [sock EXCEPT ![k] = "open"] /\ pending' = Append(pending, k)
      /\ UNCHANGED <<at, closes, connections, finished>>
  BY DEF Accept, wsVars
<1>2. TypeOK'
  BY <1>1 DEF Inv, TypeOK
<1>3. /\ k \notin connections /\ ~Waits(k) /\ \A t \in Threads : ~Holds(t, k)
      /\ closes[k] = 0
  BY <1>1 DEF Inv, Unowned, Unclosed
<1>4. /\ Len(pending') = Len(pending) + 1 /\ pending'[Len(pending) + 1] = k
      /\ \A i \in 1..Len(pending) : pending'[i] = pending[i]
      /\ Len(pending) \in Nat
  BY <1>1 DEF Inv, TypeOK
<1>5. \A j \in Conns : Waits(j)' <=> Waits(j) \/ j = k
  BY <1>4 DEF Waits
<1>6. sock'[k] = "open" /\ \A j \in Conns : j # k => sock'[j] = sock[j]
  BY <1>1 DEF Inv, TypeOK
<1>7. \A t \in Threads, j \in Conns : Holds(t, j)' = Holds(t, j)
  BY <1>1 DEF Holds
<1>8. Unowned' /\ Unclosed'
  BY <1>1, <1>3, <1>5, <1>6, <1>7 DEF Inv, Unowned, Unclosed
<1>9. OneOwner'
  <2>1. \A j \in Conns : \A s, t \in Threads : Holds(s, j)' /\ Holds(t, j)' => s = t
    BY <1>7 DEF Inv, OneOwner
  <2>2. \A j \in Conns : \A t \in Threads : Holds(t, j)' => j \notin connections' /\ ~Waits(j)'
    BY <1>1, <1>3, <1>5, <1>7 DEF Inv, OneOwner
  <2>3. \A j \in connections' : ~Waits(j)'
    BY <1>1, <1>3, <1>5 DEF Inv, OneOwner, TypeOK
  <2>4. \A i \in 1..Len(pending) : pending[i] # k
    BY <1>3 DEF Waits
  <2>5. \A i, j \in 1..Len(pending') : pending'[i] = pending'[j] => i = j
    BY <1>4, <2>4 DEF Inv, OneOwner
  <2> QED BY <2>1, <2>2, <2>3, <2>5 DEF OneOwner
<1>10. Returns' /\ ClosedOnce'
  BY <1>1 DEF Inv, Returns, ClosedOnce
<1> QED BY <1>2, <1>8, <1>9, <1>10 DEF Inv

\* Threads that sleep are woken.
LEMMA WakeInv ==
  ASSUME Inv, NEW W, at' = [t \in Threads |-> IF t \in W THEN [at[t] EXCEPT !.pc = "look"] ELSE at[t]],
         Still
  PROVE  Inv'
<1>1. \A t \in Threads : at[t] \in Place
  BY DEF Inv, TypeOK
<1>2. "look" \in Others
  BY DEF Others
<1>3. \A t \in Threads : [at[t] EXCEPT !.pc = "look"] \in Place /\ [at[t] EXCEPT !.pc = "look"].pc = "look"
  BY <1>1, <1>2, Pieces DEF Place
<1>4. \A t \in Threads : at'[t] \in Place /\ (at'[t] = at[t] \/ at'[t].pc = "look")
  BY <1>1, <1>3
<1>5. at' \in [Threads -> Place]
  BY <1>4
<1>6. TypeOK'
  BY <1>5 DEF Inv, TypeOK, Still
<1>7. Returns'
  BY <1>2, <1>4, Pieces DEF Inv, Returns
<1>8. \A t \in Threads, k \in Conns : Holds(t, k)' => Holds(t, k)
  BY <1>2, <1>4, Pieces DEF Holds
<1> QED BY <1>6, <1>7, <1>8, Quiet DEF Still

LEMMA NotifyOneInv ==
  ASSUME Inv, NotifyOne, UNCHANGED wsVars
  PROVE  Inv'
<1>1. Still
  BY DEF NotifyOne, wsVars, Still, Inv, TypeOK
<1>2. CASE Asleep # {}
  <2>1. PICK w \in Asleep : Wake({w})
    BY <1>2 DEF NotifyOne
  <2> QED BY <1>1, <2>1, WakeInv DEF Wake
<1>3. CASE Asleep = {}
  <2>1. UNCHANGED at
    BY <1>3 DEF NotifyOne
  <2> QED BY <1>1, <2>1, Quiet DEF Still, Inv, TypeOK, Returns, Holds
<1> QED BY <1>2, <1>3

\* A worker takes the first of pending_, or finds nothing.
LEMMA WorkerLooksInv ==
  ASSUME Inv, NEW w \in Workers, WorkerLooks(w), UNCHANGED wsVars
  PROVE  Inv'
<1> w \in Threads /\ w \in Workers
  BY Roles
<1>1. CASE pending = <<>> /\ Goto(w, IF stopping THEN "exited" ELSE "asleep") /\ UNCHANGED pending
  <2> DEFINE spot == IF stopping THEN "exited" ELSE "asleep"
  <2>1. spot \in Others
    BY DEF Others
  <2>2. Goto(w, spot) /\ Still
    BY <1>1 DEF WorkerLooks, Still, wsVars, Inv, TypeOK
  <2> HIDE DEF spot
  <2> QED BY <2>1, <2>2, Pieces, GotoInv
<1>2. CASE /\ pending # <<>> /\ at' = [at EXCEPT ![w] = At("serve", Head(pending))]
           /\ pending' = Tail(pending)
  <2> DEFINE k == Head(pending)
             new == At("serve", k)
  <2>1. /\ Len(pending) \in Nat \ {0} /\ k = pending[1] /\ k \in Conns
        /\ pending' \in Seq(Conns) /\ Len(pending') = Len(pending) - 1
        /\ \A i \in 1..Len(pending') : pending'[i] = pending[i + 1]
    BY <1>2 DEF Inv, TypeOK
  <2>2. UNCHANGED <<sock, closes, connections, finished>>
    BY DEF WorkerLooks, wsVars
  <2> HIDE DEF k
  <2>3. new \in Place /\ new.pc = "serve" /\ new.conn = k
    BY <2>1 DEF At, Place, Pcs, Owning, Others
  <2>4. at' = [at EXCEPT ![w] = new]
    BY <1>2 DEF k
  <2> HIDE DEF new
  <2>5. at' \in [Threads -> Place] /\ at'[w] = new /\ \A s \in Threads : s # w => at'[s] = at[s]
    BY <2>3, <2>4 DEF Inv, TypeOK
  <2>6. TypeOK'
    BY <2>1, <2>2, <2>5 DEF Inv, TypeOK
  <2>7. Waits(k)
    BY <2>1 DEF Waits
  <2>8. k \notin connections /\ (\A t \in Threads : ~Holds(t, k)) /\ sock[k] \notin {"none", "backlog"} /\ closes[k] = 0
    BY <2>1, <2>7 DEF Inv, OneOwner, Unowned
  <2>9. \A j \in Conns : Waits(j)' => Waits(j) /\ j # k
    <3> SUFFICES ASSUME NEW j \in Conns, NEW i \in 1..Len(pending'), pending'[i] = j
                 PROVE Waits(j) /\ j # k
      BY DEF Waits
    <3>1. i + 1 \in 1..Len(pending) /\ pending[i + 1] = j /\ 1 \in 1..Len(pending) /\ i + 1 # 1
      BY <2>1
    <3> QED BY <2>1, <3>1 DEF Waits, Inv, OneOwner
  <2>10. \A t \in Threads, j \in Conns : Holds(t, j)' => Holds(t, j) \/ (t = w /\ j = k)
    BY <2>3, <2>5 DEF Holds
  <2>11. "serve" \notin Sending /\ "serve" \notin Closing
    BY DEF Sending, Closing
  <2>12. Returns'
    BY <2>3, <2>5, <2>11 DEF Inv, Returns
  <2>13. Unowned' /\ Unclosed' /\ ClosedOnce'
    BY <2>2, <2>8, <2>9, <2>10 DEF Inv, Unowned, Unclosed, ClosedOnce
  <2>14. OneOwner'
    <3>1. \A j \in Conns : \A s, t \in Threads : Holds(s, j)' /\ Holds(t, j)' => s = t
      BY <2>8, <2>10 DEF Inv, OneOwner
    <3>2. \A j \in Conns : \A t \in Threads : Holds(t, j)' => j \notin connections' /\ ~Waits(j)'
      BY <2>2, <2>8, <2>9, <2>10 DEF Inv, OneOwner
    <3>3. \A j \in connections' : ~Waits(j)'
      BY <2>2, <2>9 DEF Inv, OneOwner, TypeOK
    <3>4. \A i, j \in 1..Len(pending') : pending'[i] = pending'[j] => i = j
      <4> SUFFICES ASSUME NEW i \in 1..Len(pending'), NEW j \in 1..Len(pending'), pending'[i] = pending'[j]
                   PROVE i = j
        OBVIOUS
      <4>1. i + 1 \in 1..Len(pending) /\ j + 1 \in 1..Len(pending) /\ pending[i + 1] = pending[j + 1]
        BY <2>1
      <4>2. i + 1 = j + 1
        BY <4>1 DEF Inv, OneOwner
      <4> QED BY <4>2
    <3> QED BY <3>1, <3>2, <3>3, <3>4 DEF OneOwner
  <2> QED BY <2>6, <2>12, <2>13, <2>14 DEF Inv
<1> QED BY <1>1, <1>2 DEF WorkerLooks

\* Whoever closes the socket has no right to it any more, nor has anybody else.
LEMMA CloseSocketInv ==
  ASSUME Inv, NEW t \in Threads, at[t].pc \in Owning, CloseSocket(at[t].conn),
         NEW spot \in Pcs \ {"reply"}, Goto(t, spot), spot \notin Owning, spot \notin Sending, spot \in Closing => t \notin Workers,
         UNCHANGED <<pending, connections, finished>>
  PROVE  Inv'
<1> DEFINE k == at[t].conn
<1>1. k \in Conns /\ at[t] \in Place
  BY DEF Inv, TypeOK, Place
<1>2. sock' = [sock EXCEPT ![k] = "closed"] /\ closes' = [closes EXCEPT ![k] = @ + 1]
  BY DEF CloseSocket
<1>3. Holds(t, k)
  BY DEF Holds
<1> HIDE DEF k
<1>4. /\ at' \in [Threads -> Place] /\ at'[t].pc = spot
      /\ \A s \in Threads : s # t => at'[s] = at[s]
  BY <1>1 DEF Inv, TypeOK, Goto, Place
<1>5. TypeOK'
  BY <1>1, <1>2, <1>4 DEF Inv, TypeOK
<1>6. k \notin connections /\ ~Waits(k) /\ (\A s \in Threads : s # t => ~Holds(s, k)) /\ closes[k] = 0
  BY <1>1, <1>3 DEF Inv, OneOwner, Unowned
<1>7. \A s \in Threads, j \in Conns : Holds(s, j)' => Holds(s, j) /\ s # t
  BY <1>4 DEF Holds
<1>8. \A j \in Conns : Waits(j)' = Waits(j)
  BY DEF Waits
<1>9. /\ sock'[k] = "closed" /\ closes'[k] = 1
      /\ \A j \in Conns : j # k => sock'[j] = sock[j] /\ closes'[j] = closes[j]
  BY <1>1, <1>2, <1>6 DEF Inv, TypeOK
<1>10. Unowned' /\ Unclosed' /\ ClosedOnce'
  BY <1>6, <1>7, <1>8, <1>9 DEF Inv, Unowned, Unclosed, ClosedOnce
<1>11. OneOwner'
  <2>1. \A j \in Conns : \A s, u \in Threads : Holds(s, j)' /\ Holds(u, j)' => s = u
    BY <1>7 DEF Inv, OneOwner
  <2>2. \A j \in Conns : \A s \in Threads : Holds(s, j)' => j \notin connections' /\ ~Waits(j)'
    BY <1>7, <1>8 DEF Inv, OneOwner
  <2>3. \A j \in connections' : ~Waits(j)'
    BY DEF Inv, OneOwner, Waits
  <2>4. \A i, j \in 1..Len(pending') : pending'[i] = pending'[j] => i = j
    BY DEF Inv, OneOwner
  <2> QED BY <2>1, <2>2, <2>3, <2>4 DEF OneOwner
<1>12. Returns'
  BY <1>4 DEF Inv, Returns
<1> QED BY <1>5, <1>10, <1>11, <1>12 DEF Inv

LEMMA ServingInv ==
  ASSUME Inv, NEW w \in Workers, ServeNext(w) \/ ReadRequest(w) \/ Reply(w), UNCHANGED wsVars
  PROVE  Inv'
<1>1. /\ w \in Threads /\ at[w].pc \in Owning /\ at[w] \in Place
      /\ {"close", "read", "upgrade", "reply"} \subseteq Owning
      /\ at[w].pc = "reply" => at[w].next \in {"serve", "close"}
  BY Roles DEF ServeNext, ReadRequest, Reply, Owning, Inv, TypeOK, Returns
<1>2. \A spot \in {"close", "read", "upgrade", "reply"} : spot \in Pcs /\ spot \notin Sending /\ spot \notin Closing
  BY DEF Pcs, Owning, Sending, Closing
<1>3. Still
  BY DEF ServeNext, ReadRequest, Reply, Still, stopVars, wsVars, Inv, TypeOK
<1>4. ASSUME NEW spot \in {"close", "read", "upgrade"}, Goto(w, spot) PROVE Inv'
  BY <1>1, <1>2, <1>3, <1>4, GotoInv
<1>5. CASE ServeNext(w)
  BY <1>4, <1>5 DEF ServeNext
<1>6. CASE ReadRequest(w)
  <2>1. ASSUME NEW next \in {"serve", "close"}, at' = [at EXCEPT ![w].pc = "reply", ![w].next = next]
        PROVE Inv'
    <3> DEFINE new == [at[w] EXCEPT !.pc = "reply", !.next = next]
    <3>1. next \in Pcs
      BY DEF Pcs, Owning
    <3>2. new \in Place /\ new.pc = "reply" /\ new.conn = at[w].conn /\ new.next = next
      BY <1>1, <1>2, <3>1 DEF Place
    <3>3. at' = [at EXCEPT ![w] = new]
      BY <2>1
    <3> HIDE DEF new
    <3> QED BY <1>1, <1>2, <1>3, <3>2, <3>3, OneGoesOn
  <2> QED BY <1>4, <1>6, <2>1 DEF ReadRequest
<1>7. CASE Reply(w)
  <2>1. CASE Goto(w, "close")
    BY <1>4, <2>1
  <2>2. CASE Goto(w, at[w].next)
    <3>1. at[w].next \in Pcs \ {"reply"} /\ at[w].next \notin Sending /\ at[w].next \notin Closing
      BY <1>1, <1>7 DEF Reply, Pcs, Owning, Sending, Closing
    <3> QED BY <1>1, <1>3, <2>2, <3>1, GotoInv
  <2> QED BY <1>7, <2>1, <2>2 DEF Reply
<1> QED BY <1>5, <1>6, <1>7

LEMMA CloseConnInv ==
  ASSUME Inv, NEW w \in Workers, CloseConn(w), UNCHANGED wsVars
  PROVE  Inv'
<1>1. w \in Threads /\ at[w].pc \in Owning /\ CloseSocket(at[w].conn) /\ Goto(w, "look")
  BY Roles DEF CloseConn, Owning
<1>2. UNCHANGED <<pending, connections, finished>>
  BY DEF CloseConn, stopVars, wsVars
<1>3. "look" \in Others
  BY DEF Others
<1> QED BY <1>1, <1>2, <1>3, Pieces, CloseSocketInv

\* Who is in the backlog was not accepted: the kernel closes it.
LEMMA JoinAcceptorInv ==
  ASSUME Inv, JoinAcceptor, UNCHANGED wsVars
  PROVE  Inv'
<1>1. /\ sock' = [k \in Conns |-> IF sock[k] = "backlog" THEN "closed" ELSE sock[k]]
      /\ at' = [t \in Threads |-> IF t = Hub THEN [at[Hub] EXCEPT !.pc = "joinWorkers"]
                                  ELSE IF t \in Asleep THEN [at[t] EXCEPT !.pc = "look"] ELSE at[t]]
      /\ UNCHANGED <<closes, pending, connections, finished>>
  BY DEF JoinAcceptor, stopVars, wsVars
<1>2. {"joinWorkers", "look"} \subseteq Others
  BY DEF Others
<1>3. \A t \in Threads : \A spot \in {"joinWorkers", "look"} :
        [at[t] EXCEPT !.pc = spot] \in Place /\ [at[t] EXCEPT !.pc = spot].pc = spot
  BY <1>2, Pieces DEF Inv, TypeOK, Place
<1>4. \A t \in Threads : at'[t] = at[t] \/ (at'[t] \in Place /\ at'[t].pc \in Others)
  BY <1>1, <1>2, <1>3
<1>5. \A t \in Threads : at'[t] \in Place
  BY <1>4 DEF Inv, TypeOK
<1>6. TypeOK'
  <2>1. at' \in [Threads -> Place]
    BY <1>1, <1>5
  <2>2. sock' \in [Conns -> {"none", "backlog", "open", "closed"}]
    BY <1>1 DEF Inv, TypeOK
  <2> QED BY <1>1, <2>1, <2>2 DEF Inv, TypeOK
<1>7. Returns'
  BY <1>4, Pieces DEF Inv, Returns
<1>8. \A t \in Threads, k \in Conns : Holds(t, k)' => Holds(t, k)
  BY <1>4, Pieces DEF Holds
<1>9. \A k \in Conns : sock'[k] \in {"none", "backlog"} => sock[k] \in {"none", "backlog"}
  BY <1>1
<1> QED BY <1>1, <1>6, <1>7, <1>8, <1>9, Quiet

\* stop closes what no worker took.
LEMMA JoinWorkersInv ==
  ASSUME Inv, JoinWorkers, UNCHANGED wsVars
  PROVE  Inv'
<1> DEFINE left == {pending[i] : i \in DOMAIN pending}
<1>1. /\ sock' = [k \in Conns |-> IF k \in left THEN "closed" ELSE sock[k]]
      /\ closes' = [k \in Conns |-> IF k \in left THEN closes[k] + 1 ELSE closes[k]]
      /\ pending' = <<>> /\ Goto(Hub, "stopped")
      /\ UNCHANGED <<connections, finished>>
  BY DEF JoinWorkers, wsVars
<1>2. \A k \in Conns : k \in left <=> Waits(k)
  BY DEF Inv, TypeOK, Waits
<1> HIDE DEF left
<1>3. "stopped" \in Others /\ Hub \in Threads /\ at[Hub] \in Place
  BY Roles DEF Others, Inv, TypeOK
<1>4. /\ at' \in [Threads -> Place] /\ at'[Hub].pc = "stopped"
      /\ \A t \in Threads : t # Hub => at'[t] = at[t]
  BY <1>1, <1>3, Pieces DEF Inv, TypeOK, Goto, Place
<1>5. TypeOK'
  BY <1>1, <1>4 DEF Inv, TypeOK
<1>6. \A t \in Threads, k \in Conns : Holds(t, k)' => Holds(t, k)
  BY <1>3, <1>4, Pieces DEF Holds
<1>7. \A k \in Conns : ~Waits(k)'
  BY <1>1 DEF Waits
<1>8. \A k \in Conns : /\ sock'[k] \in {"none", "backlog"} => sock[k] \in {"none", "backlog"} /\ k \notin left
                       /\ closes'[k] # 0 => closes[k] # 0 \/ Waits(k)
                       /\ k \notin left => closes'[k] = closes[k]
                       /\ k \in left => closes'[k] = closes[k] + 1
  BY <1>1, <1>2
<1>9. \A k \in Conns : Waits(k) => closes[k] = 0 /\ k \notin connections /\ \A t \in Threads : ~Holds(t, k)
  BY DEF Inv, Unowned, OneOwner, TypeOK
<1>10. Unowned'
  BY <1>1, <1>6, <1>7, <1>8, <1>9 DEF Inv, Unowned
<1>11. Unclosed'
  BY <1>8 DEF Inv, Unclosed
<1>12. ClosedOnce'
  BY <1>2, <1>8, <1>9 DEF Inv, ClosedOnce
<1>13. OneOwner'
  <2>1. \A j \in Conns : \A s, t \in Threads : Holds(s, j)' /\ Holds(t, j)' => s = t
    BY <1>6 DEF Inv, OneOwner
  <2>2. \A j \in Conns : \A t \in Threads : Holds(t, j)' => j \notin connections' /\ ~Waits(j)'
    BY <1>1, <1>6, <1>7 DEF Inv, OneOwner
  <2>3. \A j \in connections' : ~Waits(j)'
    BY <1>1, <1>7 DEF Inv, TypeOK
  <2>4. \A i, j \in 1..Len(pending') : pending'[i] = pending'[j] => i = j
    BY <1>1
  <2> QED BY <2>1, <2>2, <2>3, <2>4 DEF OneOwner
<1>14. Returns'
  BY <1>3, <1>4, Pieces DEF Inv, Returns
<1> QED BY <1>5, <1>10, <1>11, <1>12, <1>13, <1>14 DEF Inv

LEMMA HttpInv ==
  ASSUME Inv, HttpNext, UNCHANGED wsVars
  PROVE  Inv'
<1>1. CASE AcceptorEnds
  <2>1. UNCHANGED at /\ Still
    BY <1>1 DEF AcceptorEnds, Still, wsVars, Inv, TypeOK
  <2> QED BY <2>1, Quiet DEF Still, Inv, TypeOK, Returns, Holds
<1>2. CASE SetStopping
  <2>1. Goto(Hub, "joinAcceptor") /\ Still /\ "joinAcceptor" \in Others
    BY <1>2 DEF SetStopping, Still, wsVars, Inv, TypeOK, Others
  <2> QED BY <2>1, Roles, Pieces, GotoInv
<1>3. ASSUME NEW k \in Conns, PeerChanges(k) PROVE Inv'
  <2>1. UNCHANGED at /\ Still
    BY <1>3 DEF PeerChanges, stopVars, Still, wsVars, Inv, TypeOK
  <2> QED BY <2>1, Quiet DEF Still, Inv, TypeOK, Returns, Holds
<1>4. ASSUME NEW w \in Workers, Work(w) PROVE Inv'
  BY <1>4, WorkerLooksInv, ServingInv, CloseConnInv DEF Work
<1> QED BY <1>1, <1>2, <1>3, <1>4, NotifyOneInv, JoinAcceptorInv, JoinWorkersInv, ConnectInv, AcceptInv
           DEF HttpNext, StopHttp

-----------------------------------------------------------------------------
(* Upgrades and readers.                                                   *)

LEMMA HandshakeInv ==
  ASSUME Inv, NEW w \in Workers, Handshake(w)
  PROVE  Inv'
<1>1. Still /\ w \in Threads /\ at[w].pc \in Owning /\ (Goto(w, "close") \/ Goto(w, "register"))
  BY Roles DEF Handshake, Still, stopVars, wsVars, Inv, TypeOK, Owning
<1>2. {"close", "register"} \subseteq Owning
  BY DEF Owning
<1>3. \A spot \in {"close", "register"} : spot \in Pcs \ {"reply"} /\ spot \notin Sending /\ spot \notin Closing
  BY DEF Pcs, Owning, Sending, Closing
<1> QED BY <1>1, <1>2, <1>3, GotoInv

\* The right goes from the worker to the registry.
LEMMA RegisterInv ==
  ASSUME Inv, NEW w \in Workers, Register(w)
  PROVE  Inv'
<1> DEFINE k == at[w].conn
           new == [at[w] EXCEPT !.pc = "sOpen", !.next = "reap"]
<1>1. /\ at[w].pc = "register" /\ connections' = connections \cup {k}
      /\ at' = [at EXCEPT ![w] = new]
      /\ UNCHANGED <<sock, closes, pending, finished>>
  BY DEF Register, Call, stopVars
<1>2. w \in Threads /\ at[w] \in Place /\ k \in Conns
  BY Roles DEF Inv, TypeOK, Place
<1>3. "sOpen" \in Sending /\ "reap" \in Others
  BY DEF Sending, Others
<1>4. new \in Place /\ new.pc = "sOpen" /\ new.next = "reap"
  BY <1>2, <1>3, Pieces DEF Place
<1>5. Holds(w, k)
  BY <1>1 DEF Holds, Owning
<1> HIDE DEF k, new
<1>6. at' \in [Threads -> Place] /\ at'[w] = new /\ \A s \in Threads : s # w => at'[s] = at[s]
  BY <1>1, <1>2, <1>4 DEF Inv, TypeOK
<1>7. TypeOK'
  BY <1>1, <1>2, <1>6 DEF Inv, TypeOK
<1>8. Returns'
  BY <1>3, <1>4, <1>6, Pieces DEF Inv, Returns
<1>9. \A s \in Threads, j \in Conns : Holds(s, j)' => Holds(s, j) /\ s # w
  BY <1>3, <1>4, <1>6, Pieces DEF Holds
<1>10. \A j \in Conns : Waits(j)' = Waits(j)
  BY <1>1 DEF Waits
<1>11. /\ ~Waits(k) /\ (\A s \in Threads : s # w => ~Holds(s, k))
       /\ sock[k] \notin {"none", "backlog"} /\ closes[k] = 0
  BY <1>2, <1>5 DEF Inv, OneOwner, Unowned
<1>12. Unowned' /\ Unclosed' /\ ClosedOnce'
  BY <1>1, <1>9, <1>10, <1>11 DEF Inv, Unowned, Unclosed, ClosedOnce
<1>13. OneOwner'
  <2>1. \A j \in Conns : \A s, t \in Threads : Holds(s, j)' /\ Holds(t, j)' => s = t
    BY <1>9 DEF Inv, OneOwner
  <2>2. \A j \in Conns : \A t \in Threads : Holds(t, j)' => j \notin connections' /\ ~Waits(j)'
    BY <1>1, <1>9, <1>10, <1>11 DEF Inv, OneOwner
  <2>3. \A j \in connections' : ~Waits(j)'
    BY <1>1, <1>2, <1>10, <1>11 DEF Inv, OneOwner, TypeOK
  <2>4. \A i, j \in 1..Len(pending') : pending'[i] = pending'[j] => i = j
    BY <1>1 DEF Inv, OneOwner
  <2> QED BY <2>1, <2>2, <2>3, <2>4 DEF OneOwner
<1> QED BY <1>7, <1>8, <1>12, <1>13 DEF Inv

LEMMA ReapInv ==
  ASSUME Inv, NEW t \in Threads, Reap(t)
  PROVE  Inv'
<1> DEFINE new == [at[t] EXCEPT !.pc = "reaping", !.todo = finished]
<1>1. at' = [at EXCEPT ![t] = new] /\ Still
  BY DEF Reap, Still, stopVars
<1>2. "reaping" \in Others
  BY DEF Others
<1>3. new \in Place /\ new.pc = "reaping"
  BY <1>2, Pieces DEF Place, Inv, TypeOK
<1> HIDE DEF new
<1> QED BY <1>1, <1>2, <1>3, Pieces, OneGoesOn

LEMMA ReapedInv ==
  ASSUME Inv, NEW t \in Threads, Reaped(t)
  PROVE  Inv'
<1> DEFINE spot == IF t = Hub THEN "http" ELSE "spawn"
           new == [at[t] EXCEPT !.pc = spot, !.todo = {}]
<1>1. at' = [at EXCEPT ![t] = new] /\ Still
  BY DEF Reaped, Still, stopVars, Inv, TypeOK
<1>2. spot \in Others
  BY DEF Others
<1> HIDE DEF spot
<1>3. new \in Place /\ new.pc = spot
  BY <1>2, Pieces DEF Place, Inv, TypeOK
<1> HIDE DEF new
<1> QED BY <1>1, <1>2, <1>3, Pieces, OneGoesOn

LEMMA SpawnReaderInv ==
  ASSUME Inv, NEW w \in Workers, SpawnReader(w)
  PROVE  Inv'
<1> DEFINE k == at[w].conn
<1>1. /\ at' = [at EXCEPT ![k] = At("rLoop", k), ![w] = At("look", NoConn)]
      /\ UNCHANGED <<sock, closes, pending, connections, finished>>
  BY DEF SpawnReader, stopVars
<1>2. w \in Threads /\ k \in Conns /\ k \in Threads
  BY Roles DEF Inv, TypeOK, Place
<1>3. {"rLoop", "look", "none"} \subseteq Others
  BY DEF Others
<1>4. /\ At("rLoop", k) \in Place /\ At("rLoop", k).pc = "rLoop"
      /\ At("look", NoConn) \in Place /\ At("look", NoConn).pc = "look"
  BY <1>2, <1>3, Pieces, NoConnIsConn DEF At, Place
<1> HIDE DEF k
<1>5. /\ at' \in [Threads -> Place]
      /\ \A s \in Threads : at'[s] = at[s] \/ at'[s].pc \in Others
  BY <1>1, <1>2, <1>3, <1>4 DEF Inv, TypeOK
<1>6. TypeOK'
  BY <1>1, <1>5 DEF Inv, TypeOK
<1>7. Returns'
  BY <1>5, Pieces DEF Inv, Returns
<1>8. \A s \in Threads, j \in Conns : Holds(s, j)' => Holds(s, j)
  BY <1>5, Pieces DEF Holds
<1> QED BY <1>1, <1>6, <1>7, <1>8, Quiet

LEMMA ReaderStepInv ==
  ASSUME Inv, NEW k \in Conns, ReaderStep(k)
  PROVE  Inv'
<1>1. Still /\ k \in Threads /\ k \notin Workers
  BY Roles DEF ReaderStep, ReaderLoop, ReadFrame, Subscribed, Still, stopVars, wsVars, Inv, TypeOK
<1>2. {"rLoop", "rRead", "subscribed"} \subseteq Others
  BY DEF Others
<1>3. ASSUME NEW spot \in {"rLoop", "rRead"}, Goto(k, spot) PROVE Inv'
  BY <1>1, <1>2, <1>3, Pieces, GotoInv
<1>4. ASSUME NEW bye \in BOOLEAN, Close(k, bye) PROVE Inv'
  BY <1>1, <1>4, CloseInv
<1>5. ASSUME NEW next \in {"rLoop", "subscribed"}, Call(k, "sOpen", next) PROVE Inv'
  BY <1>1, <1>2, <1>5, CallInv
<1>6. CASE ReaderLoop(k)
  BY <1>3, <1>4, <1>6 DEF ReaderLoop
<1>7. CASE ReadFrame(k)
  BY <1>4, <1>5, <1>7 DEF ReadFrame
<1>8. CASE Subscribed(k)
  BY <1>3, <1>8 DEF Subscribed
<1> QED BY <1>6, <1>7, <1>8 DEF ReaderStep

-----------------------------------------------------------------------------
(* sendRaw.                                                                *)

LEMMA FailedInv ==
  ASSUME Inv, NEW t \in Threads, at[t].pc \in Sending, Failed(t), Still
  PROVE  Inv'
<1>1. CASE t = Bus /\ Close(t, FALSE)
  BY <1>1, Roles, CloseInv
<1>2. CASE Goto(t, at[t].next)
  <2>1. at[t].next \in Others
    BY DEF Inv, Returns
  <2> QED BY <1>2, <2>1, Pieces, GotoInv
<1> QED BY <1>1, <1>2 DEF Failed

LEMMA SendInv ==
  ASSUME Inv, NEW t \in Threads, SendCheck(t) \/ Send(t)
  PROVE  Inv'
<1>1. Still /\ at[t].pc \in Sending /\ at[t].next \in Others
  BY DEF SendCheck, Send, Still, stopVars, wsVars, Inv, TypeOK, Returns, Sending
<1>2. CASE Failed(t)
  BY <1>1, <1>2, FailedInv
<1>3. CASE Goto(t, "sLock")
  <2>1. "sLock" \in Sending
    BY DEF Sending
  <2> QED BY <1>1, <1>3, <2>1, Pieces, GotoInv
<1>4. CASE Goto(t, at[t].next)
  BY <1>1, <1>4, Pieces, GotoInv
<1> QED BY <1>2, <1>3, <1>4 DEF SendCheck, Send

LEMMA WriteLockInv ==
  ASSUME Inv, NEW t \in Threads, WriteLock(t)
  PROVE  Inv'
<1>1. Still /\ at[t].pc \in {"sLock", "cLock"}
  BY DEF WriteLock, Still, stopVars, Inv, TypeOK
<1>2. CASE at[t].pc = "sLock"
  <2>1. Goto(t, "sSend") /\ "sSend" \in Sending /\ at[t].next \in Others
    BY <1>2 DEF WriteLock, Sending, Inv, Returns
  <2> QED BY <1>1, <2>1, Pieces, GotoInv
<1>3. CASE at[t].pc = "cLock"
  <2>1. /\ Goto(t, "cSend") /\ t \notin Workers
        /\ "cSend" \in Pcs \ {"reply"} /\ "cSend" \notin Owning /\ "cSend" \notin Sending
    BY <1>3 DEF WriteLock, Sending, Closing, Owning, Pcs, Inv, Returns
  <2> QED BY <1>1, <2>1, GotoInv
<1> QED BY <1>1, <1>2, <1>3

-----------------------------------------------------------------------------
(* closeConnection.                                                        *)

LEMMA ClosingInv ==
  ASSUME Inv, NEW t \in Threads, MarkClosed(t) \/ SendClose(t) \/ JoinReader(t)
  PROVE  Inv'
<1>1. at[t].pc \in Closing /\ t \notin Workers /\ at[t].conn \in Conns
  BY DEF MarkClosed, SendClose, JoinReader, Closing, Inv, Returns, TypeOK, Place
<1>2. Still
  BY <1>1 DEF MarkClosed, SendClose, JoinReader, Still, stopVars, Inv, TypeOK
<1>3. \A spot \in {"cLock", "cErase", "cDone"} : spot \in Pcs \ {"reply"} /\ spot \notin Owning /\ spot \notin Sending
  BY DEF Pcs, Closing, Owning, Sending
<1>4. ASSUME NEW spot \in {"cLock", "cErase", "cDone"}, Goto(t, spot) PROVE Inv'
  BY <1>1, <1>2, <1>3, <1>4, GotoInv
<1> QED BY <1>4 DEF MarkClosed, SendClose, JoinReader

\* The right goes from the registry to the one thread that finds it there.
LEMMA EraseInv ==
  ASSUME Inv, NEW t \in Threads, Erase(t)
  PROVE  Inv'
<1> DEFINE k == at[t].conn
<1>1. /\ at[t].pc = "cErase" /\ connections' = connections \ {k}
      /\ Goto(t, IF k \in connections THEN "cClose" ELSE "cDone")
      /\ UNCHANGED <<sock, closes, pending, finished>>
  BY DEF Erase, stopVars
<1>2. k \in Conns /\ at[t] \in Place /\ t \notin Workers
  BY <1>1 DEF Inv, TypeOK, Place, Returns, Closing
<1>3. /\ "cErase" \notin Owning /\ "cDone" \notin Owning
      /\ \A spot \in {"cClose", "cDone"} : spot \in Pcs \ {"reply"} /\ spot \notin Sending
  BY DEF Owning, Closing, Sending, Pcs
<1>4. CASE k \notin connections
  <2>1. connections' = connections /\ Goto(t, "cDone")
    BY <1>1, <1>4
  <2>2. Still
    BY <1>1, <2>1 DEF Still, Inv, TypeOK
  <2> QED BY <1>2, <1>3, <2>1, <2>2, GotoInv
<1>5. CASE k \in connections
  <2>1. at'[t].pc = "cClose" /\ at'[t].conn = k
    BY <1>1, <1>2, <1>5 DEF Goto, Inv, TypeOK
  <2>2. \A s \in Threads : s # t => at'[s] = at[s]
    BY <1>1 DEF Goto, Inv, TypeOK
  <2>3. at' \in [Threads -> Place]
    BY <1>1, <1>2, <1>3 DEF Goto, Inv, TypeOK, Place
  <2> HIDE DEF k
  <2>4. TypeOK'
    BY <1>1, <2>3 DEF Inv, TypeOK
  <2>5. Returns'
    BY <1>2, <1>3, <2>1, <2>2 DEF Inv, Returns
  <2>6. \A s \in Threads, j \in Conns : Holds(s, j)' => Holds(s, j) \/ (s = t /\ j = k)
    BY <2>1, <2>2 DEF Holds
  <2>7. \A j \in Conns : Waits(j)' = Waits(j)
    BY <1>1 DEF Waits
  <2>8. /\ ~Waits(k) /\ (\A s \in Threads : ~Holds(s, k))
        /\ sock[k] \notin {"none", "backlog"} /\ closes[k] = 0
    BY <1>2, <1>5 DEF Inv, OneOwner, Unowned
  <2>9. Unowned' /\ Unclosed' /\ ClosedOnce'
    BY <1>1, <2>6, <2>7, <2>8 DEF Inv, Unowned, Unclosed, ClosedOnce
  <2>10. OneOwner'
    <3>1. \A j \in Conns : \A s, u \in Threads : Holds(s, j)' /\ Holds(u, j)' => s = u
      BY <2>6, <2>8 DEF Inv, OneOwner
    <3>2. \A j \in Conns : \A s \in Threads : Holds(s, j)' => j \notin connections' /\ ~Waits(j)'
      BY <1>1, <2>6, <2>7, <2>8 DEF Inv, OneOwner
    <3>3. \A j \in connections' : ~Waits(j)'
      BY <1>1, <2>7 DEF Inv, OneOwner, TypeOK
    <3>4. \A i, j \in 1..Len(pending') : pending'[i] = pending'[j] => i = j
      BY <1>1 DEF Inv, OneOwner
    <3> QED BY <3>1, <3>2, <3>3, <3>4 DEF OneOwner
  <2> QED BY <2>4, <2>5, <2>9, <2>10 DEF Inv
<1> QED BY <1>4, <1>5

LEMMA CloseWsInv ==
  ASSUME Inv, NEW t \in Threads, CloseWs(t)
  PROVE  Inv'
<1>1. /\ at[t].pc \in Owning /\ CloseSocket(at[t].conn) /\ Goto(t, "cJoin") /\ t \notin Workers
      /\ UNCHANGED <<pending, connections, finished>>
  BY DEF CloseWs, Owning, Closing, stopVars, wsVars, Inv, Returns
<1>2. "cJoin" \in Pcs \ {"reply"} /\ "cJoin" \notin Owning /\ "cJoin" \notin Sending
  BY DEF Pcs, Closing, Owning, Sending
<1> QED BY <1>1, <1>2, CloseSocketInv

LEMMA ClosedInv ==
  ASSUME Inv, NEW t \in Threads, Closed(t)
  PROVE  Inv'
<1> DEFINE spot == CASE t \in Conns -> "ended" [] t = Bus -> "bNext" [] t = Hub -> "wNext"
<1>1. Goto(t, spot) /\ Still /\ t \notin Workers
  BY DEF Closed, Still, stopVars, Inv, TypeOK, Returns, Closing
<1>2. t \in Conns \/ t = Bus \/ t = Hub
  BY <1>1, WebSocketServerAssumption
<1>3. spot \in {"ended", "bNext", "wNext"}
  BY <1>2, Roles
<1> HIDE DEF spot
<1>4. spot \in Others
  BY <1>3 DEF Others
<1> QED BY <1>1, <1>4, Pieces, GotoInv

-----------------------------------------------------------------------------
(* broadcastEvent and stop.                                                *)

LEMMA BroadcastInv ==
  ASSUME Inv, Broadcast \/ SnapshotWs
  PROVE  Inv'
<1>1. {"bNext", "wNext"} \subseteq Others
  BY DEF Others
<1>2. ASSUME NEW t \in {Bus, Hub}, NEW spot \in {"bNext", "wNext"},
             at' = [at EXCEPT ![t].pc = spot, ![t].todo = connections], Still
      PROVE  Inv'
  <2> DEFINE new == [at[t] EXCEPT !.pc = spot, !.todo = connections]
  <2>1. t \in Threads /\ at[t] \in Place /\ connections \subseteq Conns
    BY Roles DEF Inv, TypeOK
  <2>2. new \in Place /\ new.pc = spot
    BY <1>1, <2>1, Pieces DEF Place
  <2>3. at' = [at EXCEPT ![t] = new]
    BY <1>2
  <2> HIDE DEF new
  <2> QED BY <1>1, <1>2, <2>1, <2>2, <2>3, Pieces, OneGoesOn
<1>3. Still
  BY DEF Broadcast, SnapshotWs, Still, stopVars, wsVars, Inv, TypeOK
<1> QED BY <1>2, <1>3 DEF Broadcast, SnapshotWs

LEMMA BroadcastNextInv ==
  ASSUME Inv, BroadcastNext
  PROVE  Inv'
<1>1. Still /\ Bus \in Threads /\ at[Bus] \in Place /\ at[Bus].pc = "bNext"
  BY Roles DEF BroadcastNext, Still, stopVars, wsVars, Inv, TypeOK
<1>2. {"idle", "bNext", "none"} \subseteq Others /\ "sOpen" \in Sending
  BY DEF Others, Sending
<1>3. CASE at' = [at EXCEPT ![Bus] = At("idle", NoConn)]
  <2> DEFINE new == At("idle", NoConn)
  <2>1. new \in Place /\ new.pc = "idle"
    BY <1>2, Pieces, NoConnIsConn DEF At, Place
  <2> HIDE DEF new
  <2>2. at' = [at EXCEPT ![Bus] = new]
    BY <1>3 DEF new
  <2> QED BY <1>1, <1>2, <2>1, <2>2, Pieces, OneGoesOn
<1>4. ASSUME NEW k \in at[Bus].todo, at' = [at EXCEPT ![Bus].todo = @ \ {k}]
      PROVE  Inv'
  <2> DEFINE new == [at[Bus] EXCEPT !.todo = @ \ {k}]
  <2>1. new \in Place /\ new.pc = "bNext"
    BY <1>1 DEF Place
  <2>2. at' = [at EXCEPT ![Bus] = new]
    BY <1>4
  <2> HIDE DEF new
  <2> QED BY <1>1, <1>2, <2>1, <2>2, Pieces, OneGoesOn
<1>5. ASSUME NEW k \in at[Bus].todo,
             at' = [at EXCEPT ![Bus] = [pc |-> "sOpen", conn |-> k, next |-> "bNext", bye |-> FALSE,
                                        todo |-> at[Bus].todo \ {k}]]
      PROVE  Inv'
  <2> DEFINE new == [pc |-> "sOpen", conn |-> k, next |-> "bNext", bye |-> FALSE, todo |-> at[Bus].todo \ {k}]
  <2>1. new \in Place /\ new.pc = "sOpen" /\ new.next = "bNext"
    BY <1>1, <1>2, Pieces DEF Place
  <2>2. at' = [at EXCEPT ![Bus] = new]
    BY <1>5
  <2> HIDE DEF new
  <2> QED BY <1>1, <1>2, <2>1, <2>2, Pieces, OneGoesOn
<1> QED BY <1>3, <1>4, <1>5 DEF BroadcastNext

LEMMA StopInv ==
  ASSUME Inv, StopWs \/ StopNext
  PROVE  Inv'
<1>1. Still /\ Hub \in Threads /\ Hub \notin Workers /\ at[Hub] \in Place
  BY Roles DEF StopWs, StopNext, Still, stopVars, wsVars, Inv, TypeOK
<1>2. {"wSnapshot", "reap", "none"} \subseteq Others /\ "cOpen" \in Closing
  BY DEF Others, Closing
<1>3. ASSUME NEW spot \in {"wSnapshot", "reap"}, Goto(Hub, spot) PROVE Inv'
  BY <1>1, <1>2, <1>3, Pieces, GotoInv
<1>4. ASSUME NEW k \in at[Hub].todo,
             at' = [at EXCEPT ![Hub] = [pc |-> "cOpen", conn |-> k, next |-> "none", bye |-> TRUE,
                                        todo |-> at[Hub].todo \ {k}]]
      PROVE  Inv'
  <2> DEFINE new == [pc |-> "cOpen", conn |-> k, next |-> "none", bye |-> TRUE, todo |-> at[Hub].todo \ {k}]
  <2>1. new \in Place /\ new.pc = "cOpen"
    BY <1>1, <1>2, Pieces DEF Place
  <2>2. at' = [at EXCEPT ![Hub] = new]
    BY <1>4
  <2> HIDE DEF new
  <2> QED BY <1>1, <1>2, <2>1, <2>2, Pieces, OneGoesOn
<1> QED BY <1>3, <1>4 DEF StopWs, StopNext

-----------------------------------------------------------------------------
LEMMA InitInv == Init => Inv
<1> SUFFICES ASSUME Init PROVE Inv
  OBVIOUS
<1>1. /\ at = [t \in Threads |-> At(CASE t \in Workers -> "look" [] t \in Conns -> "none" [] OTHER -> "idle", NoConn)]
      /\ sock = [k \in Conns |-> "none"] /\ closes = [k \in Conns |-> 0]
      /\ pending = <<>> /\ connections = {} /\ finished = {}
  BY DEF Init, HttpInit
<1>2. {"look", "none", "idle"} \subseteq Others
  BY DEF Others
<1>3. \A spot \in {"look", "none", "idle"} : At(spot, NoConn) \in Place /\ At(spot, NoConn).pc = spot
  BY <1>2, Pieces, NoConnIsConn DEF At, Place
<1>4. \A t \in Threads : (CASE t \in Workers -> "look" [] t \in Conns -> "none" [] OTHER -> "idle")
                           \in {"look", "none", "idle"}
  OBVIOUS
<1>5. \A t \in Threads : at[t] \in Place /\ at[t].pc \in Others
  BY <1>1, <1>2, <1>3, <1>4
<1>6. TypeOK
  BY <1>1, <1>5 DEF TypeOK
<1>7. Returns
  BY <1>5, Pieces DEF Returns
<1>8. \A t \in Threads, k \in Conns : ~Holds(t, k)
  BY <1>5, Pieces DEF Holds
<1>9. \A k \in Conns : ~Waits(k)
  BY <1>1 DEF Waits
<1> QED BY <1>1, <1>6, <1>7, <1>8, <1>9 DEF Inv, Unowned, Unclosed, OneOwner, ClosedOnce

LEMMA NextInv ==
  ASSUME Inv, [Next]_vars
  PROVE  Inv'
<1>1. CASE UNCHANGED vars
  <2>1. UNCHANGED <<at, sock, closes, pending, connections, finished>>
    BY <1>1 DEF vars, httpVars, wsVars
  <2> QED BY <2>1, Quiet DEF Inv, TypeOK, Returns, Holds
<1>2. CASE HttpStep
  BY <1>2, HttpInv DEF HttpStep
<1>3. ASSUME NEW w \in Workers, Upgrade(w) PROVE Inv'
  BY <1>3, HandshakeInv, RegisterInv, SpawnReaderInv DEF Upgrade
<1>4. ASSUME NEW t \in Threads, Procedure(t) PROVE Inv'
  BY <1>4, SendInv, WriteLockInv, ReapInv, ReapedInv, ClosingInv, EraseInv, CloseWsInv, ClosedInv DEF Procedure
<1> QED BY <1>1, <1>2, <1>3, <1>4, ReaderStepInv, BroadcastInv, BroadcastNextInv, StopInv DEF Next

\* A socket is closed once (closeConnection's erase under connMutex_, the
\* hand-over of the socket to the upgrade handler and stop's clearing of
\* pending_), whoever else closes the same connection meanwhile.
THEOREM SocketClosedOnce == Spec => []ClosedOnce
<1>1. Inv => ClosedOnce
  BY DEF Inv
<1> QED BY InitInv, NextInv, <1>1, PTL DEF Spec


-----------------------------------------------------------------------------
(* One connection.                                                         *)

ConnTypes ==
  /\ script \in Scripts
  /\ sends \in Nat /\ got \in Nat /\ got <= sends /\ sends <= Before(Len(script) + 1)
  /\ pc \in {"top", "head", "body", "serve", "closed", "taken"}

\* The request that is read or served, and how many there are.
Current == Len(sent) + 1
Count   == Len(script)

AllKept == \A i \in DOMAIN sent : sent[i].keep

\* Between requests and in a head the buffer is what came of the stream after the
\* last request, with less than a piece behind the end of a head.
Reading ==
  pc \in {"top", "head"} =>
    /\ AllKept
    /\ Before(Current) <= got /\ buffer = Span(Before(Current), got)
    /\ Current <= Count =>
         IF got < HeadEnd(Current) THEN got <= Before(Current) + MaxHeader
         ELSE got <= HeadEnd(Current) + Chunk /\ script[Current].size <= MaxHeader + Chunk

Accepted ==
  /\ AllKept
  /\ number = Current /\ number <= Count
  /\ script[number].size <= MaxHeader + Chunk
  /\ ContentLength(script[number]) >= 0

\* In a body it is the stream after the head.
ReadingBody ==
  pc = "body" =>
    /\ Accepted
    /\ HeadEnd(number) <= got /\ body = Span(HeadEnd(number), got)
    /\ got <= Before(number + 1) + Chunk
    /\ Missing /\ Expects(script[number]) => number \in invited

\* A request is served when it is there, and the buffer is what follows it.
Serving ==
  pc = "serve" =>
    /\ Accepted
    /\ body = Span(HeadEnd(number), Before(number + 1))
    /\ Before(number + 1) <= got /\ buffer = Span(Before(number + 1), got)
    /\ got <= Before(number + 1) + Chunk

\* No body comes before the client was asked for it.
HeldBack ==
  \A k \in DOMAIN script :
    Expects(script[k]) /\ ContentLength(script[k]) > 0 /\ k \notin invited => got <= HeadEnd(k)

IsSequence(s) == \E S : s \in Seq(S)

AnswersRight ==
  /\ Len(sent) <= Count
  /\ RequestsReadWhole /\ HeadersBounded /\ CloseAnnounced /\ MostSpecificRoute

ConnInv ==
  /\ ConnTypes /\ IsSequence(sent)
  /\ Reading /\ ReadingBody /\ Serving /\ HeldBack /\ AnswersRight /\ NoneForgotten

-----------------------------------------------------------------------------
(* Pieces of the stream.                                                   *)

\* A nonempty set of natural numbers has a least element.
LEMMA LeastNatural ==
  ASSUME NEW T \in SUBSET Nat, T # {}
  PROVE  \E x \in T : \A y \in T : x <= y
<1>1. IsWellFoundedOn(OpToRel(<, Nat), Nat)
  BY NatLessThanWellFounded
<1>2. PICK x \in T : \A y \in T : ~(<<y, x>> \in OpToRel(<, Nat))
  BY <1>1, WFMin, Zenon
<1>3. \A y \in T : ~(y < x)
  BY <1>2, Zenon DEF OpToRel
<1> QED
  BY <1>3

LEMMA SpanIs ==
  ASSUME NEW a \in Nat, NEW b \in Nat, a <= b
  PROVE  /\ Span(a, b) \in Seq(Nat) /\ Len(Span(a, b)) = b - a
         /\ DOMAIN Span(a, b) = 1..(b - a)
         /\ \A i \in 1..(b - a) : Span(a, b)[i] = a + i
<1>1. b - a \in Nat /\ \A i \in 1..(b - a) : a + i \in Nat
  OBVIOUS
<1> QED
  BY <1>1 DEF Span

LEMMA SpanEmpty ==
  ASSUME NEW a \in Nat
  PROVE  Span(a, a) = <<>>
BY DEF Span

LEMMA SpanNotEmpty ==
  ASSUME NEW a \in Nat, NEW b \in Nat, a <= b, Span(a, b) = <<>>
  PROVE  a = b
<1>1. Len(Span(a, b)) = b - a
  BY SpanIs
<1>2. b - a = 0
  BY <1>1
<1> QED
  BY <1>2

\* Two sequences are equal when they have the same length and the same items.
LEMMA SameItems ==
  ASSUME NEW s \in Seq(Nat), NEW t \in Seq(Nat), Len(s) = Len(t), \A i \in 1..Len(s) : s[i] = t[i]
  PROVE  s = t
BY SeqEqual

LEMMA JoinedIs ==
  ASSUME NEW s \in Seq(Nat), NEW t \in Seq(Nat)
  PROVE  /\ s \o t \in Seq(Nat) /\ Len(s \o t) = Len(s) + Len(t)
         /\ \A i \in 1..(Len(s) + Len(t)) : (s \o t)[i] = IF i <= Len(s) THEN s[i] ELSE t[i - Len(s)]
BY ConcatProperties

LEMMA SpanJoined ==
  ASSUME NEW a \in Nat, NEW b \in Nat, NEW c \in Nat, a <= b, b <= c
  PROVE  Span(a, b) \o Span(b, c) = Span(a, c)
<1> DEFINE s == Span(a, b)
           t == Span(b, c)
<1>1. /\ s \in Seq(Nat) /\ Len(s) = b - a /\ t \in Seq(Nat) /\ Len(t) = c - b
      /\ \A i \in 1..(b - a) : s[i] = a + i
      /\ \A i \in 1..(c - b) : t[i] = b + i
  BY SpanIs
<1>2. Span(a, c) \in Seq(Nat) /\ Len(Span(a, c)) = c - a /\ \A i \in 1..(c - a) : Span(a, c)[i] = a + i
  BY SpanIs
<1> HIDE DEF s, t
<1>3. s \o t \in Seq(Nat) /\ Len(s \o t) = c - a
      /\ \A i \in 1..(c - a) : (s \o t)[i] = IF i <= b - a THEN s[i] ELSE t[i - (b - a)]
  <2>1. Len(s) + Len(t) = c - a
    BY <1>1
  <2>2. /\ s \o t \in Seq(Nat) /\ Len(s \o t) = Len(s) + Len(t)
        /\ \A i \in 1..(Len(s) + Len(t)) : (s \o t)[i] = IF i <= Len(s) THEN s[i] ELSE t[i - Len(s)]
    BY <1>1, JoinedIs
  <2>3. Len(s) = b - a
    BY <1>1
  <2> QED
    BY <2>1, <2>2, <2>3
<1>4. \A i \in 1..(c - a) : (s \o t)[i] = a + i
  <2> SUFFICES ASSUME NEW i \in 1..(c - a) PROVE (s \o t)[i] = a + i
    OBVIOUS
  <2>1. CASE i <= b - a
    <3>1. i \in 1..(b - a)
      BY <2>1
    <3> QED
      BY <1>1, <1>3, <2>1, <3>1
  <2>2. CASE ~(i <= b - a)
    <3>1. i - (b - a) \in 1..(c - b) /\ b + (i - (b - a)) = a + i
      BY <2>2
    <3>2. (s \o t)[i] = t[i - (b - a)]
      BY <1>3, <2>2
    <3>3. t[i - (b - a)] = b + (i - (b - a))
      BY <1>1, <3>1
    <3> QED
      BY <3>1, <3>2, <3>3
  <2> QED
    BY <2>1, <2>2
<1>5. s \o t = Span(a, c)
  <2>1. Len(s \o t) = Len(Span(a, c)) /\ \A i \in 1..Len(s \o t) : (s \o t)[i] = Span(a, c)[i]
    BY <1>2, <1>3, <1>4
  <2> QED
    BY <1>2, <1>3, <2>1, SameItems
<1> QED
  BY <1>5 DEF s, t

LEMMA SpanCut ==
  ASSUME NEW a \in Nat, NEW b \in Nat, NEW m \in Nat, a + m <= b
  PROVE  /\ SubSeq(Span(a, b), 1, m) = Span(a, a + m)
         /\ SubSeq(Span(a, b), m + 1, Len(Span(a, b))) = Span(a + m, b)
<1>1. PICK s \in Seq(Nat) : /\ s = Span(a, b) /\ Len(s) = b - a
                            /\ \A i \in 1..(b - a) : s[i] = a + i
  BY SpanIs
<1>2. /\ Span(a, a + m) \in Seq(Nat) /\ Len(Span(a, a + m)) = m
      /\ \A i \in 1..m : Span(a, a + m)[i] = a + i
  <2>1. a + m \in Nat /\ a <= a + m /\ (a + m) - a = m
    OBVIOUS
  <2> QED
    BY <2>1, SpanIs
<1>3. /\ Span(a + m, b) \in Seq(Nat) /\ Len(Span(a + m, b)) = b - (a + m)
      /\ \A i \in 1..(b - (a + m)) : Span(a + m, b)[i] = (a + m) + i
  <2>1. a + m \in Nat
    OBVIOUS
  <2> QED
    BY <2>1, SpanIs
<1>4. /\ SubSeq(s, 1, m) \in Seq(Nat) /\ Len(SubSeq(s, 1, m)) = m
      /\ \A i \in 1..m : SubSeq(s, 1, m)[i] = s[i]
  BY <1>1
<1>5. /\ SubSeq(s, m + 1, Len(s)) \in Seq(Nat) /\ Len(SubSeq(s, m + 1, Len(s))) = b - (a + m)
      /\ \A i \in 1..(b - (a + m)) : SubSeq(s, m + 1, Len(s))[i] = s[m + i]
  BY <1>1
<1>6. SubSeq(s, 1, m) = Span(a, a + m)
  <2>1. \A i \in 1..m : s[i] = a + i
    BY <1>1
  <2> QED
    BY <1>2, <1>4, <2>1, SameItems
<1>7. SubSeq(s, m + 1, Len(s)) = Span(a + m, b)
  <2>1. \A i \in 1..(b - (a + m)) : s[m + i] = (a + m) + i
    <3>1. \A i \in 1..(b - (a + m)) : m + i \in 1..(b - a) /\ a + (m + i) = (a + m) + i
      OBVIOUS
    <3> QED
      BY <1>1, <3>1
  <2>2. \A i \in 1..(b - (a + m)) : SubSeq(s, m + 1, Len(s))[i] = Span(a + m, b)[i]
    BY <1>3, <1>5, <2>1
  <2>3. Len(SubSeq(s, m + 1, Len(s))) = Len(Span(a + m, b))
    BY <1>3, <1>5
  <2> QED
    BY <1>3, <1>5, <2>2, <2>3, SameItems
<1> QED
  BY <1>1, <1>6, <1>7

-----------------------------------------------------------------------------
(* The requests in the stream.                                             *)

LEMMA RequestAt ==
  ASSUME script \in Scripts
  PROVE  /\ Count \in Nat /\ DOMAIN script = 1..Count /\ Before(1) = 0
         /\ \A k \in 1..(Count + 1) : Before(k) \in Nat
         /\ \A k \in 1..Count :
              /\ script[k].size \in Nat \ {0} /\ ContentLength(script[k]) \in Int
              /\ script[k].fate \in {"ok", "invalid", "throws"}
              /\ HeadEnd(k) \in Nat /\ HeadEnd(k) = Before(k) + script[k].size
              /\ Before(k + 1) = HeadEnd(k) + (IF ContentLength(script[k]) > 0
                                               THEN ContentLength(script[k]) ELSE 0)
              /\ Before(k) < HeadEnd(k) /\ HeadEnd(k) <= Before(k + 1)
<1>1. Count \in Nat /\ DOMAIN script = 1..Count
  BY ConnectionAssumption DEF Count
<1>2. \A k \in 1..Count : /\ script[k].size \in Nat \ {0} /\ ContentLength(script[k]) \in Int
                          /\ script[k].fate \in {"ok", "invalid", "throws"}
                          /\ script[k].end \in Nat
                          /\ script[k].end = (IF k = 1 THEN 0 ELSE script[k - 1].end) + Size(script[k])
  BY <1>1, ConnectionAssumption
<1>3. Before(1) = 0
  BY DEF Before
<1>4. \A k \in 1..(Count + 1) : Before(k) \in Nat
  <2> SUFFICES ASSUME NEW k \in 1..(Count + 1) PROVE Before(k) \in Nat
    OBVIOUS
  <2>1. k = 1 \/ k - 1 \in 1..Count
    BY <1>1
  <2> QED
    BY <1>2, <2>1 DEF Before
<1>5. ASSUME NEW k \in 1..Count
      PROVE  /\ HeadEnd(k) \in Nat /\ HeadEnd(k) = Before(k) + script[k].size
             /\ Before(k + 1) = HeadEnd(k) + (IF ContentLength(script[k]) > 0
                                              THEN ContentLength(script[k]) ELSE 0)
             /\ Before(k) < HeadEnd(k) /\ HeadEnd(k) <= Before(k + 1)
  <2>1. Before(k) \in Nat /\ script[k].size \in Nat \ {0} /\ ContentLength(script[k]) \in Int
    BY <1>1, <1>2, <1>4
  <2>2. HeadEnd(k) = Before(k) + script[k].size
    BY DEF HeadEnd
  <2>3. Before(k + 1) = script[k].end
    <3>1. k + 1 # 1 /\ (k + 1) - 1 = k
      BY <1>1
    <3> QED
      BY <3>1 DEF Before
  <2>4. script[k].end = Before(k) + (script[k].size + (IF ContentLength(script[k]) > 0
                                                       THEN ContentLength(script[k]) ELSE 0))
    BY <1>2 DEF Before, Size
  <2> QED
    BY <2>1, <2>2, <2>3, <2>4
<1> QED
  BY <1>1, <1>2, <1>3, <1>4, <1>5

LEMMA BeforeGrows ==
  ASSUME script \in Scripts, NEW j \in 1..(Count + 1), NEW k \in 1..(Count + 1), j <= k
  PROVE  Before(j) <= Before(k)
<1> DEFINE T == {i \in Nat : i \in 1..(Count + 1) /\ j <= i /\ ~(Before(j) <= Before(i))}
<1>1. Count \in Nat /\ \A i \in 1..(Count + 1) : Before(i) \in Nat
  BY RequestAt
<1>2. SUFFICES T = {}
  <2>1. k \in Nat
    BY <1>1
  <2> QED
    BY <1>2, <2>1
<1>3. SUFFICES ASSUME T # {} PROVE FALSE
  OBVIOUS
<1>4. PICK m \in T : \A i \in T : m <= i
  <2>1. T \in SUBSET Nat
    OBVIOUS
  <2> HIDE DEF T
  <2> QED
    BY <1>3, <2>1, LeastNatural
<1>5. m \in 1..(Count + 1) /\ j <= m /\ ~(Before(j) <= Before(m)) /\ m # j
  BY <1>1, <1>4
<1>6. m - 1 \in 1..Count /\ j <= m - 1 /\ (m - 1) + 1 = m /\ ~(m <= m - 1) /\ m - 1 \in Nat
      /\ m - 1 \in 1..(Count + 1)
  BY <1>1, <1>5
<1>7. Before(j) <= Before(m - 1)
  BY <1>4, <1>6
<1>8. Before(m - 1) <= Before(m)
  <2>1. Before(m - 1) < HeadEnd(m - 1) /\ HeadEnd(m - 1) <= Before((m - 1) + 1) /\ HeadEnd(m - 1) \in Nat
    BY <1>6, RequestAt
  <2> QED
    BY <1>1, <1>5, <1>6, <2>1
<1> QED
  BY <1>1, <1>5, <1>6, <1>7, <1>8

\* The end of a head between the start of a request and the end of its head is
\* the end of that head.
LEMMA HeadsApart ==
  ASSUME script \in Scripts, NEW j \in 1..Count, NEW k \in 1..Count, j # k
  PROVE  HeadEnd(j) <= Before(k) \/ Before(k + 1) < HeadEnd(j)
<1>1. /\ Count \in Nat /\ Before(j) \in Nat /\ Before(k) \in Nat /\ HeadEnd(j) \in Nat
      /\ Before(j + 1) \in Nat /\ Before(k + 1) \in Nat
      /\ Before(j) < HeadEnd(j) /\ HeadEnd(j) <= Before(j + 1)
  <2>1. Count \in Nat
    BY RequestAt
  <2>2. j \in 1..(Count + 1) /\ k \in 1..(Count + 1) /\ j + 1 \in 1..(Count + 1) /\ k + 1 \in 1..(Count + 1)
    BY <2>1
  <2> QED
    BY <2>1, <2>2, RequestAt
<1>2. CASE j < k
  <2>1. j + 1 \in 1..(Count + 1) /\ k \in 1..(Count + 1) /\ j + 1 <= k
    BY <1>1, <1>2
  <2>2. Before(j + 1) <= Before(k)
    BY <2>1, BeforeGrows
  <2> QED
    BY <1>1, <2>2
<1>3. CASE k < j
  <2>1. k + 1 \in 1..(Count + 1) /\ j \in 1..(Count + 1) /\ k + 1 <= j
    BY <1>1, <1>3
  <2>2. Before(k + 1) <= Before(j)
    BY <2>1, BeforeGrows
  <2> QED
    BY <1>1, <2>2
<1> QED
  BY <1>1, <1>2, <1>3

LEMMA StartsApart ==
  ASSUME script \in Scripts, NEW j \in 1..Count, NEW k \in 1..Count, Before(j) = Before(k)
  PROVE  j = k
<1>1. SUFFICES ASSUME j # k PROVE FALSE
  OBVIOUS
<1>2. /\ Count \in Nat /\ Before(j) \in Nat /\ Before(k) \in Nat /\ HeadEnd(j) \in Nat /\ HeadEnd(k) \in Nat
      /\ Before(j) < HeadEnd(j) /\ Before(k) < HeadEnd(k)
      /\ HeadEnd(k) <= Before(k + 1) /\ HeadEnd(j) <= Before(j + 1)
  <2>1. Count \in Nat
    BY RequestAt
  <2>2. j \in 1..(Count + 1) /\ k \in 1..(Count + 1)
    BY <2>1
  <2> QED
    BY <2>1, <2>2, RequestAt
<1>3. Before(k + 1) < HeadEnd(j) /\ Before(j + 1) < HeadEnd(k)
  <2>1. HeadEnd(j) <= Before(k) \/ Before(k + 1) < HeadEnd(j)
    BY <1>1, HeadsApart
  <2>2. HeadEnd(k) <= Before(j) \/ Before(j + 1) < HeadEnd(k)
    BY <1>1, HeadsApart
  <2> QED
    BY <1>2, <2>1, <2>2
<1>4. Before(k + 1) \in Nat /\ Before(j + 1) \in Nat
  <2>1. j + 1 \in 1..(Count + 1) /\ k + 1 \in 1..(Count + 1)
    BY <1>2
  <2> QED
    BY <2>1, RequestAt
<1> QED
  BY <1>2, <1>3, <1>4

-----------------------------------------------------------------------------
(* Sets of positions, and what a client sends.                             *)

LEMMA MinIs ==
  ASSUME NEW T \in SUBSET Nat, T # {}
  PROVE  Min(T) \in T /\ \A y \in T : Min(T) <= y
<1>1. \E x \in T : \A y \in T : x <= y
  BY LeastNatural
<1> QED
  BY <1>1, Zenon DEF Min

\* The requests whose body the client keeps back.
Held == {k \in DOMAIN script : Expects(script[k]) /\ ContentLength(script[k]) > 0 /\ k \notin invited}

LEMMA AvailableIs ==
  ASSUME script \in Scripts, sends \in Nat
  PROVE  /\ Available \in Nat /\ Available <= sends
         /\ \A k \in Held : Available <= HeadEnd(k)
         /\ Available = sends \/ \E k \in Held : Available = HeadEnd(k)
<1> DEFINE T == {sends} \cup {HeadEnd(k) : k \in Held}
<1>1. Available = Min(T)
  BY DEF Available, Held
<1>2. T \in SUBSET Nat /\ T # {}
  <2>1. \A k \in Held : k \in 1..Count /\ HeadEnd(k) \in Nat
    BY RequestAt DEF Held
  <2> QED
    BY <2>1
<1>3. Min(T) \in T /\ \A y \in T : Min(T) <= y
  <2> HIDE DEF T
  <2> QED
    BY <1>2, MinIs
<1>4. Min(T) \in Nat
  BY <1>2, <1>3
<1> QED
  BY <1>1, <1>3, <1>4

-----------------------------------------------------------------------------
(* Where heads end.                                                        *)

\* The next head to end after the start of a request is its own.
LEMMA NextHead ==
  ASSUME script \in Scripts, NEW c \in 1..(Count + 1), NEW k \in 1..Count, Before(c) < HeadEnd(k)
  PROVE  c <= Count /\ HeadEnd(c) <= HeadEnd(k)
<1>1. Count \in Nat /\ k \in 1..(Count + 1) /\ k + 1 \in 1..(Count + 1)
  BY RequestAt
<1>2. HeadEnd(k) \in Nat /\ Before(k + 1) \in Nat /\ Before(c) \in Nat /\ HeadEnd(k) <= Before(k + 1)
  BY <1>1, RequestAt
<1>3. c <= k
  <2>1. SUFFICES ASSUME k + 1 <= c PROVE FALSE
    BY <1>1
  <2>2. Before(k + 1) <= Before(c)
    BY <1>1, <2>1, BeforeGrows
  <2> QED
    BY <1>2, <2>2
<1>4. c \in 1..Count
  BY <1>1, <1>3
<1>5. CASE c = k
  BY <1>2, <1>4, <1>5
<1>6. CASE c # k
  <2>1. Before(c + 1) < HeadEnd(k)
    <3>1. HeadEnd(k) <= Before(c) \/ Before(c + 1) < HeadEnd(k)
      BY <1>4, <1>6, HeadsApart
    <3> QED
      BY <1>2, <3>1
  <2>2. HeadEnd(c) \in Nat /\ HeadEnd(c) <= Before(c + 1)
    BY <1>4, RequestAt
  <2>3. Before(c + 1) \in Nat
    <3>1. c + 1 \in 1..(Count + 1)
      BY <1>1, <1>4
    <3> QED
      BY <3>1, RequestAt
  <2> QED
    BY <1>2, <1>4, <2>1, <2>2, <2>3
<1> QED
  BY <1>5, <1>6

\* A head is found in what was read of a request when it is there, and then it
\* is the head of this request.
LEMMA HeadFound ==
  ASSUME script \in Scripts, NEW c \in 1..(Count + 1), NEW g \in Nat, Before(c) <= g,
         NEW b, b = Span(Before(c), g)
  PROVE  /\ Ends(b) \in SUBSET Nat
         /\ Ends(b) # {} => /\ c <= Count /\ HeadEnd(c) <= g
                            /\ Min(Ends(b)) = script[c].size
         /\ c <= Count /\ HeadEnd(c) <= g => Ends(b) # {}
<1>1. Count \in Nat /\ DOMAIN script = 1..Count /\ Before(c) \in Nat /\ g - Before(c) \in Nat
  BY RequestAt
<1>2. DOMAIN b = 1..(g - Before(c)) /\ \A i \in 1..(g - Before(c)) : b[i] = Before(c) + i
  BY <1>1, SpanIs
<1>3. \A i : i \in Ends(b) <=> i \in 1..(g - Before(c)) /\ \E k \in 1..Count : Before(c) + i = HeadEnd(k)
  BY <1>1, <1>2, Zenon DEF Ends
<1>4. Ends(b) \in SUBSET Nat
  BY <1>1, <1>3
<1>5. ASSUME NEW i \in Ends(b) PROVE c <= Count /\ HeadEnd(c) <= g /\ script[c].size <= i
  <2>1. PICK k \in 1..Count : Before(c) + i = HeadEnd(k)
    BY <1>3
  <2>2. i \in Nat /\ i >= 1 /\ i <= g - Before(c)
    BY <1>1, <1>3
  <2>3. Before(c) < HeadEnd(k)
    BY <1>1, <2>1, <2>2
  <2>4. c <= Count /\ HeadEnd(c) <= HeadEnd(k)
    BY <2>3, NextHead
  <2>5. c \in 1..Count
    BY <1>1, <2>4
  <2>6. HeadEnd(c) \in Nat /\ HeadEnd(c) = Before(c) + script[c].size /\ script[c].size \in Nat
    BY <2>5, RequestAt
  <2> QED
    BY <1>1, <2>1, <2>2, <2>4, <2>6
<1>6. ASSUME c <= Count, HeadEnd(c) <= g PROVE script[c].size \in Ends(b)
  <2>1. c \in 1..Count
    BY <1>1, <1>6
  <2>2. HeadEnd(c) = Before(c) + script[c].size /\ script[c].size \in Nat \ {0} /\ HeadEnd(c) \in Nat
    BY <2>1, RequestAt
  <2>3. script[c].size \in 1..(g - Before(c))
    BY <1>1, <1>6, <2>2
  <2> QED
    BY <1>3, <2>1, <2>2, <2>3
<1>7. ASSUME Ends(b) # {} PROVE c <= Count /\ HeadEnd(c) <= g /\ Min(Ends(b)) = script[c].size
  <2>1. Min(Ends(b)) \in Ends(b) /\ \A y \in Ends(b) : Min(Ends(b)) <= y
    BY <1>4, <1>7, MinIs
  <2>2. c <= Count /\ HeadEnd(c) <= g /\ script[c].size <= Min(Ends(b))
    BY <1>5, <2>1
  <2>3. script[c].size \in Ends(b)
    BY <1>6, <2>2
  <2>4. Min(Ends(b)) <= script[c].size /\ Min(Ends(b)) \in Nat /\ script[c].size \in Nat
    BY <1>4, <2>1, <2>3
  <2> QED
    BY <2>2, <2>4
<1> QED
  BY <1>4, <1>6, <1>7

\* The head of a request is taken for the head of no other.
LEMMA HeadParsed ==
  ASSUME script \in Scripts, NEW c \in 1..Count
  PROVE  Parsed(Span(Before(c), HeadEnd(c))) = {c}
<1>1. Count \in Nat /\ DOMAIN script = 1..Count
  BY RequestAt
<1>2. ASSUME NEW k \in 1..Count, Span(Before(c), HeadEnd(c)) = Span(Before(k), HeadEnd(k))
      PROVE  k = c
  <2>1. c \in 1..(Count + 1) /\ k \in 1..(Count + 1)
    BY <1>1
  <2>2. /\ Before(c) \in Nat /\ HeadEnd(c) \in Nat /\ Before(c) < HeadEnd(c)
        /\ Before(k) \in Nat /\ HeadEnd(k) \in Nat /\ Before(k) < HeadEnd(k)
    BY <2>1, RequestAt
  <2>3. /\ \A i \in 1..(HeadEnd(c) - Before(c)) : Span(Before(c), HeadEnd(c))[i] = Before(c) + i
        /\ \A i \in 1..(HeadEnd(k) - Before(k)) : Span(Before(k), HeadEnd(k))[i] = Before(k) + i
    <3>1. Before(c) <= HeadEnd(c) /\ Before(k) <= HeadEnd(k)
      BY <2>2
    <3>2. \A i \in 1..(HeadEnd(c) - Before(c)) : Span(Before(c), HeadEnd(c))[i] = Before(c) + i
      BY <2>2, <3>1, SpanIs
    <3>3. \A i \in 1..(HeadEnd(k) - Before(k)) : Span(Before(k), HeadEnd(k))[i] = Before(k) + i
      BY <2>2, <3>1, SpanIs
    <3> QED
      BY <3>2, <3>3
  <2>4. Span(Before(c), HeadEnd(c))[1] = Before(c) + 1 /\ Span(Before(k), HeadEnd(k))[1] = Before(k) + 1
    BY <2>2, <2>3
  <2>5. Before(c) = Before(k)
    BY <1>2, <2>2, <2>4
  <2> QED
    BY <2>5, StartsApart
<1> QED
  BY <1>1, <1>2 DEF Parsed

-----------------------------------------------------------------------------
(* An answer.                                                              *)

LEMMA AppendIs ==
  ASSUME NEW s, IsSequence(s), NEW e
  PROVE  /\ IsSequence(Append(s, e)) /\ Len(s) \in Nat /\ DOMAIN s = 1..Len(s)
         /\ Len(Append(s, e)) = Len(s) + 1 /\ DOMAIN Append(s, e) = 1..(Len(s) + 1)
         /\ Append(s, e)[Len(s) + 1] = e
         /\ \A i \in 1..Len(s) : Append(s, e)[i] = s[i]
<1>1. PICK S : s \in Seq(S)
  BY DEF IsSequence
<1>2. Len(s) \in Nat /\ DOMAIN s = 1..Len(s) /\ \A i \in 1..Len(s) : s[i] \in S
  BY <1>1
<1>3. s \in Seq(S \cup {e})
  <2>1. s = [i \in 1..Len(s) |-> s[i]]
    BY <1>1
  <2> QED
    BY <1>2, <2>1
<1>4. /\ Append(s, e) \in Seq(S \cup {e}) /\ Len(Append(s, e)) = Len(s) + 1
      /\ Append(s, e)[Len(s) + 1] = e
      /\ \A i \in 1..Len(s) : Append(s, e)[i] = s[i]
  BY <1>3, AppendProperties
<1>5. DOMAIN Append(s, e) = 1..(Len(s) + 1)
  BY <1>4
<1> QED
  BY <1>2, <1>4, <1>5 DEF IsSequence

LEMMA SentIs ==
  ASSUME IsSequence(sent)
  PROVE  /\ Len(sent) \in Nat /\ DOMAIN sent = 1..Len(sent)
         /\ Current \in Nat \ {0} /\ Current = Len(sent) + 1
BY DEF IsSequence, Current

\* The answer e is right for the request of place k.
RightAnswer(e, k) ==
  /\ IF e.by = "server" THEN ~e.keep ELSE e.read = Bytes(k)
  /\ e.code = 431 => script[k].size > MaxHeader
  /\ e.by # "server" => script[k].size <= MaxHeader + Chunk
  /\ \A r \in {Routes[j] : j \in DOMAIN Routes} :
       e.by = r.name =>
         /\ OnPath(r, script[k].path.segs)
         /\ ~\E j \in Matching(script[k]) :
               Paths(Routes[j]) \subseteq Paths(r) /\ Paths(Routes[j]) # Paths(r)

AllRight == Len(sent) <= Count /\ \A i \in DOMAIN sent : RightAnswer(sent[i], i)

\* What the answers are, one by one.
LEMMA AnswersOneByOne ==
  /\ AnswersRight <=> AllRight /\ CloseAnnounced
  /\ AnswersRight' <=> AllRight' /\ CloseAnnounced'
BY DEF AnswersRight, AllRight, RightAnswer, RequestsReadWhole, HeadersBounded, MostSpecificRoute

LEMMA SameStream ==
  ASSUME script' = script
  PROVE  /\ Count' = Count
         /\ \A k : Before(k)' = Before(k) /\ HeadEnd(k)' = HeadEnd(k) /\ Bytes(k)' = Bytes(k)
BY DEF Count, Before, HeadEnd, Bytes

\* The stream does not change, nor what is right for it.
LEMMA JudgementStays ==
  ASSUME script' = script, NEW i, RightAnswer(sent'[i], i)
  PROVE  RightAnswer(sent[i], i)'
BY SameStream DEF RightAnswer

LEMMA AnswerAdded ==
  ASSUME script \in Scripts, script' = script, IsSequence(sent), AnswersRight, AllKept, Current <= Count,
         NEW e, sent' = Append(sent, e), RightAnswer(e, Current),
         e.keep \/ pc' \in {"closed", "taken"}
  PROVE  /\ IsSequence(sent') /\ Len(sent') = Len(sent) + 1 /\ sent'[Len(sent')] = e
         /\ AnswersRight'
         /\ e.keep => AllKept'
<1> DEFINE n == Len(sent)
<1>1. /\ IsSequence(sent') /\ n \in Nat /\ DOMAIN sent = 1..n
      /\ Len(sent') = n + 1 /\ DOMAIN sent' = 1..(n + 1) /\ sent'[n + 1] = e
      /\ \A i \in 1..n : sent'[i] = sent[i]
  BY AppendIs
<1>2. Count \in Nat /\ Count' = Count /\ n + 1 <= Count
  BY RequestAt, SameStream DEF Current
<1>3. AllRight'
  <2>1. \A i \in 1..(n + 1) : RightAnswer(sent'[i], i)
    <3>1. \A i \in 1..n : RightAnswer(sent[i], i)
      BY <1>1, AnswersOneByOne DEF AllRight
    <3>2. RightAnswer(sent'[n + 1], n + 1)
      BY <1>1 DEF Current
    <3>3. \A i \in 1..(n + 1) : i \in 1..n \/ i = n + 1
      BY <1>1
    <3> QED
      BY <1>1, <3>1, <3>2, <3>3, Zenon
  <2>2. \A i : RightAnswer(sent'[i], i) => RightAnswer(sent[i], i)'
    BY JudgementStays
  <2> QED
    BY <1>1, <1>2, <2>1, <2>2 DEF AllRight
<1>4. CloseAnnounced'
  <2>1. \A i \in 1..n : sent'[i].keep
    BY <1>1 DEF AllKept
  <2>2. \A i \in 1..(n + 1) : i \in 1..n \/ i = n + 1
    BY <1>1
  <2> QED
    BY <1>1, <2>1, <2>2, Zenon DEF CloseAnnounced
<1>5. AnswersRight'
  BY <1>3, <1>4, AnswersOneByOne
<1>6. e.keep => AllKept'
  <2>1. \A i \in 1..(n + 1) : i \in 1..n \/ i = n + 1
    BY <1>1
  <2> QED
    BY <1>1, <2>1, Zenon DEF AllKept
<1> QED
  BY <1>1, <1>5, <1>6

LEMMA NothingAdded ==
  ASSUME script' = script, sent' = sent, IsSequence(sent), AnswersRight, AllKept
  PROVE  IsSequence(sent') /\ AnswersRight' /\ AllKept' /\ Current' = Current /\ Count' = Count
<1>1. AllRight'
  <2>1. AllRight
    BY AnswersOneByOne
  <2>2. \A i : RightAnswer(sent[i], i) => RightAnswer(sent[i], i)'
    BY JudgementStays
  <2> QED
    BY <2>1, <2>2, SameStream DEF AllRight
<1>2. AllKept'
  BY DEF AllKept
<1>3. CloseAnnounced'
  BY DEF AllKept, CloseAnnounced
<1>4. AnswersRight'
  BY <1>1, <1>3, AnswersOneByOne
<1> QED
  BY <1>2, <1>4, SameStream DEF Current

\* An answer is sent, or the peer is gone.
LEMMA Responded ==
  ASSUME script \in Scripts, UNCHANGED <<script, sends, quitting>>, IsSequence(sent), AnswersRight, AllKept,
         Current <= Count, NEW a, NEW keep \in BOOLEAN, NEW read, Respond(a, keep, read),
         RightAnswer([code |-> a.code, by |-> a.by, keep |-> keep, read |-> read], Current)
  PROVE  /\ IsSequence(sent') /\ AnswersRight' /\ NoneForgotten'
         /\ pc' \in {"top", "closed"}
         /\ pc' = "top" => keep /\ AllKept' /\ Current' = Current + 1
<1> DEFINE e == [code |-> a.code, by |-> a.by, keep |-> keep, read |-> read]
<1>1. CASE /\ sent' = Append(sent, e)
           /\ pc' = IF keep THEN "top" ELSE "closed"
  <2> HIDE DEF e
  <2>1. e.keep = keep /\ (e.keep \/ pc' \in {"closed", "taken"})
    BY <1>1 DEF e
  <2>2. RightAnswer(e, Current)
    BY DEF e
  <2>3. /\ IsSequence(sent') /\ Len(sent') = Len(sent) + 1 /\ sent'[Len(sent')] = e
        /\ AnswersRight' /\ (e.keep => AllKept')
    BY <1>1, <2>1, <2>2, AnswerAdded
  <2>4. Len(sent) \in Nat /\ Current' = Current + 1
    BY <2>3, SentIs DEF Current
  <2>5. NoneForgotten'
    <3>1. Len(sent') > 0
      BY <2>3, <2>4
    <3>2. pc' = "closed" => ~sent'[Len(sent')].keep
      BY <1>1, <2>1, <2>3
    <3> QED
      BY <3>1, <3>2, Zenon DEF NoneForgotten
  <2> QED
    BY <1>1, <2>1, <2>3, <2>4, <2>5
<1>2. CASE broken' = TRUE /\ pc' = "closed" /\ sent' = sent
  BY <1>2, NothingAdded DEF NoneForgotten
<1> QED
  BY <1>1, <1>2 DEF Respond

\* A refusal ends the connection.
LEMMA Refused ==
  ASSUME ConnInv, pc \in {"head", "body"}, Current <= Count, NEW code, Refuse(code),
         code = 431 => script[Current].size > MaxHeader,
         UNCHANGED <<script, sends, quitting>>,
         got' \in Nat, got' <= sends, HeldBack'
  PROVE  ConnInv'
<1>1. /\ script \in Scripts /\ IsSequence(sent) /\ AnswersRight
      /\ script' \in Scripts /\ sends' \in Nat
      /\ sends <= Before(Count + 1) /\ Count' = Count /\ Before(Count + 1)' = Before(Count + 1)
  BY SameStream DEF ConnInv, ConnTypes, Count
<1>2. AllKept
  BY DEF ConnInv, Reading, ReadingBody, Accepted
<1>3. PICK a : a = Answer(code, "server")
  OBVIOUS
<1>0. a.code = code /\ a.by = "server"
  BY <1>3 DEF Answer
<1>4. Respond(a, FALSE, <<>>)
  BY <1>3 DEF Refuse
<1>5. RightAnswer([code |-> a.code, by |-> a.by, keep |-> FALSE, read |-> <<>>], Current)
  <2>1. \A j \in DOMAIN Routes : Routes[j].name # "server"
    BY RoutesAssumption
  <2> QED
    BY <1>0, <2>1 DEF RightAnswer
<1>6. /\ IsSequence(sent') /\ AnswersRight' /\ NoneForgotten'
      /\ pc' \in {"top", "closed"} /\ (pc' = "top" => FALSE)
  BY <1>1, <1>2, <1>4, <1>5, Responded
<1>7. pc' = "closed"
  BY <1>6
<1>8. ConnTypes'
  BY <1>1, <1>7 DEF ConnTypes, Count
<1>9. Reading' /\ ReadingBody' /\ Serving'
  BY <1>7 DEF Reading, ReadingBody, Serving
<1> QED
  BY <1>6, <1>8, <1>9 DEF ConnInv

-----------------------------------------------------------------------------
(* Routes.                                                                 *)

LEMMA ScoreIs ==
  ASSUME NEW k \in DOMAIN Routes
  PROVE  Score(Routes[k]) \in Nat
<1> DEFINE L == {i \in DOMAIN Routes[k].segs : Routes[k].segs[i] # Param}
<1>1. Len(Routes[k].segs) \in Nat /\ DOMAIN Routes[k].segs = 1..Len(Routes[k].segs)
  BY RoutesAssumption
<1>2. IsFiniteSet(1..Len(Routes[k].segs))
  BY <1>1, FS_Interval
<1>3. IsFiniteSet(L)
  <2>1. L \subseteq 1..Len(Routes[k].segs)
    BY <1>1
  <2> QED
    BY <1>2, <2>1, FS_Subset
<1>4. Cardinality(L) \in Nat
  <2> HIDE DEF L
  <2> QED
    BY <1>3, FS_CardinalityType
<1>5. Score(Routes[k]) = 2 * Cardinality(L) + (IF Routes[k].wild THEN 0 ELSE 1)
  BY DEF Score
<1> HIDE DEF L
<1> QED
  BY <1>4, <1>5

\* k has the best score of K, and is the first that has it.
IsBest(k, K) ==
  k \in K /\ \A j \in K : \/ Score(Routes[j]) < Score(Routes[k])
                          \/ Score(Routes[j]) = Score(Routes[k]) /\ k <= j

\* One of any routes is the best.
LEMMA BestIs ==
  ASSUME NEW K \in SUBSET DOMAIN Routes, K # {}
  PROVE  IsBest(Best(K), K)
<1> DEFINE N == Len(Routes)
           Upto(n) == K \cap (1..n)
           T == {n \in Nat : n <= N /\ Upto(n) # {} /\ ~\E k \in K : IsBest(k, Upto(n))}
<1>1. N \in Nat /\ DOMAIN Routes = 1..N
  BY RoutesAssumption
<1>2. Upto(N) = K
  BY <1>1
<1>3. T = {}
  <2>1. SUFFICES ASSUME T # {} PROVE FALSE
    OBVIOUS
  <2>2. PICK n \in T : \A m \in T : n <= m
    <3>1. T \in SUBSET Nat
      OBVIOUS
    <3> HIDE DEF T
    <3> QED
      BY <2>1, <3>1, LeastNatural
  <2>3. n \in Nat /\ n <= N /\ Upto(n) # {} /\ ~\E k \in K : IsBest(k, Upto(n))
    BY <2>2
  <2>4. n \in 1..N /\ n - 1 \in Nat /\ n - 1 <= N /\ ~(n <= n - 1)
    <3>1. n # 0
      BY <2>3
    <3> QED
      BY <1>1, <2>3, <3>1
  <2>5. Upto(n - 1) = {} \/ \E k \in K : IsBest(k, Upto(n - 1))
    <3>1. n - 1 \notin T
      BY <2>2, <2>4
    <3> QED
      BY <2>4, <3>1
  <2>6. Upto(n) = Upto(n - 1) \/ (n \in K /\ Upto(n) = Upto(n - 1) \cup {n})
    BY <2>4
  <2>7. \A j \in Upto(n - 1) : j <= n /\ j \in K
    BY <2>4
  <2> HIDE DEF Upto, T, N
  <2>8. n \in K /\ Upto(n) = Upto(n - 1) \cup {n}
    BY <2>3, <2>5, <2>6
  <2>9. Score(Routes[n]) \in Nat /\ \A j \in Upto(n - 1) : Score(Routes[j]) \in Nat
    BY <2>7, <2>8, ScoreIs
  <2>10. CASE Upto(n - 1) = {}
    <3>1. IsBest(n, Upto(n))
      BY <2>3, <2>8, <2>10 DEF IsBest
    <3> QED
      BY <2>3, <2>8, <3>1
  <2>11. CASE \E k \in K : IsBest(k, Upto(n - 1))
    <3>1. PICK b \in K : IsBest(b, Upto(n - 1))
      BY <2>11
    <3>2. b \in Upto(n - 1) /\ Score(Routes[b]) \in Nat
      BY <2>9, <3>1 DEF IsBest
    <3>3. CASE Score(Routes[b]) < Score(Routes[n])
      <4>1. ASSUME NEW j \in Upto(n) PROVE \/ Score(Routes[j]) < Score(Routes[n])
                                           \/ Score(Routes[j]) = Score(Routes[n]) /\ n <= j
        <5>1. CASE j = n
          BY <2>3, <5>1
        <5>2. CASE j \in Upto(n - 1)
          <6>1. Score(Routes[j]) < Score(Routes[b]) \/ Score(Routes[j]) = Score(Routes[b])
            BY <3>1, <5>2 DEF IsBest
          <6>2. Score(Routes[j]) \in Nat
            BY <2>9, <5>2
          <6> QED
            BY <2>9, <3>2, <3>3, <6>1, <6>2
        <5> QED
          BY <2>8, <5>1, <5>2
      <4>2. IsBest(n, Upto(n))
        BY <2>8, <4>1 DEF IsBest
      <4> QED
        BY <2>3, <2>8, <4>2
    <3>4. CASE ~(Score(Routes[b]) < Score(Routes[n]))
      <4>1. Score(Routes[n]) < Score(Routes[b]) \/ Score(Routes[n]) = Score(Routes[b])
        BY <2>9, <3>2, <3>4
      <4>2. b <= n
        BY <2>7, <3>2
      <4>3. IsBest(b, Upto(n))
        BY <2>8, <3>1, <4>1, <4>2 DEF IsBest
      <4> QED
        BY <2>3, <3>1, <4>3
    <3> QED
      BY <3>3, <3>4
  <2> QED
    BY <2>3, <2>5, <2>10, <2>11
<1>4. \E k \in K : IsBest(k, K)
  <2>1. N <= N /\ N \in Nat
    BY <1>1
  <2>2. Upto(N) # {}
    BY <1>2
  <2> HIDE DEF Upto, N
  <2>3. N \notin T
    <3> HIDE DEF T
    <3> QED
      BY <1>3
  <2>4. \E k \in K : IsBest(k, Upto(N))
    BY <2>1, <2>2, <2>3
  <2> QED
    BY <1>2, <2>4
<1> QED
  BY <1>4, Zenon DEF IsBest, Best

LEMMA MatchingIs ==
  ASSUME NEW q
  PROVE  /\ Matching(q) \in SUBSET DOMAIN Routes
         /\ \A k \in Matching(q) : OnPath(Routes[k], q.path.segs)
BY Zenon DEF Matching, Candidates

\* What dispatch makes of a request is no refusal of the server and no 431, and
\* comes from the best of the routes that match.
LEMMA DispatchIs ==
  ASSUME NEW q, q.fate \in {"ok", "invalid", "throws"}
  PROVE  /\ Dispatch(q).code # 431 /\ Dispatch(q).by # "server"
         /\ \A r \in {Routes[j] : j \in DOMAIN Routes} :
              Dispatch(q).by = r.name => Matching(q) # {} /\ r = Routes[Best(Matching(q))]
<1> DEFINE Special == {"server", "upgrade", "filter", "preflight", "method", "static", "page", "nothing"}
<1>1. \A k \in DOMAIN Routes : Routes[k].name \notin Special
  BY RoutesAssumption
<1>2. \A j, k \in DOMAIN Routes : Routes[j].name = Routes[k].name => j = k
  BY RoutesAssumption
<1>3. CASE Dispatch(q).by \in Special /\ Dispatch(q).by # "server" /\ Dispatch(q).code # 431
  BY <1>1, <1>3
<1>4. CASE Matching(q) # {} /\ Dispatch(q) = Handled(q, Routes[Best(Matching(q))])
  <2>1. PICK b \in DOMAIN Routes : b = Best(Matching(q))
    BY <1>4, MatchingIs, BestIs DEF IsBest
  <2>2. Dispatch(q).by = Routes[b].name
    BY <1>4, <2>1 DEF Handled, Answer
  <2>3. Dispatch(q).code # 431
    BY <1>4, <2>1 DEF Handled, Answer
  <2>4. Routes[b].name # "server"
    BY <1>1
  <2>5. ASSUME NEW j \in DOMAIN Routes, Dispatch(q).by = Routes[j].name
        PROVE  Routes[j] = Routes[Best(Matching(q))]
    <3>1. j = b
      BY <1>2, <2>2, <2>5
    <3> QED
      BY <2>1, <3>1
  <2> QED
    BY <1>4, <2>2, <2>3, <2>4, <2>5
<1>5. \/ Dispatch(q).by \in Special /\ Dispatch(q).by # "server" /\ Dispatch(q).code # 431
      \/ Matching(q) # {} /\ Dispatch(q) = Handled(q, Routes[Best(Matching(q))])
  <2>1. CASE Cors /\ q.method = "OPTIONS"
    <3>1. Dispatch(q) = Answer(204, "preflight")
      BY <2>1 DEF Dispatch
    <3> QED
      BY <3>1 DEF Answer
  <2>2. CASE ~(Cors /\ q.method = "OPTIONS") /\ q.denied
    <3>1. Dispatch(q) = Answer(401, "filter")
      BY <2>2 DEF Dispatch
    <3> QED
      BY <3>1 DEF Answer
  <2>3. CASE ~(Cors /\ q.method = "OPTIONS") /\ ~q.denied /\ Matching(q) # {}
    BY <2>3, Zenon DEF Dispatch
  <2>4. CASE /\ ~(Cors /\ q.method = "OPTIONS") /\ ~q.denied /\ Matching(q) = {}
             /\ \E k \in DOMAIN Routes : OnPath(Routes[k], q.path.segs)
    <3>1. Dispatch(q) = Answer(405, "method")
      BY <2>4, Zenon DEF Dispatch
    <3> QED
      BY <3>1 DEF Answer
  <2>5. CASE /\ ~(Cors /\ q.method = "OPTIONS") /\ ~q.denied /\ Matching(q) = {}
             /\ ~\E k \in DOMAIN Routes : OnPath(Routes[k], q.path.segs)
    <3>1. Dispatch(q) = Static(q)
      BY <2>5, Zenon DEF Dispatch
    <3>2. Static(q) \in {Answer(304, "static"), Answer(200, "static"), Answer(200, "page"), Answer(404, "nothing")}
      <4>1. Page(q) \in {Answer(200, "page"), Answer(404, "nothing")}
        BY Zenon DEF Page, NotFound
      <4>2. Static(q) \in {Answer(304, "static"), Answer(200, "static"), Page(q)}
        <5>1. PICK c : c <=> (q.method \in {"GET", "HEAD"}
                              /\ (q.path \in Assets \/ (q.path.slash /\ Index(q.path) \in Assets)))
          OBVIOUS
        <5>2. Static(q) = IF c THEN Answer(IF Says(q, "if-none-match", "current") THEN 304 ELSE 200, "static")
                               ELSE Page(q)
          BY <5>1 DEF Static
        <5> QED
          BY <5>2
      <4> QED
        BY <4>1, <4>2
    <3> QED
      BY <3>1, <3>2 DEF Answer
  <2> QED
    BY <2>1, <2>2, <2>3, <2>4, <2>5
<1> QED
  BY <1>3, <1>4, <1>5

\* The answer of a route is right for the request.
LEMMA DispatchRight ==
  ASSUME script \in Scripts, NEW k \in 1..Count, NEW keep \in BOOLEAN,
         script[k].size <= MaxHeader + Chunk
  PROVE  RightAnswer([code |-> Dispatch(script[k]).code, by |-> Dispatch(script[k]).by,
                      keep |-> keep, read |-> Bytes(k)], k)
<1>1. PICK q : q = script[k]
  OBVIOUS
<1>2. q.fate \in {"ok", "invalid", "throws"}
  BY <1>1, RequestAt
<1>3. /\ Dispatch(q).code # 431 /\ Dispatch(q).by # "server"
      /\ \A r \in {Routes[j] : j \in DOMAIN Routes} :
           Dispatch(q).by = r.name => Matching(q) # {} /\ r = Routes[Best(Matching(q))]
  BY <1>2, DispatchIs
<1>4. ASSUME NEW r \in {Routes[j] : j \in DOMAIN Routes}, Dispatch(q).by = r.name
      PROVE  /\ OnPath(r, q.path.segs)
             /\ ~\E j \in Matching(q) :
                   Paths(Routes[j]) \subseteq Paths(r) /\ Paths(Routes[j]) # Paths(r)
  <2>1. Matching(q) # {} /\ r = Routes[Best(Matching(q))]
    BY <1>3, <1>4
  <2>2. PICK b \in Matching(q) : b = Best(Matching(q)) /\ IsBest(b, Matching(q))
    BY <2>1, MatchingIs, BestIs DEF IsBest
  <2>3. b \in DOMAIN Routes /\ r = Routes[b] /\ OnPath(r, q.path.segs)
    BY <2>1, <2>2, MatchingIs
  <2>4. ASSUME NEW j \in Matching(q), Paths(Routes[j]) \subseteq Paths(r), Paths(Routes[j]) # Paths(r)
        PROVE  FALSE
    <3>1. j \in DOMAIN Routes
      BY MatchingIs
    <3>2. Score(Routes[j]) > Score(Routes[b])
      BY <2>3, <2>4, <3>1, RoutesAssumption
    <3>3. Score(Routes[j]) \in Nat /\ Score(Routes[b]) \in Nat
      BY <2>3, <3>1, ScoreIs
    <3>4. Score(Routes[j]) < Score(Routes[b]) \/ Score(Routes[j]) = Score(Routes[b])
      BY <2>2 DEF IsBest
    <3> QED
      BY <3>2, <3>3, <3>4
  <2> QED
    BY <2>3, <2>4
<1>5. PICK d : d = Dispatch(q)
  OBVIOUS
<1> QED
  BY <1>1, <1>3, <1>4, <1>5 DEF RightAnswer

-----------------------------------------------------------------------------
(* Each step keeps the invariant.                                          *)

\* What the invariant says in numbers.
LEMMA Numbers ==
  ASSUME ConnInv
  PROVE  /\ script \in Scripts /\ IsSequence(sent) /\ AnswersRight
         /\ Count \in Nat /\ Current \in 1..(Count + 1) /\ Before(Current) \in Nat
         /\ got \in Nat /\ sends \in Nat /\ got <= sends /\ sends <= Before(Count + 1)
         /\ Chunk \in Nat \ {0} /\ MaxHeader \in Nat /\ Chunk <= MaxHeader
<1>1. script \in Scripts /\ IsSequence(sent) /\ AnswersRight
      /\ got \in Nat /\ sends \in Nat /\ got <= sends /\ sends <= Before(Count + 1)
  BY DEF ConnInv, ConnTypes, Count
<1>2. Count \in Nat /\ Len(sent) \in Nat /\ Len(sent) <= Count
  BY <1>1, RequestAt, SentIs DEF AnswersRight
<1>3. Current \in 1..(Count + 1)
  BY <1>2 DEF Current
<1>4. Before(Current) \in Nat
  BY <1>1, <1>3, RequestAt
<1> QED
  BY <1>1, <1>2, <1>3, <1>4, ConnectionAssumption

LEMMA HeldBackStays ==
  ASSUME HeldBack, script' = script, got' = got, invited \subseteq invited'
  PROVE  HeldBack'
BY SameStream, Zenon DEF HeldBack

LEMMA HeldBackGrows ==
  ASSUME script \in Scripts, sends \in Nat, script' = script, invited' = invited, got' \in Nat, got' <= Available
  PROVE  HeldBack'
<1>1. ASSUME NEW k \in Held PROVE got' <= HeadEnd(k)
  <2>1. HeadEnd(k) \in Nat
    BY RequestAt DEF Held
  <2>2. Available \in Nat /\ Available <= HeadEnd(k)
    BY AvailableIs
  <2> QED
    BY <2>1, <2>2
<1> QED
  BY <1>1, SameStream, Zenon DEF HeldBack, Held

LEMMA TopKeeps ==
  ASSUME ConnInv, Top
  PROVE  ConnInv'
<1>1. /\ script' = script /\ sends' = sends /\ quitting' = quitting /\ got' = got /\ buffer' = buffer
      /\ invited' = invited /\ sent' = sent /\ broken' = broken
      /\ pc = "top" /\ pc' = IF quitting THEN "closed" ELSE "head"
  BY DEF Top, Stays, Unanswered
<1>2. IsSequence(sent') /\ AnswersRight' /\ AllKept' /\ Current' = Current /\ Count' = Count
  BY <1>1, NothingAdded DEF ConnInv, Reading
<1>3. ConnTypes'
  BY <1>1, SameStream DEF ConnInv, ConnTypes, Count
<1>4. Reading'
  BY <1>1, <1>2, SameStream DEF ConnInv, Reading
<1>5. ReadingBody' /\ Serving'
  BY <1>1 DEF ReadingBody, Serving
<1>6. HeldBack'
  BY <1>1, HeldBackStays DEF ConnInv
<1>7. NoneForgotten'
  BY <1>1 DEF NoneForgotten
<1> QED
  BY <1>2, <1>3, <1>4, <1>5, <1>6, <1>7 DEF ConnInv

LEMMA StopKeeps ==
  ASSUME ConnInv, Stop
  PROVE  ConnInv'
<1>1. UNCHANGED <<script, sends, got, pc, buffer, body, number, invited, sent, broken>> /\ quitting' = TRUE
  BY DEF Stop
<1>2. NoneForgotten'
  BY <1>1 DEF NoneForgotten
<1>3. IsSequence(sent') /\ AllRight' /\ CloseAnnounced'
  <2>1. AllRight /\ CloseAnnounced
    BY AnswersOneByOne DEF ConnInv
  <2>2. \A i : RightAnswer(sent[i], i) => RightAnswer(sent[i], i)'
    BY <1>1, JudgementStays
  <2>3. AllRight'
    BY <1>1, <2>1, <2>2, SameStream DEF AllRight
  <2>4. CloseAnnounced'
    BY <1>1, <2>1 DEF CloseAnnounced
  <2> QED
    BY <1>1, <2>3, <2>4 DEF ConnInv
<1>4. AnswersRight'
  BY <1>3, AnswersOneByOne
<1>5. ConnTypes'
  BY <1>1, SameStream DEF ConnInv, ConnTypes, Count
<1>6. Current' = Current /\ Count' = Count /\ (AllKept' <=> AllKept) /\ (Accepted' <=> Accepted)
  BY <1>1, SameStream DEF Current, Count, AllKept, Accepted
<1>7. Reading'
  BY <1>1, <1>6, SameStream DEF ConnInv, Reading
<1>8. ReadingBody'
  BY <1>1, <1>6, SameStream DEF ConnInv, ReadingBody, Missing
<1>9. Serving'
  BY <1>1, <1>6, SameStream DEF ConnInv, Serving
<1>10. HeldBack'
  BY <1>1, HeldBackStays DEF ConnInv
<1> QED
  BY <1>2, <1>3, <1>4, <1>5, <1>7, <1>8, <1>9, <1>10 DEF ConnInv

LEMMA RecvHeadKeeps ==
  ASSUME ConnInv, RecvHead
  PROVE  ConnInv'
<1>1. /\ script \in Scripts /\ IsSequence(sent) /\ AnswersRight
      /\ Count \in Nat /\ Current \in 1..(Count + 1) /\ Before(Current) \in Nat
      /\ got \in Nat /\ sends \in Nat /\ got <= sends /\ sends <= Before(Count + 1)
      /\ Chunk \in Nat \ {0} /\ MaxHeader \in Nat /\ Chunk <= MaxHeader
  BY Numbers
<1>2. /\ pc = "head" /\ Ends(buffer) = {} /\ body' = body /\ number' = number
      /\ script' = script /\ sends' = sends /\ quitting' = quitting /\ invited' = invited
  BY DEF RecvHead, Stays, Unanswered
<1>3. PICK n \in 1..Chunk : got + n <= Available /\ got' = got + n /\ buffer' = buffer \o Span(got, got + n)
  BY DEF RecvHead, Piece
<1>4. /\ AllKept /\ Before(Current) <= got /\ buffer = Span(Before(Current), got)
      /\ Current <= Count =>
           IF got < HeadEnd(Current) THEN got <= Before(Current) + MaxHeader
           ELSE got <= HeadEnd(Current) + Chunk /\ script[Current].size <= MaxHeader + Chunk
  BY <1>2 DEF ConnInv, Reading
<1>5. got' \in Nat /\ got < got' /\ got' <= got + Chunk /\ got' <= Available /\ got' <= sends
  <2>1. Available \in Nat /\ Available <= sends
    BY <1>1, AvailableIs
  <2> QED
    BY <1>1, <1>3, <2>1
<1>6. buffer' = Span(Before(Current), got')
  <2>1. got <= got' /\ got + n = got'
    BY <1>1, <1>3, <1>5
  <2>2. Span(Before(Current), got) \o Span(got, got') = Span(Before(Current), got')
    BY <1>1, <1>4, <1>5, <2>1, SpanJoined
  <2> QED
    BY <1>3, <1>4, <2>1, <2>2
<1>7. Current \in 1..Count
  <2>1. Current # Count + 1
    <3>1. SUFFICES ASSUME Current = Count + 1 PROVE FALSE
      OBVIOUS
    <3>2. Before(Count + 1) = Before(Current)
      BY <3>1
    <3> QED
      BY <1>1, <1>4, <1>5, <3>2
  <2> QED
    BY <1>1, <2>1
<1>8. /\ HeadEnd(Current) \in Nat /\ HeadEnd(Current) = Before(Current) + script[Current].size
      /\ script[Current].size \in Nat
  BY <1>1, <1>7, RequestAt
<1>9. got < HeadEnd(Current)
  <2>1. ~(HeadEnd(Current) <= got)
    BY <1>1, <1>2, <1>4, <1>7, HeadFound
  <2> QED
    BY <1>1, <1>8, <2>1
<1>10. HeldBack'
  BY <1>1, <1>2, <1>5, HeldBackGrows
<1>11. Ends(buffer') = {} => got' < HeadEnd(Current)
  <2>1. Before(Current) <= got'
    BY <1>1, <1>4, <1>5
  <2>2. HeadEnd(Current) <= got' => Ends(buffer') # {}
    BY <1>1, <1>5, <1>6, <1>7, <2>1, HeadFound
  <2> QED
    BY <1>5, <1>8, <2>2
<1>12. TooLong(buffer') <=> got' - Before(Current) > MaxHeader
  <2>1. Len(buffer') = got' - Before(Current)
    <3>1. Before(Current) <= got'
      BY <1>1, <1>4, <1>5
    <3> QED
      BY <1>1, <1>5, <1>6, <3>1, SpanIs
  <2> QED
    BY <2>1 DEF TooLong
<1>13. CASE Ends(buffer') = {} /\ TooLong(buffer')
  <2>1. Refuse(431)
    BY <1>13 DEF RecvHead
  <2>2. script[Current].size > MaxHeader
    BY <1>1, <1>5, <1>8, <1>11, <1>12, <1>13
  <2> QED
    BY <1>2, <1>5, <1>7, <1>10, <2>1, <2>2, Refused
<1>14. CASE ~(Ends(buffer') = {} /\ TooLong(buffer'))
  <2>1. pc' = pc /\ sent' = sent /\ broken' = broken
    BY <1>14 DEF RecvHead, Unanswered
  <2>2. IsSequence(sent') /\ AnswersRight' /\ AllKept' /\ Current' = Current /\ Count' = Count
    BY <1>1, <1>2, <1>4, <2>1, NothingAdded
  <2>3. /\ Before(Current) <= got'
        /\ IF got' < HeadEnd(Current) THEN got' <= Before(Current) + MaxHeader
           ELSE got' <= HeadEnd(Current) + Chunk /\ script[Current].size <= MaxHeader + Chunk
    <3>1. got <= Before(Current) + MaxHeader
      BY <1>4, <1>7, <1>9
    <3>2. CASE got' < HeadEnd(Current)
      <4>1. Ends(buffer') = {}
        <5>1. Before(Current) <= got'
          BY <1>1, <1>4, <1>5
        <5>2. Ends(buffer') # {} => HeadEnd(Current) <= got'
          BY <1>1, <1>5, <1>6, <5>1, HeadFound
        <5> QED
          BY <1>5, <1>8, <3>2, <5>2
      <4> QED
        BY <1>1, <1>4, <1>5, <1>12, <1>14, <3>2, <4>1
    <3>3. CASE ~(got' < HeadEnd(Current))
      BY <1>1, <1>4, <1>5, <1>8, <1>9, <3>1, <3>3
    <3> QED
      BY <3>2, <3>3
  <2>4. Reading'
    <3>1. Before(Current)' = Before(Current) /\ HeadEnd(Current)' = HeadEnd(Current)
          /\ script'[Current'].size = script[Current].size
      BY <1>2, <2>2, SameStream
    <3> QED
      BY <1>6, <2>2, <2>3, <3>1 DEF Reading
  <2>5. ConnTypes'
    BY <1>1, <1>2, <1>5, <2>1, SameStream DEF ConnTypes, Count
  <2>6. ReadingBody' /\ Serving' /\ NoneForgotten'
    BY <1>2, <2>1 DEF ReadingBody, Serving, NoneForgotten
  <2> QED
    BY <1>10, <2>2, <2>4, <2>5, <2>6 DEF ConnInv
<1> QED
  BY <1>13, <1>14

LEMMA HeadTimeoutKeeps ==
  ASSUME ConnInv, HeadTimeout
  PROVE  ConnInv'
<1>1. /\ script \in Scripts /\ IsSequence(sent) /\ AnswersRight
      /\ Count \in Nat /\ Current \in 1..(Count + 1) /\ Before(Current) \in Nat
      /\ got \in Nat /\ sends \in Nat /\ got <= sends /\ sends <= Before(Count + 1)
  BY Numbers
<1>2. /\ pc = "head" /\ got' = got /\ buffer' = buffer /\ body' = body /\ number' = number
      /\ script' = script /\ sends' = sends /\ quitting' = quitting /\ invited' = invited
  BY DEF HeadTimeout, Stays
<1>3. AllKept /\ Before(Current) <= got /\ buffer = Span(Before(Current), got)
  BY <1>2 DEF ConnInv, Reading
<1>4. HeldBack'
  BY <1>2, HeldBackStays DEF ConnInv
<1>5. CASE buffer = <<>>
  <2>1. pc' = "closed" /\ sent' = sent /\ broken' = broken
    BY <1>5 DEF HeadTimeout
  <2>2. IsSequence(sent') /\ AnswersRight' /\ AllKept' /\ Current' = Current /\ Count' = Count
    BY <1>1, <1>2, <1>3, <2>1, NothingAdded
  <2>3. Before(Current) = got
    BY <1>1, <1>3, <1>5, SpanNotEmpty
  <2>4. Len(sent) = Count \/ got < Before(Len(sent) + 2)
    <3>1. CASE Current = Count + 1
      <4>1. Len(sent) \in Nat /\ Current = Len(sent) + 1
        BY <1>1, SentIs
      <4> QED
        BY <1>1, <3>1, <4>1
    <3>2. CASE Current \in 1..Count
      <4>1. Before(Current) < HeadEnd(Current) /\ HeadEnd(Current) <= Before(Current + 1)
            /\ HeadEnd(Current) \in Nat
        BY <1>1, <3>2, RequestAt
      <4>2. Before(Current + 1) \in Nat
        <5>1. Current + 1 \in 1..(Count + 1)
          BY <1>1, <3>2
        <5> QED
          BY <1>1, <5>1, RequestAt
      <4>3. Current + 1 = Len(sent) + 2
        BY <1>1, SentIs
      <4> QED
        BY <1>1, <2>3, <4>1, <4>2, <4>3
    <3> QED
      BY <1>1, <3>1, <3>2
  <2>5. NoneForgotten'
    BY <1>2, <2>1, <2>4, SameStream DEF NoneForgotten, Count
  <2>6. ConnTypes'
    BY <1>1, <1>2, <2>1, SameStream DEF ConnTypes, Count
  <2>7. Reading' /\ ReadingBody' /\ Serving'
    BY <2>1 DEF Reading, ReadingBody, Serving
  <2> QED
    BY <1>4, <2>2, <2>5, <2>6, <2>7 DEF ConnInv
<1>6. CASE buffer # <<>>
  <2>1. Refuse(408)
    BY <1>6 DEF HeadTimeout
  <2>2. got # Before(Current)
    BY <1>1, <1>3, <1>6, SpanEmpty
  <2>3. Current <= Count
    <3>1. SUFFICES ASSUME Current = Count + 1 PROVE FALSE
      BY <1>1
    <3>2. Before(Count + 1) = Before(Current)
      BY <3>1
    <3> QED
      BY <1>1, <1>3, <2>2, <3>2
  <2> QED
    BY <1>1, <1>2, <1>4, <2>1, <2>3, Refused
<1> QED
  BY <1>5, <1>6

LEMMA HeadClosedKeeps ==
  ASSUME ConnInv, HeadClosed
  PROVE  ConnInv'
<1>1. /\ pc = "head" /\ pc' = "closed" /\ broken' = TRUE /\ got' = got /\ invited' = invited /\ sent' = sent
      /\ script' = script /\ sends' = sends /\ quitting' = quitting
  BY DEF HeadClosed, Stays
<1>2. IsSequence(sent') /\ AnswersRight'
  BY <1>1, NothingAdded DEF ConnInv, Reading
<1>3. ConnTypes'
  BY <1>1, SameStream DEF ConnInv, ConnTypes, Count
<1>4. Reading' /\ ReadingBody' /\ Serving' /\ NoneForgotten'
  BY <1>1 DEF Reading, ReadingBody, Serving, NoneForgotten
<1>5. HeldBack'
  BY <1>1, HeldBackStays DEF ConnInv
<1> QED
  BY <1>2, <1>3, <1>4, <1>5 DEF ConnInv

LEMMA ParseHeadKeeps ==
  ASSUME ConnInv, ParseHead
  PROVE  ConnInv'
<1> DEFINE c == Current
           q == script[Current]
           rest == Span(HeadEnd(Current), got)
<1>1. /\ script \in Scripts /\ IsSequence(sent) /\ AnswersRight
      /\ Count \in Nat /\ Current \in 1..(Count + 1) /\ Before(Current) \in Nat
      /\ got \in Nat /\ sends \in Nat /\ got <= sends /\ sends <= Before(Count + 1)
      /\ Chunk \in Nat \ {0} /\ MaxHeader \in Nat /\ Chunk <= MaxHeader
  BY Numbers
<1>2. /\ pc = "head" /\ Ends(buffer) # {} /\ got' = got
      /\ script' = script /\ sends' = sends /\ quitting' = quitting
  BY DEF ParseHead, Stays
<1>3. /\ AllKept /\ Before(Current) <= got /\ buffer = Span(Before(Current), got)
      /\ Current <= Count =>
           IF got < HeadEnd(Current) THEN got <= Before(Current) + MaxHeader
           ELSE got <= HeadEnd(Current) + Chunk /\ script[Current].size <= MaxHeader + Chunk
  BY <1>2 DEF ConnInv, Reading
<1>4. Current <= Count /\ HeadEnd(Current) <= got /\ Min(Ends(buffer)) = script[Current].size
  BY <1>1, <1>2, <1>3, HeadFound
<1>5. Current \in 1..Count
  BY <1>1, <1>4
<1>6. /\ HeadEnd(Current) \in Nat /\ HeadEnd(Current) = Before(Current) + script[Current].size
      /\ script[Current].size \in Nat /\ ContentLength(script[Current]) \in Int
      /\ Before(Current + 1) = HeadEnd(Current) + (IF ContentLength(script[Current]) > 0
                                                   THEN ContentLength(script[Current]) ELSE 0)
  BY <1>1, <1>5, RequestAt
<1>7. /\ SubSeq(buffer, 1, script[Current].size) = Span(Before(Current), HeadEnd(Current))
      /\ SubSeq(buffer, script[Current].size + 1, Len(buffer)) = rest
  <2>1. Before(Current) + script[Current].size <= got
    BY <1>4, <1>6
  <2>2. /\ SubSeq(Span(Before(Current), got), 1, script[Current].size)
             = Span(Before(Current), Before(Current) + script[Current].size)
        /\ SubSeq(Span(Before(Current), got), script[Current].size + 1, Len(Span(Before(Current), got)))
             = Span(Before(Current) + script[Current].size, got)
    <3>1. PICK a \in Nat, m \in Nat : a = Before(Current) /\ m = script[Current].size
      BY <1>1, <1>6
    <3>2. a + m <= got
      BY <2>1, <3>1
    <3>3. /\ SubSeq(Span(a, got), 1, m) = Span(a, a + m)
          /\ SubSeq(Span(a, got), m + 1, Len(Span(a, got))) = Span(a + m, got)
      BY <1>1, <3>2, SpanCut
    <3> QED
      BY <3>1, <3>3
  <2> QED
    BY <1>3, <1>6, <2>2
<1>8. Parsed(Span(Before(Current), HeadEnd(Current))) = {Current}
  BY <1>1, <1>5, HeadParsed
<1>9. /\ number' = Current /\ body' = rest
      /\ \/ \E code \in {400, 501, 413} : Refuse(code) /\ invited' = invited
         \/ /\ pc' = "body" /\ sent' = sent /\ broken' = broken
            /\ ContentLength(script[Current]) >= 0
            /\ invited' = IF Invites(script[Current], rest) THEN invited \cup {Current} ELSE invited
  <2> HIDE DEF rest
  <2>1. \E k \in {Current} :
           /\ number' = k /\ body' = rest
           /\ IF {Current} = {} \/ ~WellFormed(script[k]) \/ ContentLength(script[k]) < 0
              THEN Refuse(400) /\ UNCHANGED invited
              ELSE IF Chunked(script[k]) THEN Refuse(501) /\ UNCHANGED invited
              ELSE IF ContentLength(script[k]) > MaxBody THEN Refuse(413) /\ UNCHANGED invited
              ELSE /\ pc' = "body"
                   /\ invited' = IF Invites(script[k], rest) THEN invited \cup {k} ELSE invited
                   /\ UNCHANGED <<sent, broken>>
    BY <1>4, <1>7, <1>8 DEF ParseHead
  <2>2. \/ \E code \in {400, 501, 413} : Refuse(code) /\ invited' = invited
        \/ /\ pc' = "body" /\ sent' = sent /\ broken' = broken
           /\ ~(ContentLength(script[Current]) < 0)
           /\ invited' = IF Invites(script[Current], rest) THEN invited \cup {Current} ELSE invited
    BY <2>1
  <2> QED
    BY <1>6, <2>1, <2>2
<1>10. HeldBack'
  BY <1>2, <1>9, HeldBackStays DEF ConnInv
<1>11. CASE \E code \in {400, 501, 413} : Refuse(code) /\ invited' = invited
  <2>1. PICK code \in {400, 501, 413} : Refuse(code)
    BY <1>11
  <2>2. code # 431
    OBVIOUS
  <2> QED
    BY <1>1, <1>2, <1>4, <1>10, <2>1, <2>2, Refused
<1>12. CASE /\ pc' = "body" /\ sent' = sent /\ broken' = broken
            /\ ContentLength(script[Current]) >= 0
            /\ invited' = IF Invites(script[Current], rest) THEN invited \cup {Current} ELSE invited
  <2>1. IsSequence(sent') /\ AnswersRight' /\ AllKept' /\ Current' = Current /\ Count' = Count
    BY <1>1, <1>2, <1>3, <1>12, NothingAdded
  <2>2. ConnTypes'
    BY <1>1, <1>2, <1>12, SameStream DEF ConnTypes, Count
  <2>3. Reading' /\ Serving' /\ NoneForgotten'
    BY <1>12 DEF Reading, Serving, NoneForgotten
  <2>4. script[Current].size <= MaxHeader + Chunk /\ got <= Before(Current + 1) + Chunk
    <3>1. got <= HeadEnd(Current) + Chunk /\ script[Current].size <= MaxHeader + Chunk
      BY <1>1, <1>3, <1>4, <1>6
    <3> QED
      BY <1>1, <1>6, <3>1
  <2>5. Missing' /\ Expects(script[Current]) => Current \in invited'
    <3>1. Missing' <=> Len(rest) < ContentLength(script[Current])
      BY <1>2, <1>9 DEF Missing
    <3>2. Len(rest) = got - HeadEnd(Current)
      BY <1>1, <1>4, <1>6, SpanIs
    <3> HIDE DEF rest
    <3> QED
      BY <1>1, <1>6, <1>12, <3>1, <3>2 DEF Invites
  <2>6. ReadingBody'
    <3>1. /\ HeadEnd(number)' = HeadEnd(Current) /\ Before(number + 1)' = Before(Current + 1)
          /\ script'[number'] = script[Current]
      BY <1>2, <1>9, SameStream
    <3>2. Accepted'
      BY <1>4, <1>9, <1>12, <2>1, <2>4, <3>1 DEF Accepted
    <3> QED
      BY <1>2, <1>4, <1>9, <2>4, <2>5, <3>1, <3>2 DEF ReadingBody
  <2> QED
    BY <1>10, <2>1, <2>2, <2>3, <2>6 DEF ConnInv
<1> QED
  BY <1>9, <1>11, <1>12

LEMMA RecvBodyKeeps ==
  ASSUME ConnInv, RecvBody
  PROVE  ConnInv'
<1>1. /\ script \in Scripts /\ IsSequence(sent) /\ AnswersRight
      /\ Count \in Nat /\ Current \in 1..(Count + 1) /\ got \in Nat /\ sends \in Nat /\ got <= sends
      /\ Chunk \in Nat \ {0}
  BY Numbers
<1>2. /\ pc = "body" /\ Missing /\ pc' = pc /\ number' = number
      /\ script' = script /\ sends' = sends /\ quitting' = quitting
      /\ invited' = invited /\ sent' = sent /\ broken' = broken
  BY DEF RecvBody, Stays, Unanswered
<1>3. PICK n \in 1..Chunk : got + n <= Available /\ got' = got + n /\ body' = body \o Span(got, got + n)
  BY DEF RecvBody, Piece
<1>4. /\ Accepted /\ HeadEnd(number) <= got /\ body = Span(HeadEnd(number), got)
      /\ (Expects(script[number]) => number \in invited)
  BY <1>2 DEF ConnInv, ReadingBody
<1>5. AllKept /\ number \in 1..Count
  BY <1>1, <1>4 DEF Accepted
<1>6. /\ HeadEnd(number) \in Nat /\ ContentLength(script[number]) \in Int
      /\ Before(number + 1) = HeadEnd(number) + (IF ContentLength(script[number]) > 0
                                                 THEN ContentLength(script[number]) ELSE 0)
  BY <1>1, <1>5, RequestAt
<1>7. got' \in Nat /\ got < got' /\ got' <= got + Chunk /\ got' <= Available /\ got' <= sends
  <2>1. Available \in Nat /\ Available <= sends
    BY <1>1, AvailableIs
  <2> QED
    BY <1>1, <1>3, <2>1
<1>8. body' = Span(HeadEnd(number), got')
  <2>1. got <= got' /\ got + n = got'
    BY <1>1, <1>3, <1>7
  <2>2. Span(HeadEnd(number), got) \o Span(got, got') = Span(HeadEnd(number), got')
    BY <1>1, <1>4, <1>6, <1>7, <2>1, SpanJoined
  <2> QED
    BY <1>3, <1>4, <2>1, <2>2
<1>9. got' <= Before(number + 1) + Chunk
  <2>1. Len(body) = got - HeadEnd(number)
    BY <1>1, <1>4, <1>6, SpanIs
  <2>2. got - HeadEnd(number) < ContentLength(script[number])
    BY <1>2, <2>1 DEF Missing
  <2> QED
    BY <1>1, <1>6, <1>7, <2>2
<1>10. HeldBack'
  BY <1>1, <1>2, <1>7, HeldBackGrows
<1>11. IsSequence(sent') /\ AnswersRight' /\ AllKept' /\ Current' = Current /\ Count' = Count
  BY <1>1, <1>2, <1>5, NothingAdded
<1>12. ConnTypes'
  BY <1>1, <1>2, <1>7, SameStream DEF ConnInv, ConnTypes, Count
<1>13. Reading' /\ Serving' /\ NoneForgotten'
  BY <1>2 DEF Reading, Serving, NoneForgotten
<1>14. ReadingBody'
  <2>1. /\ HeadEnd(number)' = HeadEnd(number) /\ Before(number + 1)' = Before(number + 1)
        /\ script'[number'] = script[number]
    BY <1>2, SameStream
  <2>2. Accepted'
    BY <1>2, <1>4, <1>11, <2>1 DEF Accepted
  <2>3. HeadEnd(number) <= got'
    BY <1>1, <1>4, <1>6, <1>7
  <2> QED
    BY <1>2, <1>4, <1>8, <1>9, <2>1, <2>2, <2>3 DEF ReadingBody
<1> QED
  BY <1>10, <1>11, <1>12, <1>13, <1>14 DEF ConnInv

LEMMA BodyRefused ==
  ASSUME ConnInv, BodyTimeout \/ BodyClosed
  PROVE  ConnInv'
<1>1. got \in Nat /\ got <= sends /\ Current <= Count
  BY Numbers DEF BodyTimeout, BodyClosed, ConnInv, ReadingBody, Accepted
<1>2. /\ pc = "body" /\ got' = got /\ invited' = invited
      /\ script' = script /\ sends' = sends /\ quitting' = quitting
  BY DEF BodyTimeout, BodyClosed, Stays
<1>3. HeldBack'
  BY <1>2, HeldBackStays DEF ConnInv
<1>4. PICK code \in {408, 400} : Refuse(code)
  BY DEF BodyTimeout, BodyClosed
<1>5. code # 431
  BY <1>4
<1> QED
  BY <1>1, <1>2, <1>3, <1>4, <1>5, Refused

LEMMA BodyReadKeeps ==
  ASSUME ConnInv, BodyRead
  PROVE  ConnInv'
<1>1. /\ script \in Scripts /\ IsSequence(sent) /\ AnswersRight
      /\ Count \in Nat /\ Current \in 1..(Count + 1) /\ got \in Nat /\ sends \in Nat /\ got <= sends
      /\ Chunk \in Nat \ {0}
  BY Numbers
<1>2. /\ pc = "body" /\ ~Missing /\ pc' = "serve" /\ number' = number /\ got' = got
      /\ script' = script /\ sends' = sends /\ quitting' = quitting
      /\ invited' = invited /\ sent' = sent /\ broken' = broken
  BY DEF BodyRead, Stays, Unanswered
<1>3. /\ Accepted /\ HeadEnd(number) <= got /\ body = Span(HeadEnd(number), got)
      /\ got <= Before(number + 1) + Chunk
  BY <1>2 DEF ConnInv, ReadingBody
<1>4. AllKept /\ number \in 1..Count /\ ContentLength(script[number]) >= 0
  BY <1>1, <1>3 DEF Accepted
<1>5. PICK length \in Nat : length = ContentLength(script[number])
  <2>1. ContentLength(script[number]) \in Int
    BY <1>1, <1>4, RequestAt
  <2> QED
    BY <1>4, <2>1
<1>6. HeadEnd(number) \in Nat /\ Before(number + 1) = HeadEnd(number) + length
  BY <1>1, <1>4, <1>5, RequestAt
<1>7. HeadEnd(number) + length <= got
  <2>1. Len(body) = got - HeadEnd(number)
    BY <1>1, <1>3, <1>6, SpanIs
  <2>2. ~(got - HeadEnd(number) < length)
    BY <1>2, <1>5, <2>1 DEF Missing
  <2> QED
    BY <1>1, <1>6, <2>2
<1>8. /\ body' = Span(HeadEnd(number), Before(number + 1))
      /\ buffer' = Span(Before(number + 1), got)
  <2>1. body' = SubSeq(body, 1, length) /\ buffer' = SubSeq(body, length + 1, Len(body))
    BY <1>5 DEF BodyRead, Cut, Leftover
  <2>2. /\ SubSeq(Span(HeadEnd(number), got), 1, length) = Span(HeadEnd(number), HeadEnd(number) + length)
        /\ SubSeq(Span(HeadEnd(number), got), length + 1, Len(Span(HeadEnd(number), got)))
             = Span(HeadEnd(number) + length, got)
    BY <1>1, <1>6, <1>7, SpanCut
  <2> QED
    BY <1>3, <1>6, <2>1, <2>2
<1>9. HeldBack'
  BY <1>2, HeldBackStays DEF ConnInv
<1>10. IsSequence(sent') /\ AnswersRight' /\ AllKept' /\ Current' = Current /\ Count' = Count
  BY <1>1, <1>2, <1>4, NothingAdded
<1>11. ConnTypes'
  BY <1>1, <1>2, SameStream DEF ConnInv, ConnTypes, Count
<1>12. Reading' /\ ReadingBody' /\ NoneForgotten'
  BY <1>2 DEF Reading, ReadingBody, NoneForgotten
<1>13. Serving'
  <2>1. /\ HeadEnd(number)' = HeadEnd(number) /\ Before(number + 1)' = Before(number + 1)
        /\ script'[number'] = script[number]
    BY <1>2, SameStream
  <2>2. Accepted'
    BY <1>2, <1>3, <1>10, <2>1 DEF Accepted
  <2>3. Before(number + 1) <= got
    BY <1>6, <1>7
  <2> QED
    BY <1>2, <1>3, <1>8, <2>1, <2>2, <2>3 DEF Serving
<1> QED
  BY <1>9, <1>10, <1>11, <1>12, <1>13 DEF ConnInv

\* A request that is served is the one in turn, and was read whole.
LEMMA Served ==
  ASSUME ConnInv, pc = "serve"
  PROVE  /\ AllKept /\ number = Current /\ number \in 1..Count /\ Taken = Bytes(number)
         /\ script[number].size <= MaxHeader + Chunk
         /\ Before(number + 1) \in Nat /\ Before(number + 1) <= got
         /\ buffer = Span(Before(number + 1), got) /\ got <= Before(number + 1) + Chunk
<1>1. /\ script \in Scripts /\ Count \in Nat /\ Current \in 1..(Count + 1)
  BY Numbers
<1>2. /\ Accepted /\ body = Span(HeadEnd(number), Before(number + 1))
      /\ Before(number + 1) <= got /\ buffer = Span(Before(number + 1), got)
      /\ got <= Before(number + 1) + Chunk
  BY DEF ConnInv, Serving
<1>3. AllKept /\ number = Current /\ number \in 1..Count /\ script[number].size <= MaxHeader + Chunk
  BY <1>1, <1>2 DEF Accepted
<1>4. number \in 1..(Count + 1) /\ number + 1 \in 1..(Count + 1)
  BY <1>1, <1>3
<1>5. /\ Before(number) \in Nat /\ HeadEnd(number) \in Nat /\ Before(number + 1) \in Nat
      /\ Before(number) <= HeadEnd(number) /\ HeadEnd(number) <= Before(number + 1)
  <2>1. Before(number) \in Nat /\ Before(number + 1) \in Nat
    BY <1>1, <1>4, RequestAt
  <2>2. HeadEnd(number) \in Nat /\ Before(number) < HeadEnd(number) /\ HeadEnd(number) <= Before(number + 1)
    BY <1>1, <1>3, RequestAt
  <2> QED
    BY <2>1, <2>2
<1>6. Taken = Bytes(number)
  <2>1. Span(Before(number), HeadEnd(number)) \o Span(HeadEnd(number), Before(number + 1))
          = Span(Before(number), Before(number + 1))
    BY <1>5, SpanJoined
  <2> QED
    BY <1>2, <2>1 DEF Taken, Bytes
<1> QED
  BY <1>2, <1>3, <1>5, <1>6

\* An answer without a route is right for a request that was read whole.
LEMMA PlainRight ==
  ASSUME NEW code, code # 431, NEW by \in {"upgrade", "filter"}, NEW k,
         script[k].size <= MaxHeader + Chunk
  PROVE  RightAnswer([code |-> code, by |-> by, keep |-> FALSE, read |-> Bytes(k)], k)
<1>1. \A j \in DOMAIN Routes : Routes[j].name # by
  BY RoutesAssumption
<1> QED
  BY <1>1 DEF RightAnswer

LEMMA TakeSocketKeeps ==
  ASSUME ConnInv, TakeSocket
  PROVE  ConnInv'
<1>1. /\ script \in Scripts /\ IsSequence(sent) /\ AnswersRight
      /\ got \in Nat /\ sends \in Nat /\ got <= sends /\ Count \in Nat
  BY Numbers
<1>2. /\ pc = "serve" /\ got' = got /\ invited' = invited
      /\ script' = script /\ sends' = sends /\ quitting' = quitting
  BY DEF TakeSocket, Stays
<1>3. /\ AllKept /\ number = Current /\ number \in 1..Count /\ Taken = Bytes(number)
      /\ script[number].size <= MaxHeader + Chunk
  BY <1>2, Served
<1>4. Current <= Count /\ Taken = Bytes(Current) /\ script[Current].size <= MaxHeader + Chunk
  BY <1>1, <1>3
<1>5. /\ IsSequence(sent') /\ AnswersRight' /\ NoneForgotten'
      /\ pc' \in {"closed", "taken"}
  <2>1. ASSUME NEW code \in {404, 401, 400}, NEW by \in {"upgrade", "filter"},
               Respond(Answer(code, by), FALSE, Taken)
        PROVE  IsSequence(sent') /\ AnswersRight' /\ NoneForgotten' /\ pc' = "closed"
    <3>1. PICK a : a = Answer(code, by)
      OBVIOUS
    <3>2. a.code = code /\ a.by = by /\ code # 431
      BY <3>1 DEF Answer
    <3>3. RightAnswer([code |-> a.code, by |-> a.by, keep |-> FALSE, read |-> Taken], Current)
      <4>1. RightAnswer([code |-> code, by |-> by, keep |-> FALSE, read |-> Bytes(Current)], Current)
        BY <1>4, <3>2, PlainRight
      <4> QED
        BY <1>4, <3>2, <4>1
    <3>4. Respond(a, FALSE, Taken)
      BY <2>1, <3>1
    <3> QED
      BY <1>1, <1>2, <1>3, <1>4, <3>3, <3>4, Responded
  <2>0. PICK e : e = [code |-> 101, by |-> "upgrade", keep |-> FALSE, read |-> Taken]
    OBVIOUS
  <2>2. CASE pc' = "taken" /\ sent' = Append(sent, e)
    <3>1. RightAnswer(e, Current)
      <4>1. RightAnswer([code |-> 101, by |-> "upgrade", keep |-> FALSE, read |-> Bytes(Current)], Current)
        BY <1>4, PlainRight
      <4> QED
        BY <1>4, <2>0, <4>1
    <3>2. IsSequence(sent') /\ AnswersRight'
      BY <1>1, <1>2, <1>3, <1>4, <2>0, <2>2, <3>1, AnswerAdded
    <3> QED
      BY <2>2, <3>2 DEF NoneForgotten
  <2>3. CASE pc' = "closed" /\ broken' = TRUE /\ sent' = sent
    BY <1>1, <1>2, <1>3, <2>3, NothingAdded DEF NoneForgotten
  <2>4. CASE Respond(Answer(404, "upgrade"), FALSE, Taken)
    BY <2>1, <2>4
  <2>5. CASE Respond(Answer(401, "filter"), FALSE, Taken)
    BY <2>1, <2>5
  <2>6. CASE Respond(Answer(400, "upgrade"), FALSE, Taken)
    BY <2>1, <2>6
  <2>7. CASE script[number].path \notin Upgrades
    BY <2>4, <2>7, Zenon DEF TakeSocket
  <2>8. CASE script[number].path \in Upgrades /\ script[number].denied
    BY <2>5, <2>8, Zenon DEF TakeSocket
  <2>9. CASE script[number].path \in Upgrades /\ ~script[number].denied /\ script[number].fate # "ok"
    BY <2>6, <2>9, Zenon DEF TakeSocket
  <2>10. CASE script[number].path \in Upgrades /\ ~script[number].denied /\ script[number].fate = "ok"
    <3>1. \/ /\ pc' = "taken"
             /\ sent' = Append(sent, [code |-> 101, by |-> "upgrade", keep |-> FALSE, read |-> Taken])
          \/ pc' = "closed" /\ broken' = TRUE /\ sent' = sent
      BY <2>10, Zenon DEF TakeSocket
    <3>2. \/ pc' = "taken" /\ sent' = Append(sent, e)
          \/ pc' = "closed" /\ broken' = TRUE /\ sent' = sent
      BY <2>0, <3>1, Zenon
    <3> QED
      BY <2>2, <2>3, <3>2, Zenon
  <2> QED
    BY <2>7, <2>8, <2>9, <2>10, Zenon
<1>6. ConnTypes'
  BY <1>1, <1>2, <1>5, SameStream DEF ConnInv, ConnTypes, Count
<1>7. Reading' /\ ReadingBody' /\ Serving'
  BY <1>5 DEF Reading, ReadingBody, Serving
<1>8. HeldBack'
  BY <1>2, HeldBackStays DEF ConnInv
<1> QED
  BY <1>5, <1>6, <1>7, <1>8 DEF ConnInv

LEMMA ServeKeeps ==
  ASSUME ConnInv, Serve
  PROVE  ConnInv'
<1>1. /\ script \in Scripts /\ IsSequence(sent) /\ AnswersRight
      /\ got \in Nat /\ sends \in Nat /\ got <= sends /\ Count \in Nat
      /\ Chunk \in Nat \ {0} /\ MaxHeader \in Nat /\ Chunk <= MaxHeader
  BY Numbers
<1>2. /\ pc = "serve" /\ got' = got /\ invited' = invited /\ buffer' = buffer
      /\ script' = script /\ sends' = sends /\ quitting' = quitting
  BY DEF Serve, Stays
<1>3. /\ AllKept /\ number = Current /\ number \in 1..Count /\ Taken = Bytes(number)
      /\ script[number].size <= MaxHeader + Chunk
      /\ Before(number + 1) \in Nat /\ Before(number + 1) <= got
      /\ buffer = Span(Before(number + 1), got) /\ got <= Before(number + 1) + Chunk
  BY <1>2, Served
<1>4. Current <= Count
  BY <1>1, <1>3
<1>5. PICK keep \in BOOLEAN : Respond(Dispatch(script[number]), keep, Taken)
  <2>1. (KeepAlive(script[number]) /\ ~quitting) \in BOOLEAN
    BY DEF KeepAlive
  <2> QED
    BY <2>1 DEF Serve
<1>6. /\ IsSequence(sent') /\ AnswersRight' /\ NoneForgotten'
      /\ pc' \in {"top", "closed"}
      /\ pc' = "top" => keep /\ AllKept' /\ Current' = Current + 1
  <2>1. PICK a : a = Dispatch(script[number])
    OBVIOUS
  <2>2. RightAnswer([code |-> a.code, by |-> a.by, keep |-> keep, read |-> Taken], Current)
    BY <1>1, <1>3, <2>1, DispatchRight
  <2> QED
    BY <1>1, <1>2, <1>3, <1>4, <1>5, <2>1, <2>2, Responded
<1>7. ConnTypes'
  BY <1>1, <1>2, <1>6, SameStream DEF ConnInv, ConnTypes, Count
<1>8. ReadingBody' /\ Serving'
  BY <1>6 DEF ReadingBody, Serving
<1>9. HeldBack'
  BY <1>2, HeldBackStays DEF ConnInv
<1>10. CASE pc' = "closed"
  BY <1>6, <1>7, <1>8, <1>9, <1>10 DEF ConnInv, Reading
<1>11. CASE pc' = "top"
  <2>1. AllKept' /\ Current' = number + 1 /\ Count' = Count
    BY <1>2, <1>3, <1>6, <1>11, SameStream
  <2>2. /\ Before(Current)' = Before(number + 1) /\ HeadEnd(Current)' = HeadEnd(number + 1)
        /\ script'[Current'] = script[number + 1]
    BY <1>2, <2>1, SameStream
  <2>3. number + 1 <= Count =>
          IF got < HeadEnd(number + 1) THEN got <= Before(number + 1) + MaxHeader
          ELSE got <= HeadEnd(number + 1) + Chunk /\ script[number + 1].size <= MaxHeader + Chunk
    <3>1. SUFFICES ASSUME number + 1 <= Count
                   PROVE  IF got < HeadEnd(number + 1) THEN got <= Before(number + 1) + MaxHeader
                          ELSE got <= HeadEnd(number + 1) + Chunk /\ script[number + 1].size <= MaxHeader + Chunk
      OBVIOUS
    <3>2. number + 1 \in 1..Count
      BY <1>1, <1>3, <3>1
    <3>3. /\ HeadEnd(number + 1) \in Nat /\ script[number + 1].size \in Nat
          /\ HeadEnd(number + 1) = Before(number + 1) + script[number + 1].size
      BY <1>1, <3>2, RequestAt
    <3> QED
      BY <1>1, <1>3, <3>3
  <2>4. Reading'
    BY <1>2, <1>3, <2>1, <2>2, <2>3 DEF Reading
  <2> QED
    BY <1>6, <1>7, <1>8, <1>9, <2>4 DEF ConnInv
<1> QED
  BY <1>6, <1>10, <1>11

-----------------------------------------------------------------------------
LEMMA ConnInitInv ==
  ASSUME ConnInit
  PROVE  ConnInv
<1>1. /\ script \in Scripts /\ sends \in 0..Before(Count + 1) /\ got = 0 /\ pc = "top"
      /\ buffer = <<>> /\ sent = <<>>
  BY DEF ConnInit, Count
<1>2. Count \in Nat /\ Before(1) = 0 /\ Before(Count + 1) \in Nat
  <2>1. Count \in Nat /\ Before(1) = 0 /\ \A k \in 1..(Count + 1) : Before(k) \in Nat
    BY <1>1, RequestAt
  <2> QED
    BY <2>1
<1>3. IsSequence(sent) /\ Len(sent) = 0 /\ DOMAIN sent = {}
  <2>1. sent \in Seq({})
    BY <1>1
  <2> QED
    BY <1>1, <2>1 DEF IsSequence
<1>4. Current = 1
  BY <1>3 DEF Current
<1>5. ConnTypes
  BY <1>1, <1>2 DEF ConnTypes, Count
<1>6. AllKept /\ AnswersRight
  BY <1>2, <1>3 DEF AllKept, AnswersRight, RequestsReadWhole, HeadersBounded, CloseAnnounced, MostSpecificRoute
<1>7. Reading
  <2>1. buffer = Span(Before(Current), got)
    BY <1>1, <1>2, <1>4, SpanEmpty
  <2>2. Current <= Count => got < HeadEnd(Current) /\ got <= Before(Current) + MaxHeader
    <3>1. SUFFICES ASSUME Current <= Count PROVE got < HeadEnd(Current) /\ got <= Before(Current) + MaxHeader
      OBVIOUS
    <3>2. 1 \in 1..Count
      BY <1>2, <1>4, <3>1
    <3>3. Before(1) < HeadEnd(1)
      BY <1>1, <3>2, RequestAt
    <3> QED
      BY <1>1, <1>2, <1>4, <3>3, ConnectionAssumption
  <2> QED
    BY <1>1, <1>2, <1>4, <1>6, <2>1, <2>2 DEF Reading
<1>8. ReadingBody /\ Serving /\ NoneForgotten
  BY <1>1 DEF ReadingBody, Serving, NoneForgotten
<1>9. HeldBack
  <2>1. \A k \in DOMAIN script : got <= HeadEnd(k)
    BY <1>1, RequestAt
  <2> QED
    BY <2>1 DEF HeldBack
<1> QED
  BY <1>3, <1>5, <1>6, <1>7, <1>8, <1>9 DEF ConnInv

LEMMA ConnNextInv ==
  ASSUME ConnInv, ConnNext
  PROVE  ConnInv'
BY TopKeeps, StopKeeps, RecvHeadKeeps, HeadTimeoutKeeps, HeadClosedKeeps, ParseHeadKeeps, RecvBodyKeeps,
   BodyRefused, BodyReadKeeps, TakeSocketKeeps, ServeKeeps, Zenon DEF ConnNext, Handling

LEMMA ConnStutterInv ==
  ASSUME ConnInv, UNCHANGED connVars
  PROVE  ConnInv'
BY DEF connVars, ConnInv, ConnTypes, IsSequence, Reading, ReadingBody, Serving, Accepted, AllKept, HeldBack,
       AnswersRight, RequestsReadWhole, HeadersBounded, CloseAnnounced, MostSpecificRoute, NoneForgotten,
       Missing, Current, Count, Before, HeadEnd, Bytes

\* A client is not made to wait for what it was not asked for.
LEMMA ConnInvMeans ==
  ASSUME ConnInv
  PROVE  RequestsAnsweredAsSent
<1>1. ASSUME pc = "body", Missing, got < sends PROVE got < Available
  <2>1. /\ script \in Scripts /\ Count \in Nat /\ Current \in 1..(Count + 1) /\ got \in Nat /\ sends \in Nat
    BY Numbers
  <2>2. /\ Accepted /\ HeadEnd(number) <= got /\ body = Span(HeadEnd(number), got)
        /\ (Expects(script[number]) => number \in invited)
    BY <1>1 DEF ConnInv, ReadingBody
  <2>3. number \in 1..Count
    BY <2>1, <2>2 DEF Accepted
  <2>4. /\ HeadEnd(number) \in Nat /\ Before(number) < HeadEnd(number)
        /\ Before(number + 1) = HeadEnd(number) + (IF ContentLength(script[number]) > 0
                                                   THEN ContentLength(script[number]) ELSE 0)
        /\ ContentLength(script[number]) \in Int
    BY <2>1, <2>3, RequestAt
  <2>5. got < Before(number + 1)
    <3>1. Len(body) = got - HeadEnd(number)
      BY <2>1, <2>2, <2>4, SpanIs
    <3>2. got - HeadEnd(number) < ContentLength(script[number])
      BY <1>1, <3>1 DEF Missing
    <3> QED
      BY <2>1, <2>4, <3>2
  <2>6. ASSUME NEW k \in Held PROVE got < HeadEnd(k)
    <3>1. k \in 1..Count
      BY <2>1, RequestAt DEF Held
    <3>2. k # number
      BY <2>2 DEF Held
    <3>3. got <= HeadEnd(k)
      BY DEF Held, HeldBack, ConnInv
    <3>4. HeadEnd(k) <= Before(number) \/ Before(number + 1) < HeadEnd(k)
      BY <2>1, <2>3, <3>1, <3>2, HeadsApart
    <3>5. HeadEnd(k) \in Nat /\ Before(number) \in Nat /\ Before(number + 1) \in Nat
      <4>1. number \in 1..(Count + 1) /\ number + 1 \in 1..(Count + 1)
        BY <2>1, <2>3
      <4> QED
        BY <2>1, <3>1, <4>1, RequestAt
    <3> QED
      BY <2>1, <2>2, <2>4, <2>5, <3>3, <3>4, <3>5
  <2> QED
    BY <1>1, <2>1, <2>6, AvailableIs
<1>2. NoMutualWait
  BY <1>1 DEF NoMutualWait
<1> QED
  BY <1>2 DEF ConnInv, AnswersRight, RequestsAnsweredAsSent

\* The inductive invariant of a connection.
THEOREM ConnectionInvariant == ConnSpec => []ConnInv
<1>1. ConnInv /\ [ConnNext]_connVars => ConnInv'
  BY ConnNextInv, ConnStutterInv
<1> QED
  BY ConnInitInv, <1>1, PTL DEF ConnSpec

\* Whatever a client sends and however it is cut into pieces, its requests are read
\* whole and answered in turn (readRequest, handleConnection and matchRoute).
THEOREM ConnectionAnswersAsSent == ConnSpec => []RequestsAnsweredAsSent
BY ConnectionInvariant, ConnInvMeans, PTL
=============================================================================
