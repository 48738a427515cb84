------------------------- MODULE ProcessRunnerProofs -------------------------
(***************************************************************************)
(* What holds of ProcessRunner for every set of threads, every capacity of *)
(* the pipes and any number of calls: answers go to their own requests,    *)
(* and an object that is let go leaves nothing behind.                     *)
(*                                                                         *)
(* The answers: an id is given out once, so everything that carries an id, *)
(* from the request on its way to the answer nobody waits for any more,    *)
(* agrees on the request (Agree).  No action but the writing ones brings   *)
(* anything new into this traffic, and they bring one message with the     *)
(* next id.                                                                *)
(***************************************************************************)
EXTENDS ProcessRunner, TLAPS

Ops == {"none", "ping", "steps", "status", "step", "hook", "stop"}
Requests == [op : Ops, from : Callers, call : Nat]
Msg == [id : Nat, req : Requests]

Pcs == {"idle", "alive", "probe", "check", "write", "blocked", "wait", "answered",
        "stop", "kill", "close", "terminate", "stopped", "join"}
Row == [op : Ops, pc : Pcs, id : Nat, answer : Requests]

TypeOK ==
  /\ stdin \in Seq(Msg) /\ stdout \in Seq(Msg) /\ doing \in Msg
  /\ responses \in [DOMAIN responses -> Requests] /\ DOMAIN responses \subseteq Nat
  /\ nextId \in Nat \ {0}
  /\ calls \in [Callers -> Row]
  /\ used \in [Callers -> Nat]

\* What carries an id; no message counts as one with id 0.
OnItsWay == {stdin[i] : i \in DOMAIN stdin} \cup {stdout[i] : i \in DOMAIN stdout} \cup {doing, NoMessage}
Filed    == {[id |-> i, req |-> responses[i]] : i \in DOMAIN responses}
Awaited  == {Message(c, calls[c].id) : c \in {d \in Callers : calls[d].pc \in {"wait", "blocked"}}}
Traffic  == OnItsWay \cup Filed \cup Awaited

Agree ==
  /\ \A m \in Traffic : m.id < nextId
  /\ \A m, n \in Traffic : m.id = n.id => m.req = n.req

Inv == TypeOK /\ Agree /\ AnswerMatches

-----------------------------------------------------------------------------
LEMMA NoRequestIs == NoRequest \in Requests
BY DEF NoRequest, Requests, Ops, Callers

LEMMA RequestIs ==
  ASSUME TypeOK, NEW c \in Callers
  PROVE  Request(c) \in Requests
BY DEF TypeOK, Request, Requests, Row

LEMMA Typing ==
  ASSUME TypeOK
  PROVE  Traffic \subseteq Msg
<1>1. OnItsWay \subseteq Msg
  <2>1. NoMessage \in Msg
    BY NoRequestIs DEF NoMessage, Msg
  <2> QED BY <2>1 DEF TypeOK, OnItsWay
<1>2. Filed \subseteq Msg
  BY DEF TypeOK, Filed, Msg
<1>3. Awaited \subseteq Msg
  BY RequestIs DEF TypeOK, Awaited, Message, Msg, Row
<1> QED BY <1>1, <1>2, <1>3 DEF Traffic

\* Traffic that only gets less keeps agreeing.
LEMMA Less ==
  ASSUME TypeOK, Agree, Traffic' \subseteq Traffic, nextId' \in Nat, nextId <= nextId'
  PROVE  Agree'
<1>1. nextId \in Nat /\ \A m \in Traffic : m.id \in Nat
  BY Typing DEF TypeOK, Msg
<1>2. ASSUME NEW m \in Traffic' PROVE m.id < nextId'
  BY <1>1, <1>2 DEF Agree
<1>3. ASSUME NEW m \in Traffic', NEW n \in Traffic', m.id = n.id PROVE m.req = n.req
  BY <1>3 DEF Agree
<1> QED BY <1>2, <1>3 DEF Agree

\* One message more, with the next id, agrees with all the others.
LEMMA OneMore ==
  ASSUME TypeOK, Agree, NEW new, new.id = nextId, Traffic' \subseteq Traffic \cup {new},
         nextId' = nextId + 1
  PROVE  Agree'
<1>1. nextId \in Nat /\ \A m \in Traffic : m.id \in Nat /\ m.id < nextId
  BY Typing DEF TypeOK, Msg, Agree
<1>2. ASSUME NEW m \in Traffic' PROVE m.id < nextId'
  BY <1>1, <1>2
<1>3. ASSUME NEW m \in Traffic', NEW n \in Traffic', m.id = n.id PROVE m.req = n.req
  <2>1. CASE m \in Traffic /\ n \in Traffic
    BY <1>3, <2>1 DEF Agree
  <2>2. CASE m = new \/ n = new
    BY <1>1, <1>3, <2>2
  <2> QED BY <2>1, <2>2
<1> QED BY <1>2, <1>3 DEF Agree

\* A step that leaves the messages alone and lets no call wait or answer that
\* did not before.
LEMMA CallsOnly ==
  ASSUME Inv, UNCHANGED <<stdin, stdout, doing, responses, nextId>>,
         calls' \in [Callers -> Row], used' \in [Callers -> Nat],
         \A c \in Callers : \/ calls'[c] = calls[c] /\ used'[c] = used[c]
                           \/ calls'[c].pc \notin {"wait", "blocked", "answered"}
  PROVE  Inv'
<1>1. TypeOK'
  BY DEF Inv, TypeOK
<1>2. OnItsWay' = OnItsWay /\ Filed' = Filed
  BY DEF OnItsWay, Filed
<1>3. Awaited' \subseteq Awaited
  BY DEF Awaited, Message, Request
<1>4. Agree'
  BY <1>2, <1>3, Less DEF Traffic, Inv, TypeOK
<1>5. AnswerMatches'
  BY DEF AnswerMatches, Request, Inv
<1> QED BY <1>1, <1>4, <1>5 DEF Inv

LEMMA AfterIsRow ==
  ASSUME NEW c \in Callers, NEW outcome
  PROVE  After(c, outcome) \in Row /\ After(c, outcome).pc \in {"alive", "stop", "idle"}
BY NoRequestIs DEF After, Idle, Row, Ops, Pcs

\* A call that returns, and a call that goes on to a place where it does not wait.
LEMMA Returning ==
  ASSUME Inv, NEW c \in Callers, NEW outcome, Return(c, outcome),
         UNCHANGED <<stdin, stdout, doing, responses, nextId, used>>
  PROVE  Inv'
<1>1. calls \in [Callers -> Row] /\ used \in [Callers -> Nat] /\ calls' = [calls EXCEPT ![c] = After(c, outcome)]
  BY DEF Return, Inv, TypeOK
<1>2. calls' \in [Callers -> Row]
  BY <1>1, AfterIsRow
<1>3. \A d \in Callers : calls'[d] = calls[d] \/ calls'[d].pc \notin {"wait", "blocked", "answered"}
  BY <1>1, AfterIsRow
<1> QED BY <1>1, <1>2, <1>3, CallsOnly

LEMMA GoingOn ==
  ASSUME Inv, NEW c \in Callers, NEW pc \in Pcs, pc \notin {"wait", "blocked", "answered"},
         Goto(c, pc) \/ calls' = [calls EXCEPT ![c] = Idle] \/ UNCHANGED calls,
         UNCHANGED <<stdin, stdout, doing, responses, nextId, used>>
  PROVE  Inv'
<1>1. calls \in [Callers -> Row] /\ used \in [Callers -> Nat] /\ Idle \in Row /\ Idle.pc = "idle"
  BY NoRequestIs DEF Inv, TypeOK, Idle, Row, Ops, Pcs
<1>2. calls' \in [Callers -> Row]
  BY <1>1 DEF Goto, Row
<1>3. \A d \in Callers : calls'[d] = calls[d] \/ calls'[d].pc \notin {"wait", "blocked", "answered"}
  BY <1>1 DEF Goto, Row
<1> QED BY <1>1, <1>2, <1>3, CallsOnly

LEMMA Beginning ==
  ASSUME Inv, NEW c \in Callers, NEW op \in Ops, NEW pc \in {"check", "stop", "alive"}, Begin(c, op, pc),
         used' \in [Callers -> Nat], \A d \in Callers : d # c => used'[d] = used[d],
         UNCHANGED <<stdin, stdout, doing, responses, nextId>>
  PROVE  Inv'
<1>1. calls \in [Callers -> Row]
  BY DEF Inv, TypeOK
<1>2. [Idle EXCEPT !.op = op, !.pc = pc] \in Row /\ [Idle EXCEPT !.op = op, !.pc = pc].pc = pc
  BY NoRequestIs DEF Idle, Row, Ops, Pcs
<1>3. calls' \in [Callers -> Row]
  BY <1>1, <1>2 DEF Begin
<1>4. \A d \in Callers : \/ calls'[d] = calls[d] /\ used'[d] = used[d]
                         \/ calls'[d].pc \notin {"wait", "blocked", "answered"}
  BY <1>1, <1>2 DEF Begin
<1> QED BY <1>3, <1>4, CallsOnly

-----------------------------------------------------------------------------
(* The steps that move messages.                                           *)

LEMMA WriteInv ==
  ASSUME Inv, NEW c \in Callers, Write(c)
  PROVE  Inv'
<1>0. /\ calls \in [Callers -> Row] /\ calls[c] \in Row /\ nextId \in Nat \ {0}
      /\ nextId' = nextId + 1 /\ UNCHANGED <<stdout, doing, responses, used>>
  BY DEF Inv, TypeOK, Write, child
<1>1. CASE UNCHANGED stdin /\ Return(c, "none")
  <2>1. calls' = [calls EXCEPT ![c] = After(c, "none")]
    BY <1>1 DEF Return
  <2>2. TypeOK'
    BY <1>0, <1>1, <2>1, AfterIsRow DEF Inv, TypeOK
  <2>3. OnItsWay' = OnItsWay /\ Filed' = Filed
    BY <1>0, <1>1 DEF OnItsWay, Filed
  <2>4. Awaited' \subseteq Awaited
    BY <1>0, <2>1, AfterIsRow DEF Awaited, Message, Request
  <2>5. Agree'
    BY <1>0, <2>3, <2>4, Less DEF Traffic, Inv
  <2>6. AnswerMatches'
    BY <1>0, <2>1, AfterIsRow DEF AnswerMatches, Request, Inv
  <2> QED BY <2>2, <2>5, <2>6 DEF Inv
<1>2. CASE \E pc \in {"wait", "blocked"} :
             /\ calls' = [calls EXCEPT ![c].pc = pc, ![c].id = nextId]
             /\ stdin' = Append(stdin, Message(c, nextId)) \/ UNCHANGED stdin
  <2>1. PICK pc \in {"wait", "blocked"} :
             /\ calls' = [calls EXCEPT ![c].pc = pc, ![c].id = nextId]
             /\ stdin' = Append(stdin, Message(c, nextId)) \/ UNCHANGED stdin
    BY <1>2
  <2> DEFINE new == Message(c, nextId)
  <2>2. new \in Msg /\ new.id = nextId
    BY <1>0, RequestIs DEF Message, Msg, Inv
  <2>3. stdin \in Seq(Msg) /\ stdin' \in Seq(Msg)
    <3> HIDE DEF new
    <3>1. stdin \in Seq(Msg) /\ (stdin' = Append(stdin, new) \/ stdin' = stdin)
      BY <2>1 DEF Inv, TypeOK, new
    <3> QED BY <3>1, <2>2
  <2>4. calls' \in [Callers -> Row]
    BY <1>0, <2>1 DEF Row, Pcs
  <2>5. TypeOK'
    BY <1>0, <2>3, <2>4 DEF Inv, TypeOK
  <2>6. {stdin'[i] : i \in DOMAIN stdin'} \subseteq {stdin[i] : i \in DOMAIN stdin} \cup {new}
    BY <2>1, <2>2, <2>3
  <2>7. OnItsWay' \subseteq OnItsWay \cup {new} /\ Filed' = Filed
    BY <1>0, <2>6 DEF OnItsWay, Filed
  <2>8. Awaited' \subseteq Awaited \cup {new}
    BY <1>0, <2>1 DEF Awaited, Message, Request, Row
  <2>9. Agree'
    <3> HIDE DEF new
    <3> QED BY <1>0, <2>2, <2>7, <2>8, OneMore DEF Traffic, Inv
  <2>10. AnswerMatches'
    BY <1>0, <2>1 DEF AnswerMatches, Request, Inv, Row
  <2> QED BY <2>5, <2>9, <2>10 DEF Inv
<1> QED
  BY <1>1, <1>2 DEF Write, pipes, NewId

LEMMA WriteResumesInv ==
  ASSUME Inv, NEW c \in Callers, WriteResumes(c)
  PROVE  Inv'
<1>0. /\ calls \in [Callers -> Row] /\ calls[c] \in Row /\ calls[c].pc = "blocked"
      /\ UNCHANGED <<stdout, doing, responses, nextId, used>>
  BY DEF Inv, TypeOK, WriteResumes, child
<1>1. CASE Return(c, "none") /\ UNCHANGED stdin
  BY <1>0, <1>1, Returning
<1>2. CASE stdin' = Append(stdin, Message(c, calls[c].id)) /\ Goto(c, "wait")
  <2> DEFINE m == Message(c, calls[c].id)
  <2>1. m \in Awaited /\ m \in Msg
    BY <1>0, RequestIs DEF Awaited, Message, Msg, Row, Inv
  <2>2. stdin \in Seq(Msg) /\ stdin' \in Seq(Msg)
    BY <1>2, <2>1 DEF Inv, TypeOK
  <2>3. calls' \in [Callers -> Row]
    BY <1>0, <1>2 DEF Row, Pcs, Goto
  <2>4. TypeOK'
    BY <1>0, <2>2, <2>3 DEF Inv, TypeOK
  <2>5. {stdin'[i] : i \in DOMAIN stdin'} \subseteq {stdin[i] : i \in DOMAIN stdin} \cup {m}
    BY <1>2, <2>1, <2>2
  <2>6. OnItsWay' \subseteq OnItsWay \cup {m} /\ Filed' = Filed
    BY <1>0, <2>5 DEF OnItsWay, Filed
  <2>7. Awaited' \subseteq Awaited
    BY <1>0, <1>2 DEF Awaited, Message, Request, Goto, Row
  <2>8. Traffic' \subseteq Traffic /\ nextId' = nextId /\ nextId \in Nat
    <3> HIDE DEF m
    <3> QED BY <1>0, <2>1, <2>6, <2>7 DEF Traffic, Inv, TypeOK
  <2>9. Agree'
    BY <2>8, Less DEF Inv
  <2>10. AnswerMatches'
    BY <1>0, <1>2 DEF AnswerMatches, Request, Inv, Goto, Row
  <2> QED BY <2>4, <2>9, <2>10 DEF Inv
<1> QED BY <1>1, <1>2 DEF WriteResumes

\* The answer filed under the id of a request is the answer to it.
LEMMA TakeAnswerInv ==
  ASSUME Inv, NEW c \in Callers, TakeAnswer(c)
  PROVE  Inv'
<1>0. /\ calls \in [Callers -> Row] /\ calls[c] \in Row /\ calls[c].pc = "wait"
      /\ calls[c].id \in DOMAIN responses
      /\ calls' = [calls EXCEPT ![c].pc = "answered", ![c].answer = responses[calls[c].id]]
      /\ responses' = [i \in DOMAIN responses \ {calls[c].id} |-> responses[i]]
      /\ UNCHANGED <<stdin, stdout, doing, nextId, used>>
  BY DEF Inv, TypeOK, TakeAnswer, Answered, Without, child, pipes
<1>1. responses[calls[c].id] \in Requests
  BY <1>0 DEF Inv, TypeOK
<1>2. calls' \in [Callers -> Row]
  BY <1>0, <1>1 DEF Row, Pcs
<1>3. responses' \in [DOMAIN responses' -> Requests] /\ DOMAIN responses' \subseteq Nat
  BY <1>0 DEF Inv, TypeOK
<1>4. TypeOK'
  BY <1>0, <1>2, <1>3 DEF Inv, TypeOK
<1>5. OnItsWay' = OnItsWay /\ Filed' \subseteq Filed
  BY <1>0 DEF OnItsWay, Filed
<1>6. Awaited' \subseteq Awaited
  BY <1>0 DEF Awaited, Message, Request, Row
<1>7. Agree'
  BY <1>0, <1>5, <1>6, Less DEF Traffic, Inv, TypeOK
<1>8. responses[calls[c].id] = Request(c)
  <2>1. [id |-> calls[c].id, req |-> responses[calls[c].id]] \in Traffic
    BY <1>0 DEF Traffic, Filed
  <2>2. [id |-> calls[c].id, req |-> Request(c)] \in Traffic
    BY <1>0 DEF Traffic, Awaited, Message
  <2> QED BY <2>1, <2>2 DEF Inv, Agree
<1>9. AnswerMatches'
  BY <1>0, <1>8 DEF AnswerMatches, Request, Inv, Row
<1> QED BY <1>4, <1>7, <1>9 DEF Inv

LEMMA SendKillInv ==
  ASSUME Inv, SendKill
  PROVE  Inv'
<1>0. /\ calls \in [Callers -> Row] /\ Owner \in Callers /\ Goto(Owner, "close")
      /\ nextId \in Nat \ {0} /\ nextId' = nextId + 1
      /\ UNCHANGED <<stdout, doing, responses, used>>
      /\ UNCHANGED stdin \/ stdin' = Append(stdin, Kill)
  BY DEF Inv, TypeOK, SendKill, child, Callers
<1>1. Kill \in Msg /\ Kill.id = nextId
  BY <1>0, RequestIs DEF Kill, Message, Msg, Inv
<1>2. stdin \in Seq(Msg) /\ stdin' \in Seq(Msg)
  <2>1. stdin \in Seq(Msg)
    BY DEF Inv, TypeOK
  <2> QED BY <1>0, <1>1, <2>1
<1>3. calls' \in [Callers -> Row]
  BY <1>0 DEF Row, Pcs, Goto
<1>4. TypeOK'
  BY <1>0, <1>2, <1>3 DEF Inv, TypeOK
<1>5. {stdin'[i] : i \in DOMAIN stdin'} \subseteq {stdin[i] : i \in DOMAIN stdin} \cup {Kill}
  BY <1>0, <1>1, <1>2
<1>6. OnItsWay' \subseteq OnItsWay \cup {Kill} /\ Filed' = Filed
  BY <1>0, <1>5 DEF OnItsWay, Filed
<1>7. Awaited' \subseteq Awaited
  BY <1>0 DEF Awaited, Message, Request, Goto, Row
<1>8. Agree'
  BY <1>0, <1>1, <1>6, <1>7, OneMore DEF Traffic, Inv
<1>9. AnswerMatches'
  BY <1>0 DEF AnswerMatches, Request, Inv, Goto, Row
<1> QED BY <1>4, <1>8, <1>9 DEF Inv

LEMMA ReadAnswerInv ==
  ASSUME Inv, ReadAnswer
  PROVE  Inv'
<1> DEFINE m == Head(stdout)
<1>0. /\ stdout \in Seq(Msg) /\ stdout # <<>> /\ stdout' = Tail(stdout)
      /\ responses' = [i \in DOMAIN responses \cup {m.id} |-> IF i = m.id THEN m.req ELSE responses[i]]
      /\ UNCHANGED <<stdin, doing, nextId, calls, used>>
  BY DEF Inv, TypeOK, ReadAnswer, pipes
<1>1. m \in Msg /\ m \in {stdout[i] : i \in DOMAIN stdout} /\ stdout' \in Seq(Msg)
  BY <1>0
<1>2. {stdout'[i] : i \in DOMAIN stdout'} \subseteq {stdout[i] : i \in DOMAIN stdout}
  BY <1>0
<1> HIDE DEF m
<1>3. responses' \in [DOMAIN responses' -> Requests] /\ DOMAIN responses' \subseteq Nat
  BY <1>0, <1>1 DEF Inv, TypeOK, Msg
<1>4. TypeOK'
  BY <1>0, <1>1, <1>3 DEF Inv, TypeOK
<1>5. OnItsWay' \subseteq OnItsWay /\ m \in OnItsWay
  BY <1>0, <1>1, <1>2 DEF OnItsWay
<1>6. Filed' \subseteq Filed \cup {m}
  BY <1>0, <1>1 DEF Filed, Msg
<1>7. Awaited' = Awaited
  BY <1>0 DEF Awaited, Message, Request
<1>8. Agree'
  BY <1>0, <1>5, <1>6, <1>7, Less DEF Traffic, Inv, TypeOK
<1>9. AnswerMatches'
  BY <1>0 DEF AnswerMatches, Request, Inv
<1> QED BY <1>4, <1>8, <1>9 DEF Inv

LEMMA ProgramReadsInv ==
  ASSUME Inv, ProgramReads
  PROVE  Inv'
<1>0. /\ stdin \in Seq(Msg) /\ stdin # <<>> /\ stdin' = Tail(stdin)
      /\ doing' = Head(stdin) \/ UNCHANGED doing
      /\ UNCHANGED <<stdout, responses, nextId, calls, used>>
  BY DEF Inv, TypeOK, ProgramReads, object
<1>1. Head(stdin) \in Msg /\ Head(stdin) \in {stdin[i] : i \in DOMAIN stdin} /\ stdin' \in Seq(Msg)
  BY <1>0
<1>2. {stdin'[i] : i \in DOMAIN stdin'} \subseteq {stdin[i] : i \in DOMAIN stdin}
  BY <1>0
<1>3. TypeOK'
  BY <1>0, <1>1 DEF Inv, TypeOK
<1>4. OnItsWay' \subseteq OnItsWay /\ Filed' = Filed /\ Awaited' = Awaited
  BY <1>0, <1>1, <1>2 DEF OnItsWay, Filed, Awaited, Message, Request
<1>5. Agree'
  BY <1>0, <1>4, Less DEF Traffic, Inv, TypeOK
<1>6. AnswerMatches'
  BY <1>0 DEF AnswerMatches, Request, Inv
<1> QED BY <1>3, <1>5, <1>6 DEF Inv

LEMMA ProgramAnswersInv ==
  ASSUME Inv, ProgramAnswers
  PROVE  Inv'
<1>0. /\ stdout \in Seq(Msg) /\ doing \in Msg /\ stdout' = Append(stdout, doing) /\ doing' = NoMessage
      /\ UNCHANGED <<stdin, responses, nextId, calls, used>>
  BY DEF Inv, TypeOK, ProgramAnswers, OurSide, pipes, object
<1>1. NoMessage \in Msg /\ stdout' \in Seq(Msg)
  BY <1>0, NoRequestIs DEF NoMessage, Msg
<1>2. TypeOK'
  BY <1>0, <1>1 DEF Inv, TypeOK
<1>3. {stdout'[i] : i \in DOMAIN stdout'} \subseteq {stdout[i] : i \in DOMAIN stdout} \cup {doing}
  BY <1>0
<1>4. OnItsWay' \subseteq OnItsWay /\ Filed' = Filed /\ Awaited' = Awaited
  BY <1>0, <1>3 DEF OnItsWay, Filed, Awaited, Message, Request
<1>5. Agree'
  BY <1>0, <1>4, Less DEF Traffic, Inv, TypeOK
<1>6. AnswerMatches'
  BY <1>0 DEF AnswerMatches, Request, Inv
<1> QED BY <1>2, <1>5, <1>6 DEF Inv

-----------------------------------------------------------------------------
(* The other steps, and all of them.                                       *)

LEMMA InitInv == Init => Inv
<1> SUFFICES ASSUME Init PROVE Inv
  OBVIOUS
<1>1. TypeOK
  BY NoRequestIs DEF Init, TypeOK, NoMessage, Idle, Row, Pcs, Ops, Msg
<1>2. OnItsWay = {NoMessage} /\ Filed = {} /\ Awaited = {}
  BY DEF Init, OnItsWay, Filed, Awaited, Idle
<1>3. Agree
  BY <1>2 DEF Agree, Traffic, NoMessage, Init
<1>4. AnswerMatches
  BY DEF AnswerMatches, Init, Idle
<1> QED BY <1>1, <1>3, <1>4 DEF Inv

LEMMA CallInv ==
  ASSUME Inv, NEW c \in Callers, NEW op \in {"step", "hook", "stop", "steps", "status"}, Call(c, op)
  PROVE  Inv'
<1> DEFINE pc == IF op = "stop" THEN "stop" ELSE "alive"
<1>1. /\ Begin(c, op, pc) /\ UNCHANGED <<stdin, stdout, doing, responses, nextId>>
      /\ used' = [used EXCEPT ![c] = @ + 1]
  BY DEF Call, child, pipes
<1>2. used' \in [Callers -> Nat] /\ \A d \in Callers : d # c => used'[d] = used[d]
  BY <1>1 DEF Inv, TypeOK
<1>3. op \in Ops /\ pc \in {"check", "stop", "alive"}
  BY DEF Ops
<1> QED BY <1>1, <1>2, <1>3, Beginning

LEMMA StepInv ==
  ASSUME Inv, NEW c \in Callers, Step(c)
  PROVE  Inv'
<1>1. CASE LookAlive(c)
  <2>1. /\ Goto(c, "probe") \/ calls' = [calls EXCEPT ![c] = Idle]
        /\ UNCHANGED <<stdin, stdout, doing, responses, nextId, used>>
    BY <1>1 DEF LookAlive, child, pipes, object
  <2> QED BY <2>1, GoingOn DEF Pcs
<1>2. CASE Probe(c)
  <2>1. /\ Goto(c, "check") \/ calls' = [calls EXCEPT ![c] = Idle]
        /\ UNCHANGED <<stdin, stdout, doing, responses, nextId, used>>
    BY <1>2 DEF Probe, pipes, object
  <2> QED BY <2>1, GoingOn DEF Pcs
<1>3. CASE CheckProcess(c)
  <2>1. /\ Goto(c, "write") \/ Return(c, "none")
        /\ UNCHANGED <<stdin, stdout, doing, responses, nextId, used>>
    BY <1>3 DEF CheckProcess, child, pipes
  <2>2. CASE Goto(c, "write")
    BY <2>1, <2>2, GoingOn DEF Pcs
  <2>3. CASE Return(c, "none")
    BY <2>1, <2>3, Returning
  <2> QED BY <2>1, <2>2, <2>3
<1>4. CASE AnswerUsed(c)
  <2>1. Return(c, "answer") /\ UNCHANGED <<stdin, stdout, doing, responses, nextId, used>>
    BY <1>4 DEF AnswerUsed, child, pipes
  <2> QED BY <2>1, Returning
<1>5. CASE GiveUp(c)
  <2>1. /\ Return(c, "none") \/ Return(c, "timeout")
        /\ UNCHANGED <<stdin, stdout, doing, responses, nextId, used>>
    BY <1>5 DEF GiveUp, child, pipes
  <2> QED BY <2>1, Returning
<1> QED BY <1>1, <1>2, <1>3, <1>4, <1>5, WriteInv, WriteResumesInv, TakeAnswerInv DEF Step

LEMMA StoppingInv ==
  ASSUME Inv, Stopping
  PROVE  Inv'
<1>0. Owner \in Callers
  BY DEF Callers
<1>1. CASE StopBegin
  <2>1. /\ Goto(Owner, "kill") \/ Goto(Owner, "close") \/ calls' = [calls EXCEPT ![Owner] = Idle]
        /\ UNCHANGED <<stdin, stdout, doing, responses, nextId, used>>
    BY <1>1 DEF StopBegin, pipes, object
  <2> QED BY <1>0, <2>1, GoingOn DEF Pcs
<1>2. CASE CloseStdin
  <2>1. Goto(Owner, "terminate") /\ UNCHANGED <<stdin, stdout, doing, responses, nextId, used>>
    BY <1>2 DEF CloseStdin, child, object
  <2> QED BY <1>0, <2>1, GoingOn DEF Pcs
<1>3. CASE Terminate
  <2>1. Goto(Owner, "stopped") /\ UNCHANGED <<stdin, stdout, doing, responses, nextId, used>>
    BY <1>3 DEF Terminate, pipes, object
  <2> QED BY <1>0, <2>1, GoingOn DEF Pcs
<1>4. CASE StopRunning
  <2>1. Goto(Owner, "join") /\ UNCHANGED <<stdin, stdout, doing, responses, nextId, used>>
    BY <1>4 DEF StopRunning, child, pipes
  <2> QED BY <1>0, <2>1, GoingOn DEF Pcs
<1>5. CASE Join
  <2>1. calls' = [calls EXCEPT ![Owner] = Idle] /\ UNCHANGED <<stdin, stdout, doing, responses, nextId, used>>
    BY <1>5 DEF Join, child, pipes
  <2> QED BY <1>0, <2>1, GoingOn DEF Pcs
<1> QED BY <1>1, <1>2, <1>3, <1>4, <1>5, SendKillInv DEF Stopping

\* Everything else leaves both the messages and the calls alone.
LEMMA NextInv == Inv /\ [Next]_vars => Inv'
<1> SUFFICES ASSUME Inv, [Next]_vars PROVE Inv'
  OBVIOUS
<1>0. /\ Owner \in Callers /\ "ping" \in Ops
      /\ calls \in [Callers -> Row] /\ used \in [Callers -> Nat]
  BY DEF Callers, Ops, Inv, TypeOK
<1>1. CASE Spawn
  <2>1. UNCHANGED <<stdin, stdout, doing, responses, nextId, used>> /\ (Begin(Owner, "ping", "check") \/ UNCHANGED calls)
    BY <1>1 DEF Spawn
  <2>2. CASE Begin(Owner, "ping", "check")
    BY <1>0, <2>1, <2>2, Beginning
  <2>3. CASE UNCHANGED calls
    BY <1>0, <2>1, <2>3, CallsOnly
  <2> QED BY <2>1, <2>2, <2>3
<1>2. CASE Publish \/ ReaderEnds \/ ProgramFails \/ ShellExits \/ UNCHANGED vars
  <2>1. UNCHANGED <<stdin, stdout, doing, responses, nextId, calls, used>>
    BY <1>2 DEF Publish, ReaderEnds, ProgramFails, ShellExits, OurSide, vars, child, pipes, object
  <2> QED BY <1>0, <2>1, CallsOnly
<1> QED
  BY <1>1, <1>2, CallInv, StepInv, StoppingInv, ReadAnswerInv, ProgramReadsInv, ProgramAnswersInv
     DEF Next, Reading, Child

\* In every reachable state the pipes hold messages, ids are numbers that have
\* been given out and calls are where request, isAlive and stop have them.
THEOREM RunnerTypeCorrect == Spec => []TypeOK
<1>1. Inv => TypeOK
  BY DEF Inv
<1> QED BY InitInv, NextInv, <1>1, PTL DEF Spec

\* A requester is given the answer to its own request, whatever answers of
\* requests that timed out before come in meanwhile, with any number of threads,
\* calls and messages in the pipes (request and readerLoop).
THEOREM RunnerAnswersMatch == Spec => []AnswerMatches
<1>1. Inv => AnswerMatches
  BY DEF Inv
<1> QED BY InitInv, NextInv, <1>1, PTL DEF Spec

-----------------------------------------------------------------------------
(* What stop leaves.  Only start brings anything to life, and it runs once; *)
(* the owner has killed the processes before it lets go of the object.     *)

Killed == program = "gone" /\ shell = "reaped"

EndSeen == reader = "ended" => ~running

Ended ==
  /\ phase = "new" => process = "null" /\ reader = "none" /\ calls[Owner].pc = "idle"
  /\ calls[Owner].pc \in {"stopped", "join"} => Killed
  /\ calls[Owner].pc = "join" => ~running
  /\ EndSeen /\ NothingLeft

LEMMA EndedInit == Init => Ended
BY DEF Init, Ended, EndSeen, NothingLeft, Idle, Callers

\* A step that starts nothing and leaves the owner out of the end of stop.
LEMMA EndedKept ==
  ASSUME Ended, UNCHANGED <<process, reader>>, running' => running, Killed => Killed',
         phase' = "new" => phase = "new" /\ calls'[Owner] = calls[Owner],
         calls'[Owner] = calls[Owner] \/ calls'[Owner].pc \notin {"stopped", "join"}
  PROVE  Ended'
BY DEF Ended, EndSeen, NothingLeft, Killed

LEMMA EndedStep ==
  ASSUME Inv, Ended, NEW c \in Callers, Step(c)
  PROVE  Ended'
<1>0. calls \in [Callers -> Row] /\ Owner \in Callers
  BY DEF Inv, TypeOK, Callers
<1>1. /\ calls[c].pc # "idle"
      /\ \/ calls' = [calls EXCEPT ![c] = Idle]
         \/ \E pc \in {"probe", "check", "write", "wait"} : calls' = [calls EXCEPT ![c].pc = pc]
         \/ \E outcome : Return(c, outcome)
         \/ \E pc \in {"wait", "blocked"} : \E id : calls' = [calls EXCEPT ![c].pc = pc, ![c].id = id]
         \/ \E answer : calls' = [calls EXCEPT ![c].pc = "answered", ![c].answer = answer]
  BY DEF Step, LookAlive, Probe, CheckProcess, Write, WriteResumes, TakeAnswer, AnswerUsed, GiveUp,
         Goto, Answered
<1>2. /\ \A d \in Callers : d # c => calls'[d] = calls[d]
      /\ calls'[c].pc \notin {"stopped", "join"}
  BY <1>0, <1>1, AfterIsRow DEF Return, Idle, Row
<1>3. UNCHANGED <<program, process, running, phase, reader>> /\ (shell = "reaped" => shell' = "reaped")
  BY DEF Step, LookAlive, Probe, CheckProcess, Write, WriteResumes, TakeAnswer, AnswerUsed, GiveUp,
         Reaped, child, pipes, object
<1> QED BY <1>0, <1>1, <1>2, <1>3, EndedKept DEF Ended, Killed

LEMMA EndedStopping ==
  ASSUME Inv, Ended, Stopping
  PROVE  Ended'
<1>0. calls \in [Callers -> Row] /\ Owner \in Callers
  BY DEF Inv, TypeOK, Callers
<1>1. CASE StopBegin \/ SendKill \/ CloseStdin
  <2>1. /\ calls[Owner].pc # "idle" /\ calls'[Owner].pc \in {"kill", "close", "terminate", "idle"}
        /\ UNCHANGED <<program, process, running, phase, reader>> /\ (shell = "reaped" => shell' = "reaped")
    BY <1>0, <1>1 DEF StopBegin, SendKill, CloseStdin, Goto, Idle, Row, Reaped, child, pipes, object
  <2> QED BY <2>1, EndedKept DEF Ended, Killed
<1>2. CASE Terminate
  <2>1. /\ calls[Owner].pc # "idle" /\ calls'[Owner].pc = "stopped" /\ Killed'
        /\ UNCHANGED <<process, running, phase, reader>>
    BY <1>0, <1>2 DEF Terminate, Killed, Goto, Row, object
  <2> QED BY <2>1 DEF Ended, EndSeen, NothingLeft, Killed
<1>3. CASE StopRunning
  <2>1. /\ calls[Owner].pc = "stopped" /\ calls'[Owner].pc = "join" /\ ~running'
        /\ UNCHANGED <<shell, program, process, phase, reader>>
    BY <1>0, <1>3 DEF StopRunning, Goto, Row, child
  <2> QED BY <2>1 DEF Ended, EndSeen, NothingLeft, Killed
<1>4. CASE Join
  <2>1. /\ calls[Owner].pc = "join" /\ calls'[Owner].pc = "idle" /\ reader = "ended"
        /\ UNCHANGED <<shell, program, running, phase, reader>>
    BY <1>0, <1>4 DEF Join, Idle, Row, child
  <2> QED BY <2>1 DEF Ended, EndSeen, NothingLeft, Killed
<1> QED BY <1>1, <1>2, <1>3, <1>4 DEF Stopping

LEMMA EndedNext == Inv /\ Ended /\ [Next]_vars => Ended'
<1> SUFFICES ASSUME Inv, Ended, [Next]_vars PROVE Ended'
  OBVIOUS
<1>0. calls \in [Callers -> Row] /\ Owner \in Callers
  BY DEF Inv, TypeOK, Callers
<1>1. CASE Spawn
  <2>1. phase = "new" /\ phase' # "new" /\ process' # "destroyed"
        /\ (calls'[Owner].pc = "check" \/ UNCHANGED calls)
        /\ (reader' = "reads" \/ UNCHANGED reader)
    BY <1>0, <1>1 DEF Spawn, Begin, Idle, Ended
  <2> QED BY <2>1 DEF Ended, EndSeen, NothingLeft
<1>2. ASSUME NEW c \in Callers, NEW op, Call(c, op) PROVE Ended'
  <2>1. phase' # "new" /\ UNCHANGED <<shell, program, process, running, reader>>
    BY <1>2 DEF Call, child
  <2>2. calls'[Owner] = calls[Owner] \/ calls'[Owner].pc \in {"stop", "alive"}
    BY <1>0, <1>2 DEF Call, Begin, Idle
  <2> QED BY <2>1, <2>2, EndedKept DEF Killed
<1>3. CASE ReaderEnds
  <2>1. reader = "reads" /\ ~running' /\ UNCHANGED <<shell, program, process, phase, calls>>
    BY <1>3 DEF ReaderEnds, child
  <2> QED BY <2>1 DEF Ended, EndSeen, NothingLeft, Killed
<1>4. CASE Publish \/ ReadAnswer \/ Child \/ UNCHANGED vars
  <2>1. /\ UNCHANGED <<process, running, reader, calls>> /\ (phase' = "new" => phase = "new")
        /\ (Killed => Killed')
    BY <1>4 DEF Publish, ReadAnswer, Child, ProgramReads, ProgramAnswers, ProgramFails, ShellExits,
                OurSide, Killed, vars, child, pipes, object
  <2> QED BY <2>1, EndedKept
<1> QED
  BY <1>1, <1>2, <1>3, <1>4, EndedStep, EndedStopping DEF Next, Reading

\* After its reader has ended a runner is not started, so nothing reads its
\* output or raises running_ again.
LEMMA StaysEnded ==
  ASSUME Inv, Ended, [Next]_vars, reader = "ended"
  PROVE  /\ reader' = "ended" /\ ~running'
         /\ DOMAIN responses' \subseteq DOMAIN responses
         /\ \A c \in Callers : calls[c].pc = "alive" => calls'[c].pc # "probe"
<1>0. ~running /\ phase # "new" /\ calls \in [Callers -> Row] /\ Owner \in Callers
  BY DEF Ended, EndSeen, Inv, TypeOK, Callers
<1>1. reader' = "ended" /\ ~running'
  <2>1. reader' = reader \/ reader' = "ended"
    BY <1>0 DEF Next, Spawn, Publish, Stopping, StopBegin, SendKill, CloseStdin, Terminate, StopRunning,
                Join, Reading, ReadAnswer, ReaderEnds, Child, ProgramReads, ProgramAnswers,
                ProgramFails, ShellExits, Step, LookAlive, Probe, CheckProcess, Write, WriteResumes,
                TakeAnswer, AnswerUsed, GiveUp, Call, OurSide, object, vars
  <2>2. Ended'
    BY EndedNext
  <2> QED BY <2>1, <2>2 DEF Ended, EndSeen
<1>2. DOMAIN responses' \subseteq DOMAIN responses
  BY <1>0 DEF Next, Spawn, Publish, Stopping, StopBegin, SendKill, CloseStdin, Terminate, StopRunning,
              Join, Reading, ReadAnswer, ReaderEnds, Child, ProgramReads, ProgramAnswers,
              ProgramFails, ShellExits, Step, LookAlive, Probe, CheckProcess, Write, WriteResumes,
              TakeAnswer, Without, AnswerUsed, GiveUp, Call, OurSide, object, vars
<1>3. ASSUME NEW c \in Callers, calls[c].pc = "alive"
      PROVE  calls'[c].pc # "probe"
  <2>1. CASE \E d \in Callers : Step(d)
    <3>1. PICK d \in Callers : Step(d)
      BY <2>1
    <3>2. CASE d # c
      <4>1. calls'[c] = calls[c]
        BY <1>0, <3>1, <3>2 DEF Step, LookAlive, Probe, CheckProcess, Write, WriteResumes, TakeAnswer,
                               AnswerUsed, GiveUp, Goto, Return
      <4> QED BY <1>3, <4>1
    <3>3. CASE d = c
      <4>1. LookAlive(c)
        BY <1>3, <3>1, <3>3 DEF Step, LookAlive, Probe, CheckProcess, Write, WriteResumes, TakeAnswer,
                               AnswerUsed, GiveUp, Answered
      <4> QED BY <1>0, <4>1 DEF LookAlive, Idle
    <3> QED BY <3>2, <3>3
  <2>2. CASE Stopping
    BY <1>0, <1>3, <2>2 DEF Stopping, StopBegin, SendKill, CloseStdin, Terminate, StopRunning, Join,
                            Goto, Idle
  <2>3. CASE \E d \in Callers, op \in {"step", "hook", "stop", "steps", "status"} : Call(d, op)
    BY <1>0, <1>3, <2>3 DEF Call, Begin, Idle
  <2>4. CASE Publish \/ Reading \/ Child \/ UNCHANGED vars
    <3>1. calls' = calls
      BY <2>4 DEF Publish, Reading, ReadAnswer, ReaderEnds, Child, ProgramReads, ProgramAnswers,
                  ProgramFails, ShellExits, OurSide, vars
    <3> QED BY <1>3, <3>1
  <2>5. ~Spawn
    BY <1>0 DEF Spawn
  <2> QED BY <2>1, <2>2, <2>3, <2>4, <2>5 DEF Next
<1> QED BY <1>1, <1>2, <1>3

\* Once the output of a runner has ended, no answer is filed any more and nobody
\* who asks after that is told that it is alive, for any number of threads and
\* calls (start, isAlive and readerLoop).
THEOREM RunnerDeathIsFinal == Spec => DeathIsFinal
<1>1. Inv /\ Ended /\ [Next]_vars =>
        [reader = "ended" =>
           /\ reader' = "ended" /\ ~running'
           /\ DOMAIN responses' \subseteq DOMAIN responses
           /\ \A c \in Callers : calls[c].pc = "alive" => calls'[c].pc # "probe"]_vars
  BY StaysEnded
<1> QED BY InitInv, NextInv, EndedInit, EndedNext, <1>1, PTL DEF Spec, DeathIsFinal

\* An object that was stopped leaves no process and no reader thread, whatever
\* the program did and whoever was asking meanwhile (stop and terminate).
THEOREM RunnerLeavesNothing == Spec => []NothingLeft
<1>1. Ended => NothingLeft
  BY DEF Ended
<1> QED BY InitInv, NextInv, EndedInit, EndedNext, <1>1, PTL DEF Spec

=============================================================================
