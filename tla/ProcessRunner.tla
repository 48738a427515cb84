--------------------------- MODULE ProcessRunner ----------------------------
(***************************************************************************)
(* One runner process and the object that talks to it                      *)
(* (src/src/runner/process_runner.cpp): requests go down the child's stdin *)
(* with an id, a reader thread files the answers of its stdout by id, and  *)
(* every requester waits for its own until a timeout.  The bridge gives    *)
(* the object to one owner, who starts it, executes steps and hooks and    *)
(* stops it; API threads look at it meanwhile and ask for its steps.       *)
(* One behaviour is the life of one object: the bridge makes a new one     *)
(* instead of starting it again.                                           *)
(***************************************************************************)
EXTENDS Naturals, Sequences, FiniteSets

CONSTANTS
  Owner, Clients,   \* the thread the bridge lets use the object, and the others
  PipeSize,         \* messages a pipe holds
  MaxCalls          \* bound: calls of each thread

ASSUME ProcessRunnerAssumption ==
  /\ Owner \notin Clients /\ IsFiniteSet(Clients)
  /\ PipeSize \in Nat \ {0} /\ MaxCalls \in [Clients \cup {Owner} -> Nat]

Callers == Clients \cup {Owner}

VARIABLES
  shell,      \* the direct child: "none", "runs", "zombie" or "reaped"
  program,    \* the runner that holds the pipes: "none", "up", "hung" or "gone"
  doing,      \* the message it works on, or NoMessage
  stdin, stdout, stdinOpen,
  process,    \* process_: "null", "live" or "destroyed"
  running,    \* running_
  phase,      \* "new", "starting", "shown" by the bridge, "withdrawn" or "failed"
  reader,     \* the reader thread: "none", "reads" or "ended"
  responses,  \* responses_: id -> the request it answers
  nextId,     \* nextId_
  stepsLoaded,\* stepsLoaded_
  calls,      \* per thread, what it is in the middle of
  used        \* calls each thread has made

child    == <<shell, program, doing, stdout>>
pipes    == <<stdin, stdinOpen>>
object   == <<process, running, phase, reader, responses, nextId, stepsLoaded>>
vars     == <<child, pipes, object, calls, used>>

NoRequest == [op |-> "none", from |-> Owner, call |-> 0]
NoMessage == [id |-> 0, req |-> NoRequest]
Idle      == [op |-> "none", pc |-> "idle", id |-> 0, answer |-> NoRequest]

Init ==
  /\ shell = "none" /\ program = "none" /\ doing = NoMessage
  /\ stdin = <<>> /\ stdout = <<>> /\ stdinOpen = FALSE
  /\ process = "null" /\ running = FALSE /\ phase = "new"
  /\ reader = "none"
  /\ responses = <<>>
  /\ nextId = 1
  /\ stepsLoaded = FALSE
  /\ calls = [c \in Callers |-> Idle]
  /\ used = [c \in Callers |-> 0]

Begin(c, op, pc) == calls' = [calls EXCEPT ![c] = [Idle EXCEPT !.op = op, !.pc = pc]]
Goto(c, pc)      == calls' = [calls EXCEPT ![c].pc = pc]

-----------------------------------------------------------------------------
(* start, and what a call is.                                              *)

\* start: the child runs with its pipes and reader, and the handshake begins; or
\* it cannot be started and the object stays without one.
Spawn ==
  /\ phase = "new"
  /\ \/ /\ phase' = "starting"
        /\ process' = "live"
        /\ shell' = "runs" /\ program' = "up" /\ stdinOpen' = TRUE
        /\ running' = TRUE
        /\ reader' = "reads"
        /\ Begin(Owner, "ping", "check")
     \/ /\ phase' = "failed"
        /\ UNCHANGED <<process, shell, program, stdinOpen, running, reader, calls>>
  /\ UNCHANGED <<doing, stdin, stdout, responses, nextId, stepsLoaded, used>>

\* The calls a thread may begin.  The owner stops the object when no step is
\* under way; a client needs the object the bridge shows.
Call(c, op) ==
  /\ calls[c] = Idle
  /\ used[c] < MaxCalls[c]
  /\ phase = "shown"
  /\ IF c = Owner THEN op \in {"step", "hook", "stop"} ELSE op \in {"steps", "status"}
  /\ op = "steps" => ~stepsLoaded
  /\ used' = [used EXCEPT ![c] = @ + 1]
  /\ phase' = IF op = "stop" THEN "withdrawn" ELSE phase
  /\ Begin(c, op, IF op = "stop" THEN "stop" ELSE "alive")
  /\ UNCHANGED <<child, pipes, process, running, reader, responses, nextId, stepsLoaded>>

\* isAlive: the flag and the pointer, then the process itself, which is reaped
\* if it is found dead; clients do so under no lock of this object and may find
\* the process destroyed since: undefined, taken to look like a dead process.
LookAlive(c) ==
  /\ calls[c].pc = "alive"
  /\ IF running /\ process = "live" THEN Goto(c, "probe")
                                    ELSE calls' = [calls EXCEPT ![c] = Idle]
  /\ UNCHANGED <<child, pipes, object, used>>

Reaped == IF shell = "zombie" THEN "reaped" ELSE shell

Probe(c) ==
  /\ calls[c].pc = "probe"
  /\ shell' = IF process = "live" THEN Reaped ELSE shell
  /\ IF shell = "runs" /\ process = "live" /\ calls[c].op # "status"
     THEN Goto(c, "check")
     ELSE calls' = [calls EXCEPT ![c] = Idle]
  /\ UNCHANGED <<program, doing, stdout, pipes, object, used>>

-----------------------------------------------------------------------------
(* request.                                                                *)

\* Where a request that ends with outcome leaves its caller: a handshake goes
\* on to load the steps or fails, a step that timed out stops the runner.
After(c, outcome) ==
  LET stop == [Idle EXCEPT !.op = "stop", !.pc = "stop"]
  IN  CASE calls[c].op = "ping" /\ outcome = "answer" -> [Idle EXCEPT !.op = "steps", !.pc = "alive"]
        [] calls[c].op = "ping" /\ outcome # "answer" -> stop
        [] calls[c].op = "step" /\ outcome = "timeout" -> stop
        [] OTHER -> Idle

Return(c, outcome) ==
  /\ calls' = [calls EXCEPT ![c] = After(c, outcome)]
  /\ stepsLoaded' = (stepsLoaded \/ (calls[c].op = "steps" /\ outcome = "answer"))

\* The pointer is checked ...
CheckProcess(c) ==
  /\ calls[c].pc = "check"
  /\ IF process = "live" THEN Goto(c, "write") /\ UNCHANGED stepsLoaded
                         ELSE Return(c, "none")
  /\ UNCHANGED <<child, pipes, process, running, phase, reader, responses, nextId, used>>

\* Someone is inside a write that blocks, with writeMutex_.
WriteBlocked == \E c \in Callers : calls[c].pc = "blocked"

\* The request a thread is in, whatever id it travels under: no call makes two
\* with the same operation.  An answer echoes id and request.
Request(c)     == [op |-> calls[c].op, from |-> c, call |-> used[c]]
Message(c, id) == [id |-> id, req |-> Request(c)]
Full           == Len(stdin) = PipeSize
Broken         == program = "gone" \/ ~stdinOpen

\* Mutant: answers are told apart by the kind of request only.
NewId_PerKind(c) == [ping |-> 1, steps |-> 2, step |-> 3, hook |-> 4][calls[c].op]

NewId(c) == nextId

\* ... and writeLine used: the message is written, or the pipe is broken, or it
\* is full and the write blocks with writeMutex_ held.
Write(c) ==
  /\ calls[c].pc = "write"
  /\ ~WriteBlocked
  /\ nextId' = nextId + 1
  /\ IF process # "live"
     THEN /\ Return(c, "none")
          /\ UNCHANGED pipes
     ELSE /\ \/ /\ Broken
                /\ Return(c, "none")
                /\ UNCHANGED pipes
             \/ /\ ~Broken /\ ~Full
                /\ stdin' = Append(stdin, Message(c, NewId(c)))
                /\ calls' = [calls EXCEPT ![c].pc = "wait", ![c].id = NewId(c)]
                /\ UNCHANGED <<stdinOpen, stepsLoaded>>
             \/ /\ ~Broken /\ Full
                /\ calls' = [calls EXCEPT ![c].pc = "blocked", ![c].id = NewId(c)]
                /\ UNCHANGED <<stdin, stdinOpen, stepsLoaded>>
  /\ UNCHANGED <<child, process, running, phase, reader, responses, used>>

WriteResumes(c) ==
  /\ calls[c].pc = "blocked"
  /\ \/ /\ Broken
        /\ Return(c, "none")
        /\ UNCHANGED stdin
     \/ /\ ~Broken /\ ~Full
        /\ stdin' = Append(stdin, Message(c, calls[c].id))
        /\ Goto(c, "wait")
        /\ UNCHANGED stepsLoaded
  /\ UNCHANGED <<child, stdinOpen, process, running, phase, reader, responses, nextId, used>>

Answered(c) == calls[c].pc = "wait" /\ calls[c].id \in DOMAIN responses

Without(id) == [i \in DOMAIN responses \ {id} |-> responses[i]]

TakeAnswer(c) ==
  /\ Answered(c)
  /\ calls' = [calls EXCEPT ![c].pc = "answered", ![c].answer = responses[calls[c].id]]
  /\ responses' = Without(calls[c].id)
  /\ UNCHANGED <<child, pipes, process, running, phase, reader, nextId, stepsLoaded, used>>

AnswerUsed(c) ==
  /\ calls[c].pc = "answered"
  /\ Return(c, "answer")
  /\ UNCHANGED <<child, pipes, process, running, phase, reader, responses, nextId, used>>

\* The runner is gone, or the timeout is over; an answer that is there already
\* is taken in either case.
GiveUp(c) ==
  /\ calls[c].pc = "wait" /\ ~Answered(c)
  /\ \/ ~running /\ Return(c, "none")
     \/ running /\ Return(c, "timeout")
  /\ UNCHANGED <<child, pipes, process, running, phase, reader, responses, nextId, used>>

\* The owner has a runner that answered: the bridge shows it.
Publish ==
  /\ calls[Owner] = Idle
  /\ process = "live" /\ phase = "starting"
  /\ phase' = "shown"
  /\ UNCHANGED <<child, pipes, process, running, reader, responses, nextId, stepsLoaded, calls, used>>

-----------------------------------------------------------------------------
(* The reader thread.                                                      *)

ReadAnswer ==
  /\ reader = "reads" /\ stdout # <<>>
  /\ stdout' = Tail(stdout)
  /\ responses' = [i \in DOMAIN responses \cup {Head(stdout).id} |->
                     IF i = Head(stdout).id THEN Head(stdout).req ELSE responses[i]]
  /\ UNCHANGED <<shell, program, doing, pipes, process, running, phase, reader, nextId,
                 stepsLoaded, calls, used>>

\* readLine: no process holds the write end any more.
EndOfOutput == stdout = <<>> /\ program = "gone"

ReaderEnds ==
  /\ reader = "reads" /\ EndOfOutput
  /\ reader' = "ended"
  /\ running' = FALSE
  /\ UNCHANGED <<child, pipes, process, phase, responses, nextId, stepsLoaded, calls, used>>

-----------------------------------------------------------------------------
(* stop, by the owner.                                                     *)

\* A process that still runs is asked to end first; a second stop finds none.
StopBegin ==
  /\ calls[Owner].pc = "stop"
  /\ shell' = Reaped
  /\ IF process = "live" THEN Goto(Owner, IF shell = "runs" THEN "kill" ELSE "close")
                         ELSE calls' = [calls EXCEPT ![Owner] = Idle]
  /\ UNCHANGED <<program, doing, stdout, pipes, object, used>>

Kill == Message(Owner, nextId)

\* The message waits for room like any other, and for another thread's write.
SendKill ==
  /\ calls[Owner].pc = "kill"
  /\ ~WriteBlocked
  /\ \/ Broken /\ UNCHANGED stdin
     \/ ~Broken /\ ~Full /\ stdin' = Append(stdin, Kill)
  /\ Goto(Owner, "close")
  /\ nextId' = nextId + 1
  /\ UNCHANGED <<child, stdinOpen, process, running, phase, reader, responses,
                 stepsLoaded, used>>

\* terminate: stdin is closed ...
CloseStdin ==
  /\ calls[Owner].pc = "close"
  /\ ~WriteBlocked
  /\ stdinOpen' = FALSE
  /\ Goto(Owner, "terminate")
  /\ UNCHANGED <<child, stdin, object, used>>

\* Mutant: only the direct child is killed.
Terminate_ShellOnly ==
  /\ calls[Owner].pc = "terminate"
  /\ shell' = "reaped"
  /\ program' = IF shell = "runs" /\ program = "up" THEN "gone" ELSE program
  /\ Goto(Owner, "stopped")
  /\ UNCHANGED <<doing, stdout, pipes, object, used>>

\* ... and after the grace period the child and its process group are killed,
\* a runner that outlived its shell included.
Terminate ==
  /\ calls[Owner].pc = "terminate"
  /\ shell' = "reaped"
  /\ program' = "gone"
  /\ Goto(Owner, "stopped")
  /\ UNCHANGED <<doing, stdout, pipes, object, used>>

StopRunning ==
  /\ calls[Owner].pc = "stopped"
  /\ running' = FALSE
  /\ Goto(Owner, "join")
  /\ UNCHANGED <<child, pipes, process, phase, reader, responses, nextId, stepsLoaded, used>>

\* Mutant: the object goes without waiting for its reader.
Join_Detached ==
  /\ calls[Owner].pc = "join"
  /\ process' = "destroyed"
  /\ calls' = [calls EXCEPT ![Owner] = Idle]
  /\ UNCHANGED <<child, pipes, running, phase, reader, responses, nextId, stepsLoaded, used>>

Join ==
  /\ calls[Owner].pc = "join"
  /\ reader = "ended"
  /\ process' = "destroyed"
  /\ calls' = [calls EXCEPT ![Owner] = Idle]
  /\ UNCHANGED <<child, pipes, running, phase, reader, responses, nextId, stepsLoaded, used>>

-----------------------------------------------------------------------------
(* The child (external).                                                   *)

OurSide == <<pipes, object, calls, used>>

ProgramReads ==
  /\ program = "up" /\ doing = NoMessage /\ stdin # <<>>
  /\ stdin' = Tail(stdin)
  /\ IF Head(stdin).req.op = "stop" THEN program' = "gone" /\ UNCHANGED doing
                                ELSE doing' = Head(stdin) /\ UNCHANGED program
  /\ UNCHANGED <<shell, stdout, stdinOpen, object, calls, used>>

ProgramAnswers ==
  /\ program = "up" /\ doing # NoMessage /\ Len(stdout) < PipeSize
  /\ stdout' = Append(stdout, doing)
  /\ doing' = NoMessage
  /\ UNCHANGED <<shell, program>>
  /\ UNCHANGED OurSide

\* It stops reading and answering, or ends: by itself or at the end of stdin.
ProgramFails ==
  /\ \/ program = "up" /\ program' \in {"hung", "gone"}
     \/ program = "hung" /\ program' = "gone"
  /\ UNCHANGED <<shell, doing, stdout>>
  /\ UNCHANGED OurSide

\* The shell ends when the program has, or leaves it behind.
ShellExits ==
  /\ shell = "runs"
  /\ shell' = "zombie"
  /\ UNCHANGED <<program, doing, stdout>>
  /\ UNCHANGED OurSide

-----------------------------------------------------------------------------
Step(c) ==
  \/ LookAlive(c) \/ Probe(c) \/ CheckProcess(c) \/ Write(c) \/ WriteResumes(c)
  \/ TakeAnswer(c) \/ AnswerUsed(c) \/ GiveUp(c)

Stopping == StopBegin \/ SendKill \/ CloseStdin \/ Terminate \/ StopRunning \/ Join
Reading  == ReadAnswer \/ ReaderEnds
Child    == ProgramReads \/ ProgramAnswers \/ ProgramFails \/ ShellExits

Next ==
  \/ Spawn \/ Publish \/ Stopping \/ Reading \/ Child
  \/ \E c \in Callers :
       \/ Step(c)
       \/ \E op \in {"step", "hook", "stop", "steps", "status"} : Call(c, op)

Spec == Init /\ [][Next]_vars

\* Threads that can run do.  A program that is up goes on reading and
\* answering, that is what hung means otherwise; nothing else is promised of the
\* child, and no thread has to begin a call.
FairSpec ==
  /\ Spec
  /\ WF_vars(Stopping) /\ WF_vars(Reading) /\ WF_vars(ProgramReads \/ ProgramAnswers)
  /\ \A c \in Callers : WF_vars(Step(c))

-----------------------------------------------------------------------------
\* A requester gets the answer to its own request, however late the answers of
\* requests before it come in (ids in request and readerLoop): the result of a
\* hook that timed out is never taken for that of the next hook or step, nor
\* what one thread asked for by another.
AnswerMatches ==
  \A c \in Callers : calls[c].pc = "answered" => calls[c].answer = Request(c)

\* Once the output of a runner has ended, the object stays with that: no reader
\* files an answer any more, running_ stays down, and isAlive turns away whoever
\* asks after that.  What was filed before can still be taken, and a thread
\* already past the flag goes by the process (start, isAlive and readerLoop).
DeathIsFinal ==
  [][reader = "ended" =>
       /\ reader' = "ended" /\ ~running'
       /\ DOMAIN responses' \subseteq DOMAIN responses
       /\ \A c \in Callers : calls[c].pc = "alive" => calls'[c].pc # "probe"]_vars

\* The object is let go only when its processes and its reader are: no orphan
\* keeps the pipes (the group kill at the end of terminate, the joins of stop).
NothingLeft ==
  process = "destroyed" => program = "gone" /\ shell = "reaped" /\ reader = "ended" /\ ~running

\* A write that nothing bounds: the program hangs and its pipe is full.
Stuck == program = "hung" /\ Full

\* Every call comes back: a request by answer, timeout or death of the runner,
\* and stop although the program ignores the kill message, closed pipes and the
\* end of its shell.  Only a write has no timeout.
CallsReturn == \A c \in Callers : calls[c] # Idle ~> (calls[c] = Idle \/ Stuck)

=============================================================================
