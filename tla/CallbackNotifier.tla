-------------------------- MODULE CallbackNotifier --------------------------
(***************************************************************************)
(* Completion callbacks (src/src/notify/callback_notifier.cpp) on the      *)
(* event bus: the engine publishes how tests end, the bus's dispatcher     *)
(* calls the notifier's handlers, which queue a job per final event, and   *)
(* the notifier's thread posts the job to the test's callback_url, with    *)
(* retries.  TestHub::start and stop subscribe, wait for the bus, and take *)
(* the notifier down while the others still run.                           *)
(*                                                                         *)
(* The engine is reduced to what its events and records show: a record is  *)
(* final before its final event is published, and may be trimmed or        *)
(* removed at any time after.                                              *)
(***************************************************************************)
EXTENDS Integers, Sequences, FiniteSets

CONSTANTS
  Tests,          \* tests submitted in this life of the process
  WithCallback,   \* those whose request has a callback_url
  Lives,          \* bound: lives to look at, the tests submitted, and which of
                  \* "stop", "drop" (of records) and "cancel" may happen
  MaxAttempts,    \* callbacks.max_attempts
  Backoff,        \* callbacks.retry_backoff_ms, in ticks of the clock
  HistoryLimit    \* historyLimit_ of the bus

ASSUME NotifierAssumption ==
  /\ IsFiniteSet(Tests)
  /\ WithCallback \subseteq Tests
  /\ Lives \subseteq [tests : SUBSET Tests, may : SUBSET {"stop", "drop", "cancel"}]
  /\ MaxAttempts \in Nat \ {0}
  /\ Backoff \in Nat
  /\ HistoryLimit \in Nat \ {0}

VARIABLES
  handlers, history, queue, inflight, dispatcher, event, targets,  \* the bus
  record,     \* per test: "queued", "running" ("cancelling" once
                  \* its cancellation is accepted), a verdict, or "gone"
  note,       \* per test: the final event its thread still has to publish
  running,    \* running_
  jobs,       \* jobs_: sequence of jobs, due counted from now
  stats,      \* stats_
  worker,     \* the notifier's thread: [pc, job]
  handler,    \* the notifier's handler on the dispatcher's thread: [pc, job]
  life,       \* the life this is
  hub,        \* where TestHub::initialize, start and stop are
  seen,       \* events the WebSocket handler has broadcast
  posts       \* per test: the payloads posted for it

Main     == "main"
Notifier == "notifier"
Api      == "api"

Bus == INSTANCE EventBus WITH Publishers <- Tests \cup {Main, Notifier, Api}

busVars == <<handlers, history, queue, inflight, dispatcher, event, targets>>
cbVars  == <<running, jobs, stats, worker, handler>>
vars    == <<handlers, history, queue, inflight, dispatcher, event, targets,
             record, note, running, jobs, stats, worker, handler, life, hub, seen, posts>>

Completed == <<"test", "completed">>
Cancelled == <<"test", "cancelled">>
Stopping  == <<"server", "stopping">>
CallbackTypes == {<<"callback", "delivered">>, <<"callback", "failed">>}
Verdicts  == {"PASSED", "CANCELLED"}

NoJob == [test |-> "none", type |-> <<"none">>, attempt |-> 0, due |-> 0]
Ev(type, t, stage) == [type |-> type, test |-> t, stage |-> stage]
\* The events that end a test for the notifier.
Final(e) == e.type = Completed \/ (e.type = Cancelled /\ e.stage = "queued")

Init ==
  /\ Bus!Init
  /\ life \in Lives
  /\ record = [t \in Tests |-> IF t \in life.tests THEN "queued" ELSE "gone"]
  /\ note = [t \in Tests |-> Bus!NoEvent]
  /\ running = FALSE
  /\ jobs = <<>>
  /\ stats = [pending |-> 0, delivered |-> 0, failed |-> 0]
  /\ worker = [pc |-> "off", job |-> NoJob]
  /\ handler = [pc |-> "off", job |-> NoJob]
  /\ hub = "new"
  /\ seen = {}
  /\ posts = [t \in Tests |-> <<>>]

-----------------------------------------------------------------------------
(* The engine, as its records and events show it.                          *)

EngineOnly == UNCHANGED <<running, jobs, stats, worker, handler, life, hub, seen, posts>>

\* Workers run from engine_->start() until engine_->stop() has joined them.
WorkersRun == hub \in {"up", "stopping", "waiting", "engine"}

Dequeue(t) ==
  /\ WorkersRun
  /\ record[t] = "queued"
  /\ record' = [record EXCEPT ![t] = "running"]
  /\ UNCHANGED note /\ UNCHANGED busVars /\ EngineOnly

\* cancel of a running test announces it; the test goes on until it notices.
CancelRunning(t) ==
  /\ "cancel" \in life.may
  /\ record[t] = "running"
  /\ record' = [record EXCEPT ![t] = "cancelling"]
  /\ Bus!Publish(Api, Ev(Cancelled, t, "running"))
  /\ UNCHANGED note /\ EngineOnly

\* The record is final; the event follows.
End(t, verdict, e) ==
  /\ record' = [record EXCEPT ![t] = verdict]
  /\ note' = [note EXCEPT ![t] = e]
  /\ UNCHANGED busVars /\ EngineOnly

CancelQueued(t) ==
  /\ "cancel" \in life.may
  /\ record[t] = "queued"
  /\ End(t, "CANCELLED", Ev(Cancelled, t, "queued"))

Complete(t) ==
  /\ record[t] \in {"running", "cancelling"}
  /\ \E verdict \in IF record[t] = "running" THEN {"PASSED"} ELSE Verdicts :
       End(t, verdict, Ev(Completed, t, "none"))

PublishFinal(t) ==
  /\ note[t] # Bus!NoEvent
  /\ Bus!Publish(t, note[t])
  /\ note' = [note EXCEPT ![t] = Bus!NoEvent]
  /\ UNCHANGED record /\ EngineOnly

\* trimHistory or remove.
Drop(t) ==
  /\ "drop" \in life.may
  /\ record[t] \in Verdicts
  /\ record' = [record EXCEPT ![t] = "gone"]
  /\ UNCHANGED note /\ UNCHANGED busVars /\ EngineOnly

-----------------------------------------------------------------------------
(* The handlers, on the dispatcher's thread.                               *)

\* Mutant: the stage of a cancellation is not looked at.
Relevant_AnyStage(e) == e.type \in {Completed, Cancelled}

\* What the lambdas given to subscribe let through.
Relevant(e) == Final(e)

\* enqueue reads the record without any lock of the notifier.
HandlerReads ==
  /\ \/ Bus!Calls("completed")
     \/ Bus!Calls("cancelled")
  /\ handler.pc = "off"
  /\ LET t == event.test
     IN  IF Relevant(event) /\ record[t] # "gone" /\ t \in WithCallback
         THEN /\ handler' = [pc |-> "accept",
                             job |-> [test |-> t, type |-> event.type, attempt |-> 0, due |-> 0]]
              /\ UNCHANGED targets
         ELSE /\ targets' = Tail(targets)
              /\ UNCHANGED handler
  /\ UNCHANGED <<handlers, history, queue, inflight, dispatcher, event, record, note,
                 running, jobs, stats, worker, life, hub, seen, posts>>

\* mutex_ is free; only the notifier's thread holds it over more than one step.
LockFree == worker.pc # "locked"

HandlerAccepts ==
  /\ handler.pc = "accept"
  /\ LockFree
  /\ IF running
     THEN /\ stats' = [stats EXCEPT !.pending = @ + 1]
          /\ handler' = [handler EXCEPT !.pc = "schedule"]
          /\ UNCHANGED targets
     ELSE /\ handler' = [pc |-> "off", job |-> NoJob]
          /\ targets' = Tail(targets)
          /\ UNCHANGED stats
  /\ UNCHANGED <<handlers, history, queue, inflight, dispatcher, event, record, note,
                 running, jobs, worker, life, hub, seen, posts>>

\* Mutant: nobody is notified.
Woken_Lost(w) == w

\* notify_one: a thread that waits on cv_ looks again.
Woken(w) == IF w.pc = "waiting" THEN [w EXCEPT !.pc = "top"] ELSE w

HandlerSchedules ==
  /\ handler.pc = "schedule"
  /\ LockFree
  /\ jobs' = Append(jobs, handler.job)
  /\ worker' = Woken(worker)
  /\ handler' = [pc |-> "off", job |-> NoJob]
  /\ Bus!HandlerReturns
  /\ UNCHANGED <<record, note, running, stats, life, hub, seen, posts>>

\* The WebSocket server's handler returns.  It may never: a send to a client that
\* does not read has no timeout, and it keeps the dispatcher meanwhile.
Broadcast ==
  /\ Bus!Calls("ws")
  /\ seen' = seen \cup {event}
  /\ Bus!HandlerReturns
  /\ UNCHANGED <<record, note, life, hub, posts>> /\ UNCHANGED cbVars

-----------------------------------------------------------------------------
(* workerLoop and process.                                                 *)

WorkerOnly == UNCHANGED <<record, note, running, handler, life, hub, seen>>
Free == [pc |-> "top", job |-> NoJob]

\* min_element: the first of the jobs that are due earliest.
Earliest ==
  CHOOSE i \in DOMAIN jobs :
    /\ \A k \in DOMAIN jobs : jobs[i].due <= jobs[k].due
    /\ \A k \in 1..(i - 1) : jobs[k].due > jobs[i].due

Without(i) == SubSeq(jobs, 1, i - 1) \o SubSeq(jobs, i + 1, Len(jobs))

\* One turn of the loop under mutex_.  The previous event has been published.
WorkerLooks ==
  /\ worker.pc = "top"
  /\ inflight[Notifier] = Bus!NoEvent
  /\ IF ~running THEN /\ worker' = [worker EXCEPT !.pc = "off"]
                      /\ UNCHANGED jobs
     ELSE IF jobs = <<>> THEN /\ worker' = [worker EXCEPT !.pc = "locked"]
                              /\ UNCHANGED jobs
     ELSE IF jobs[Earliest].due <= 0
     THEN /\ worker' = [worker EXCEPT !.pc = "have", !.job = jobs[Earliest]]
          /\ jobs' = Without(Earliest)
     ELSE /\ worker' = [worker EXCEPT !.pc = "timed"]
          /\ UNCHANGED jobs
  /\ UNCHANGED <<stats, posts>> /\ UNCHANGED busVars /\ WorkerOnly

\* cv_.wait gives the mutex back and sleeps, in one step.
WorkerWaits ==
  /\ worker.pc = "locked"
  /\ worker' = [worker EXCEPT !.pc = "waiting"]
  /\ UNCHANGED <<jobs, stats, posts>> /\ UNCHANGED busVars /\ WorkerOnly

\* cv_.wait_until ends: the job is due, a job came, or stop notified.
WorkerTimedOut ==
  /\ worker.pc = "timed"
  /\ worker' = Free
  /\ UNCHANGED <<jobs, stats, posts>> /\ UNCHANGED busVars /\ WorkerOnly

\* buildPayload: what the receiver is told, reduced to what tells posts apart.
Payload(job) == [event |-> job.type, state |-> record[job.test], attempt |-> job.attempt + 1]

\* Mutant: a job whose record is gone stays pending.
Process_GonePending ==
  /\ worker.pc = "have"
  /\ LET t == worker.job.test
     IN  IF record[t] = "gone"
         THEN /\ worker' = Free
              /\ UNCHANGED <<stats, posts>>
         ELSE /\ worker' = [pc |-> "posting", job |-> [worker.job EXCEPT !.attempt = @ + 1]]
              /\ posts' = [posts EXCEPT ![t] = Append(@, Payload(worker.job))]
              /\ UNCHANGED stats
  /\ UNCHANGED jobs /\ UNCHANGED busVars /\ WorkerOnly

Settled(s) == [s EXCEPT !.pending = IF @ > 0 THEN @ - 1 ELSE 0]

\* The record is read again at every attempt; the payload shows its verdict.
Process ==
  /\ worker.pc = "have"
  /\ LET t == worker.job.test
     IN  IF record[t] = "gone"
         THEN /\ worker' = Free
              /\ stats' = Settled(stats)
              /\ UNCHANGED posts
         ELSE /\ worker' = [pc |-> "posting", job |-> [worker.job EXCEPT !.attempt = @ + 1]]
              /\ posts' = [posts EXCEPT ![t] = Append(@, Payload(worker.job))]
              /\ UNCHANGED stats
  /\ UNCHANGED jobs /\ UNCHANGED busVars /\ WorkerOnly

Delivered ==
  /\ worker.pc = "posting"
  /\ stats' = [Settled(stats) EXCEPT !.delivered = @ + 1]
  /\ worker' = [worker EXCEPT !.pc = "delivered"]
  /\ UNCHANGED <<jobs, posts>> /\ UNCHANGED busVars /\ WorkerOnly

\* No answer, 5xx or 429.
MayRetry(job) == job.attempt < MaxAttempts /\ running

\* The wait doubles with every attempt.
Retry ==
  /\ worker.pc = "posting"
  /\ MayRetry(worker.job)
  /\ jobs' = Append(jobs, [worker.job EXCEPT !.due = Backoff * 2 ^ (worker.job.attempt - 1)])
  /\ worker' = Free
  /\ UNCHANGED <<stats, posts>> /\ UNCHANGED busVars /\ WorkerOnly

\* A status that is not worth a retry, or no attempt left.
GiveUp ==
  /\ worker.pc = "posting"
  /\ stats' = [Settled(stats) EXCEPT !.failed = @ + 1]
  /\ worker' = [worker EXCEPT !.pc = "failed"]
  /\ UNCHANGED <<jobs, posts>> /\ UNCHANGED busVars /\ WorkerOnly

PublishOutcome ==
  /\ worker.pc \in {"delivered", "failed"}
  /\ Bus!Publish(Notifier, Ev(<<"callback", worker.pc>>, worker.job.test, "none"))
  /\ worker' = Free
  /\ UNCHANGED <<jobs, stats, posts>> /\ WorkerOnly

\* Time passes for the jobs that wait; with none waiting it changes nothing.
Tick ==
  /\ \E i \in DOMAIN jobs : jobs[i].due > 0
  /\ jobs' = [i \in DOMAIN jobs |-> [jobs[i] EXCEPT !.due = @ - 1]]
  /\ UNCHANGED <<record, note, running, stats, worker, handler, life, hub, seen, posts>>
  /\ UNCHANGED busVars

-----------------------------------------------------------------------------
(* TestHub: initialize, start and stop.                                    *)

HubOnly == UNCHANGED <<life, record, note, stats, handler, seen, posts>>

Initialize ==
  /\ hub = "new"
  /\ hub' = "initialized"
  /\ Bus!Subscribe("ws", <<"*">>)
  /\ UNCHANGED <<running, jobs, worker>> /\ HubOnly

StartNotifier ==
  /\ hub = "initialized"
  /\ hub' = "completed"
  /\ running' = TRUE
  /\ worker' = Free
  /\ Bus!Subscribe("completed", Completed)
  /\ UNCHANGED <<jobs>> /\ HubOnly

\* The last step of notifier_->start(); engine_->start() follows.
SubscribeCancelled ==
  /\ hub = "completed"
  /\ hub' = "up"
  /\ Bus!Subscribe("cancelled", Cancelled)
  /\ UNCHANGED <<running, jobs, worker>> /\ HubOnly

Stop ==
  /\ "stop" \in life.may
  /\ hub = "up"
  /\ hub' = "waiting"
  /\ Bus!Publish(Main, Ev(Stopping, "none", "none"))
  /\ UNCHANGED <<running, jobs, worker>> /\ HubOnly

\* waitForIdle(1000): the bus is idle, or a second has passed.
WaitedForIdle ==
  /\ hub = "waiting"
  /\ inflight[Main] = Bus!NoEvent
  /\ hub' = "engine"
  /\ UNCHANGED <<running, jobs, worker>> /\ UNCHANGED busVars /\ HubOnly

\* engine_->stop() has joined the workers, whose tests have ended and are
\* announced; notifier_->stop() begins.
StopFlag ==
  /\ hub = "engine"
  /\ \A t \in Tests : /\ record[t] \notin {"running", "cancelling"}
                      /\ note[t].type # Completed
                      /\ inflight[t].type # Completed
  /\ hub' = "unsubscribe"
  /\ running' = FALSE
  /\ UNCHANGED <<jobs, worker>> /\ UNCHANGED busVars /\ HubOnly

UnsubscribeCompleted ==
  /\ hub = "unsubscribe"
  /\ hub' = "unsubscribing"
  /\ Bus!Unsubscribe("completed")
  /\ UNCHANGED <<running, jobs, worker>> /\ HubOnly

UnsubscribeCancelled ==
  /\ hub = "unsubscribing"
  /\ hub' = "notify"
  /\ Bus!Unsubscribe("cancelled")
  /\ UNCHANGED <<running, jobs, worker>> /\ HubOnly

\* Mutant: cv_ is notified without holding mutex_.
NotifyWorker_Unlocked ==
  /\ hub = "notify"
  /\ hub' = "join"
  /\ worker' = Woken(worker)
  /\ UNCHANGED <<running, jobs>> /\ UNCHANGED busVars /\ HubOnly

NotifyWorker ==
  /\ hub = "notify"
  /\ LockFree
  /\ hub' = "join"
  /\ worker' = Woken(worker)
  /\ UNCHANGED <<running, jobs>> /\ UNCHANGED busVars /\ HubOnly

JoinWorker ==
  /\ hub = "join"
  /\ worker.pc = "off"
  /\ hub' = "ws"
  /\ jobs' = <<>>
  /\ stats' = [stats EXCEPT !.pending = 0]
  /\ UNCHANGED <<life, running, worker, record, note, handler, seen, posts>>
  /\ UNCHANGED busVars

\* The servers are down and the broadcasting handler is taken from the bus.
StopServers ==
  /\ hub = "ws"
  /\ hub' = "stopped"
  /\ Bus!Unsubscribe("ws")
  /\ UNCHANGED <<running, jobs, worker>> /\ HubOnly

-----------------------------------------------------------------------------
BusStep ==
  /\ \/ \E p \in Tests \cup {Main, Notifier, Api} : Bus!Enqueue(p)
     \/ Bus!Take
     \/ Bus!CopyHandlers
     \/ Bus!Dispatched
  /\ UNCHANGED <<record, note, life, hub, seen, posts>> /\ UNCHANGED cbVars

EngineEnds == \E t \in Tests : Complete(t) \/ PublishFinal(t)

HandlerStep == HandlerReads \/ HandlerAccepts \/ HandlerSchedules

\* Whatever the receiver answers, the thread goes on.
WorkerStep ==
  \/ WorkerLooks \/ WorkerWaits \/ WorkerTimedOut \/ Process
  \/ Delivered \/ Retry \/ GiveUp \/ PublishOutcome

HubStep ==
  \/ Initialize \/ StartNotifier \/ SubscribeCancelled
  \/ WaitedForIdle \/ StopFlag \/ UnsubscribeCompleted \/ UnsubscribeCancelled
  \/ NotifyWorker \/ JoinWorker \/ StopServers

Next ==
  \/ \E t \in Tests : Dequeue(t) \/ CancelRunning(t) \/ CancelQueued(t) \/ Drop(t)
  \/ EngineEnds \/ BusStep \/ HandlerStep \/ Broadcast \/ WorkerStep \/ Tick \/ Stop \/ HubStep

Spec == Init /\ [][Next]_vars

\* Threads that can go on do; POSTs end (timeout_ms); time passes.  Nobody has
\* to submit or cancel tests, or to stop the daemon, and a broadcast may block.
FairSpec ==
  /\ Spec
  /\ WF_vars(EngineEnds) /\ WF_vars(BusStep) /\ WF_vars(HandlerStep)
  /\ WF_vars(WorkerStep) /\ WF_vars(Tick) /\ WF_vars(HubStep)

-----------------------------------------------------------------------------
\* However often a test is cancelled and however its callback is retried, its
\* posts are at most max_attempts, numbered in order, and tell one story: the
\* same final verdict, and no event but its own.  A cancellation while running
\* must not be called back, and every payload is built from a fresh reading.
OneStoryPerTest ==
  \A t \in Tests :
    /\ Len(posts[t]) <= MaxAttempts
    /\ \A i \in DOMAIN posts[t] :
         /\ posts[t][i] = [posts[t][1] EXCEPT !.attempt = i]
         /\ posts[t][i].state \in Verdicts
         /\ posts[t][i].event = Cancelled => posts[t][i].state = "CANCELLED"

Outstanding ==
  Len(jobs) + (IF worker.pc \in {"have", "posting"} THEN 1 ELSE 0)
            + (IF handler.pc = "schedule" THEN 1 ELSE 0)

\* The pending counter of GET /status is the number of callbacks that are
\* still to be settled, through retries, records that are gone and a stop that
\* interrupts a job, although it is kept apart from jobs_ under several locks.
PendingExact == hub \notin {"ws", "stopped"} => stats.pending = Outstanding

Reported(t) == \E type \in CallbackTypes : Ev(type, t, "none") \in seen

\* The dispatcher of all events is inside the WebSocket handler.
Broadcasting == Bus!Calls("ws")

\* Every end of a test with a callback_url that is announced while the daemon
\* is up leads to callback.delivered or callback.failed, unless its record is
\* dropped meanwhile, the daemon is stopped, or the dispatcher never comes back
\* from a broadcast: then the notifier's handlers, and the report, wait their
\* turn behind a WebSocket client that does not read.
EveryEndCalledBack ==
  \/ \A t \in WithCallback :
       (hub = "up" /\ note[t] # Bus!NoEvent) ~> (Reported(t) \/ record[t] = "gone" \/ hub # "up")
  \/ <>[]Broadcasting

\* TestHub::stop gets through the notifier: its thread is woken and ends, whatever
\* it does when it is asked to.  That the engine before it and the servers after
\* it can be stopped is taken for granted here, and a matter of their modules.
StopReturns == hub = "waiting" ~> hub = "stopped"
=============================================================================
