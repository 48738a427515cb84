# TestHub: a TLA+ model of the test-execution daemon

TestHub (`src/`) is a C++ daemon that runs Gauge-style specifications. Clients
submit tests over HTTP or on a schedule; a priority queue feeds a fixed set of
worker threads; each worker reserves runner processes, sends them the steps of
the scenarios, decides a verdict, stores it and announces it over an event bus
(WebSocket clients, HTTP callbacks). This directory holds the TLA+ modules, the
TLC configurations and the TLAPS proofs for it. `PROJECT.json` lists runs,
mutants, the map from definitions to source lines, hazards, findings and
theorems.

Paths below are relative to the repository root (`src/engine/...`).

## 1. Inventory

| Component | State | Operations | Talks to | What is hard | What makes it correct |
|---|---|---|---|---|---|
| TestQueue (`src/engine/test_queue.h`) | deque of tasks, sequence counter, closed flag; one mutex | enqueue, waitAndDequeue, cancel, close, reopen | API threads, workers | erasing from the middle, closing while tasks remain | priority order, FIFO within a priority, no test twice |
| ExecutionEngine, life of a test (`execution_engine.cpp`) | records, order, cancel flags (recordsMutex_), statistics (statsMutex_), workers, stop flag | submit, cancel, remove, clearHistory, trimHistory, workerLoop, execute, stop, start/loadHistory | queue, ResultStore, EventBus, RunnerBridge | operations made of several critical sections; crash and restart | one owner per unfinished test, saved before visible, one verdict, counted and announced once |
| ExecutionEngine, running scenarios | step counters, scenario results, streams of a parallel run | executeSequential, executeParallel, executeSpec, executeScenario, executeStep | RunnerBridge, EventBus | cancellation between steps, timeouts, a stream that fails to start | every scenario accounted for exactly once, the verdict follows from the results, polled counters never go back |
| ResultStore (`result_store.cpp`) | one JSON file per finished test | save (temporary file + rename), remove, loadAll | engine | partial failure, crash | a file is whole or absent |
| RunnerBridge (`src/runner/runner_bridge.cpp`) | slots (state, process, users, restart count, restarting mark), draining flag | reserve, release, executeStep, hooks, ensureAlive, start, stopRunner, restartRunner | ProcessRunner, workers, HTTP threads | the lock is released while processes start and stop | exclusive slots, all-or-nothing reservation, no step without a process, no endless wait |
| ProcessRunner, ChildProcess (`process_runner.cpp`) | child process, pipes, responses_ by id, next id, running flag, reader thread | start, execute, hooks, steps, alive, stop | runner process, bridge, API threads | late answers, death in the middle of a request, orphans that keep pipes, blocked writes | an answer belongs to its request, nothing is left of a stopped runner, calls return |
| Scheduler (`scheduler.cpp`), CronExpr (`src/util/cron.h`) | schedules, order, last fired minute, one file each | create, update, remove, fireNow, tick, start, stop | engine, disk | crash between submit and save, edits during a tick | a minute fires once, no overlap where asked for, an expression means its text |
| EventBus (`src/event/event_bus.cpp`) | history, queue, handlers, dispatcher thread | publish, subscribe, unsubscribe, waitForIdle | everyone | two locks, handlers called outside the lock | every event reaches the handlers of its time |
| CallbackNotifier (`src/notify`) | job queue, statistics, thread | on final event, post, retry, stop | EventBus, engine | retries, records trimmed meanwhile, shutdown | one story per test, an exact pending counter, every announced end is called back |
| SpecRepository, SpecWatcher (`src/spec`) | directory, concepts, snapshot of files | configure, resolve, writeRaw, remove, reloadConcepts, scan, acknowledge | disk, engine, API | external edits during a scan or an API write, change of project | a test keeps to one project, concepts catch up with the files |
| SpecParser, concepts, TagFilter, Trends (`src/spec`, `src/engine`) | none shared | parse, expand, filter, group, compare | engine | hand-written parsers | no step or row lost, expansion is substitution, operators bind as documented |
| HttpServer, WebSocketServer (`src/server`) | pending connections, workers; buffer of each connection; registry, reader threads, write locks | accept, read a request, dispatch, answer, upgrade, broadcast, close, stop | all of the above | one socket closed by several threads, lost wake-ups, sends that block, requests cut into pieces | each socket closed once, everybody served and answered as asked, stop returns |
| TestHub (`src/testhub.cpp`) | the wiring, projects, current project | start, stop, selectProject, finalizeProjects | all | stop order, project switch against submit | stop ends, ids are unique, one project is current |
| ApiRoutes, AuthPolicy, ReportWriter, JSON, utilities, CLI, web UI, reference runners, MockRunner | none shared | translation, formatting, presentation | | | |

## 2. Modules

| Module | What it is |
|---|---|
| `TestQueue` | the queue, one action per operation (each holds `mutex_` throughout) |
| `ExecutionEngine` | the life of tests: API threads, workers, result files, stop, crash, start. One step = one critical section, one file operation or one event |
| `TestLifecycle` | abstract specification: what a client may observe of a test |
| `ScenarioRun` | one test from its loaded specifications to its verdict: the sequential run and parallel streams, hooks, steps, concepts, retries, fail_fast, cancellation, deadline |
| `RunnerPool` | RunnerBridge with exclusive slots: sessions, restarts, lifecycle calls, dying processes |
| `SlotAllocator` | abstract specification: all-or-nothing allocation of exclusive slots that can be sealed |
| `ProcessRunner` | one runner object with its child, pipes and reader thread |
| `Scheduler`, `CronExpr` | schedules with their files, the ticking thread, crashes; cron expressions and their reference meaning |
| `EventBus` | the bus as actions other modules compose |
| `CallbackNotifier` | the notifier on that bus, with the engine's final events and TestHub's start and stop around it |
| `HttpServer` | accept loop, pending connections, workers, stop, as actions |
| `HttpDispatch` | what answers a request: filter, routes, files of the web UI, fallback |
| `HttpConnection` | one connection: requests cut out of a stream of pieces, answered in turn, kept or closed |
| `WebSocketServer` | the WebSocket server on top of `HttpServer`: upgrade, readers, broadcast, close, stop |
| `SpecCatalog` | specification files, repository, watcher, API writes, change of project, tests that read them |
| `SpecParser`, `Concepts`, `TagFilter`, `Trends`, `ProjectConfig` | algorithms, each with its reference definition |
| `MC...` | instances for TLC |
| `ExecutionEngineProofs` (with those about `TestQueue`), `ScenarioRunProofs`, `RunnerPoolProofs`, `ProcessRunnerProofs`, `SchedulerProofs` (with those about `CronExpr`), `CallbackNotifierProofs`, `SpecCatalogProofs` (with those about `SpecParser`), `WebSocketServerProofs` (with those about `HttpConnection`) | theorems and proofs |

Compositions: `ExecutionEngine` extends `TestQueue`, whose operations are part of its steps,
and its proofs rest on the queue's lemmas;
`CallbackNotifier` contains `EventBus`; `WebSocketServer` extends `HttpServer`;
`HttpConnection` extends `HttpDispatch`; `Scheduler` uses `CronExpr`; `MCText` puts the algorithms
and the connection side by side. `ScenarioRun`
is the detail behind the engine's `WorkerDecide`; its streams are the sessions of
`RunnerPool`, and a slot's process there is an object of `ProcessRunner`. These three
links are not composed: each side models the other by its possible outcomes.

### ExecutionEngine

* `recState[t]`, `hasResult[t]`: `records_[t].status.state` and `hasResult`, with
  `"absent"` for no entry. `born[t]` is the test's place in `order_` and in
  `submit_time`, by which `loadHistory` sorts. `cancelFlags` are the keys of
  `cancelFlags_`; `flag[t]` the value of the shared flag, which a worker keeps
  after the entry is erased.
* `worker[w]`, `client[c]`: where a worker thread, or an HTTP or scheduler thread
  inside an engine call, stands. `submit` is `SubmitInsert`, `SubmitTrim`,
  `RemoveFile`*, `SubmitEnqueue`; `cancel` is `CancelDequeue`, `CancelLookup`,
  then either `CancelPersist`, `CancelPublish`, `CancelStats`, `CancelEvent`, or
  `CancelFlag`; `remove` and `clearHistory` erase under the lock and then
  delete files one by one; a worker goes `WorkerTop`, `WorkerDequeue`,
  `WorkerBegin`, `WorkerLoaded` (which calls `reserveSlots`), `WorkerStart` (which is
  its return), `WorkerProgress`*, `WorkerDecide`,
  `WorkerPersist`, `WorkerPublish`, `WorkerStats`, `WorkerEvent`, or leaves
  through `WorkerAbandon` (shutdown) or `WorkerException` (the catch block).
* `disk[t]`: the state in `<results_dir>/<t>.json`. `save` writes a temporary
  file and renames it, so a crash leaves the old file or the new one.
* `mode`: `up`, the four stages of `stop()`, `down`. `ProcessEnds` is the
  regular end (API threads finished) or a crash at any moment; `Start` is
  `start()` with `loadHistory`.
* `counted`, `finals`, `acked`, `unsaved` are history variables: statistics, final
  events, cancellations accepted before the verdict is taken (`Undecided`), whoever holds
  the test, and tests
  that ended without a file (save failed, shutdown, exception).

Abstractions: ids are fresh (`generateTaskId` uses the time and a counter modulo
1000; no caller in the repository passes an explicit id, since
`testRequestFromJson` does not read one and `rerun` clears it). What happens
between RUNNING and the verdict is one choice. Nothing obliges the runner to let a
worker go that waits for slots or runs (`AtRunner`). Only final events are tracked. `Start` is
atomic, although the
HTTP server already accepts requests while history is replayed.

### ScenarioRun

`cancelled`, `timedOut`, `failFastTriggered`, `errors` (as counts per kind), `status`
and `runMutex` are fields of `RunContext`; `expired` is the clock past the deadline;
`polled` are the counters in `records_`; `results`, `hookErrors` and `specState` are
`collected` or `scenarioResults`, `specHookErrors`, and the states in
`result.specResults`. `stream[j]` is the thread of stream `j` (the worker itself
in a sequential run): `pc` names the call it is in, `spec`, `item`, `step` and `inner`
its place in the plan, `late` that `checkTimeout` has seen the deadline and not yet
taken `runMutex`, `snap` the copy that `updateStatus` is about to write. An item is a
selected scenario with its data row; a step is plain or a concept of plain
steps (concepts inside concepts behave alike). Both paths share their actions:
where they differ (whole specifications skipped, load errors met in order,
specifications closed one by one with `after_spec` ignored) the action says
`Sequential`. The selection by tags and names, step arguments, and the steps
listed for what was skipped are left out.

### RunnerPool and ProcessRunner

In the pool, `state`, `runner`, `restartCount`, `users`, `restarting` are the fields of
`Slot`, `draining` is `draining_`, `started` says that `slots_` is not empty. `want[s]`
is a thread inside `reserveSlotsLocked`; `stream[s][i]` what the thread bound to slot
`i` of session `s` does (`ready` between steps, `starting` while `ensureAlive`
restarts the process without the lock, `stepping` while it uses `slot.runner`).
`admin` is the call that holds `lifecycleMutex_`. Only exclusive (process) runners
are modelled; the shared slot of concurrency-safe runners (MockRunner) is not.

`ProcessRunner` is one such process object. The child is two processes, because the
code starts a shell that starts the program: `shell` is the direct child that
`waitpid` reaps, `program` whoever holds the pipes, so a shell that dies and leaves
an orphan is a state of the model. `stdin` and `stdout` are bounded sequences of
messages `[id, req]`, so a write may block; `req` says which request it is: operation,
thread, number of the thread's call. `responses` maps ids to the requests they answer;
`calls[c]` is the call a thread is in, with the id it waits for and the answer it took.
`Step(c)` is one step of a request (`LookAlive`, `Probe`, `CheckProcess`, `Write`,
`WriteResumes`, `TakeAnswer`, `GiveUp`), `Reading` the reader thread, `Stopping` the
stop with its kill message, closing of stdin, SIGTERM to the group and the join.
`phase` says how far the bridge has shown the object to API threads, which may call
`steps` and `alive` while it starts and stops. A destroyed `Process` object is taken
for a dead process when an API thread looks at it later: undefined behaviour in
the code is not given further outcomes.

### Scheduler and CronExpr

`items` and `order` are `items_` and `order_`; an item carries its cron source and the
parsed expression, both, because the file keeps only the source. `thread` is the
scheduler thread with the minute it read at the start of the tick and the ids still
to look at; every id is one step, as the code takes `mutex_` anew for each.
`log` records all submissions (schedule, creation, text, minute, 0 for a fire by hand),
with the faults and the fires by hand of the schedule (`fireNows`) there had been by then;
`active` stands for the engine. `Crash` may come at any moment and `Fire` may crash
between the submission and the save. Schedules can be removed and created again
under the same id; `created` tells the two apart.

### EventBus and CallbackNotifier

`publish` is two critical sections: `Publish` (history) and `Enqueue` (queue), with
`inflight` in between. The dispatcher takes an event, copies the handlers that match
and calls them one by one without a lock. `CallbackNotifier` subscribes its two
handlers and that of the WebSocket server, composes the engine's final events (a
record is final before the event), its own thread (`WorkerLooks`, `WorkerWaits`,
`Process`, `Delivered`, `Retry`, `GiveUp`, `PublishOutcome`) and `TestHub::stop`
(`server.stopping`, waiting for the bus, the flag, unsubscribing, notifying and joining,
then the servers). Jobs carry the ticks until they are due. `Relevant` looks the record
up; it may be gone by then (`Drop`).

### HttpServer and WebSocketServer

`at[t]` is where a thread stands: a worker, the reader of a connection (named like
the connection), the dispatcher `Bus`, and `Hub` inside `TestHub::stop`. `sendRaw` and
`closeConnection` are procedures with a return point (`next`), taken in single steps
because three kinds of threads run them on one connection. `pending`, `stopping`,
`connections`, `open`, `writer`, `handle`, `finished`, `wsStopping` are the fields of the
classes. A peer may fall silent (a send to it then blocks, sockets have no send
timeout) or go (a read ends, a send fails). `crashed` is the state after a joinable
thread object was destroyed. `closes` counts `::close` per socket.

### HttpConnection and HttpDispatch

One connection inside `handleConnection`. A byte is its place in the stream the client
means to send, so a request that is answered with other bytes than its own shows at
once; `Bytes(k)` are those of request `k`, `Span(a, b)` those after the first `a` up to the
`b`-th. `buffer` is `readRequest`'s buffer and what it
leaves for the next request, `body` the body read so far, `pc` where the worker
stands: `RecvHead`, `ParseHead`, `RecvBody`, `BodyRead`, then `Serve` or `TakeSocket`, and the
time-outs and ends of stream next to each `recv`. A client that expects `100 Continue`
sends its body once `invited`. A head is what the code asks of it (version, target,
header values); the text of a head, percent-decoding, and headers and bodies of answers are
left out. A request carries the outcome of the filter (`denied`) and of its handler
(`fate`). Files served from a directory of the disk are not modelled.

### SpecCatalog

Every change of a file has a number, which stands for its size and modification
time. `snapshot` is the watcher's, `loaded` what the dictionary was read from.
`Edit` is somebody else's change, `WriteFile`, `Reload`, `Acknowledge` and `Publish`
are the API's steps. `SelectProject` holds `projectMutex_` while it looks for active
tests; `Configure` then changes the directory and reloads. A test is resolved
(`Resolve`), queued (`Enqueue`), reads its files and concepts (`Parse`), ends.
`crossed` marks the tests that were resolved, but not yet queued, when a change of
project looked for active tests; `swallowed` are the changes that went into the
snapshot by an acknowledge without a scan having seen them.

### Algorithms

`TagFilter` is the recursive-descent parser of `tag_filter.h` on tokens, its results
compared with a grammar. `Concepts` is the parser of concept files as a fold over
lines and the expansion, compared with a call semantics. `SpecParser` is the line
automaton as a state machine: every behaviour is one file. `Trends` is grouping,
trimming and comparison of results, `ProjectConfig` the completion of a configuration's
projects.

## 3. Properties and runs

| Run | Bounds | Checks |
|---|---|---|
| `queue` | 4 ids, 3 priorities, 6 enqueues | `PriorityFifo` |
| `engine` | 2 tests, 2 workers, 2 API threads, history limit 1, one crash, saves may fail, loads may throw | `SingleOwner`, `PersistBeforeVisible`, `NoOrphanFile`, `FinalEventOnce`, `CountedOnce`, `CancelHonoured`, and the engine implements `TestLifecycle` |
| `engine_live` | 2 tests, 1 worker, 1 API thread, `stop()`, loads may throw | `EveryTestEnds` (with its verdict announced), `StopCompletes` |
| `scenario_run` | 4 requests: two specifications over 2 streams (3 asked for), the same in sequence with fail_fast and a retry, and a plan with a specification that does not parse, in sequence, and over 2 streams with fail_fast; hooks, steps and the deadline may fail, cancellation | `EveryScenarioAccounted`, `VerdictSound`, `FailFastBounds`, `PolledNeverBack`, `RunEnds` |
| `pool` | 2 slots, 2 sessions, requests of 1 and 3 (cut to 2), dying processes, 1 restart each, 2 lifecycle calls, fair threads | `StepHasProcess`, `WaitsOnlyForDeadSlot`, `DrainEnds`, and the pool implements `SlotAllocator` |
| `runner` | an owner with 3 calls, an API thread with 1, pipes of one message | `AnswerMatches`, `NothingLeft`, `CallsReturn` |
| `scheduler` | 2 schedules, 4 texts (day or weekday, stepped, @weekly, a reversed range that is refused), two minutes around the midnight after Saturday 29 February, 2 edits, 1 fire by hand, 1 crash or failed save | `TickOncePerMinute`, `NoOverlap`, `CronMeansSource` |
| `notify` | four lives: one test with stop and dropped records, one with stop and cancellation, two tests with dropped records, one without callback that is cancelled and dropped; 2 attempts, backoff 1, bus history 2 | `OneStoryPerTest`, `PendingExact`, `EveryEndCalledBack`, `StopReturns` |
| `server` | 2 clients, 1 worker, dispatcher, hub; four lives: two clients and a stop; one with a broadcast, a fault and a stop; one with 2 requests, a broadcast and a fault; two clients with a fault | `ClosedOnce`, `PendingServed`, `StopReturns` |
| `server_reader_lost` | the same, expected to fail | `ReadersReclaimed` |
| `catalog` | 3 files in 2 projects, 2 API threads, watcher, 1 test; lives of 2 edits and 1 call, 1 edit and 2 calls, 2 calls and a test | `OneProjectPerTest`, `ConceptsCatchUp` |
| `text` | tag expressions up to 5 tokens, concept files up to 5 lines, all dictionaries of two concepts with all calls, histories up to 3 tests, results up to 2 scenarios, configurations up to 3 projects, specification files up to 3 lines, or 6 after a heading, expansion depth 16; connections of up to 3 requests, pieces of up to 3 bytes, heads of 3 and bodies of 2 at most | `TagsSelectAsWritten`, `ConceptsRunAsWritten`, `TrendsTellTheHistory`, `ConfigurationSettles`, `SpecReadAsWritten`, `RequestsAnsweredAsSent` |

Why the bounds are enough to be interesting. With a history limit of 1 the second
submission trims the first test; two API threads are enough for submit/cancel,
cancel/cancel and cancel/remove races on one test while a worker runs it; one crash
lands between any two steps, and calls go on after the restart. In the pool two
sessions asking for one or for both slots contend for a multi-slot reservation, and
a request of 3 exceeds it. In `scenario_run` the scenarios are dealt to two streams
across a broken specification, and both streams reach the deadline check, the
counters and the fail_fast flag at the same time; there one stream still has a
scenario to start when the other one's fails. A pipe of one message makes the
second message to a hung runner block; three calls of the owner are a start, a
request that times out and the one that might take its answer, of the same kind or of
another. Two minutes are
enough for a mark to be old or current, and two ids for an edit of one while the
tick stands at the other. In `notify` a second attempt is the first retry, and
dropped records, cancellation and stop each meet every stage of it; the lives keep
apart what would only multiply. A piece of 3 bytes can hold the end of one request and the
head of the next, and a head or a body one byte too long. One worker and two clients fill and drain
`pending_`; a broadcast and a fault are what meets a connection between its
registration and its reader. Two files of one project and one of the other let a scan,
an acknowledge and a switch each see only part of a change. The texts are long
enough for every ordered pair of line kinds in every section.

`MaxCrashes`, `MaxRequests`, `MaxRestarts`, `MaxLifecycle`, `MaxEnqueues`, `MaxCalls`,
`MaxEdits`, `MaxFireNow`, `Scripts`, `MaxFaults`, `MaxLines`, `MaxSpec` and the records of
`Lives` bound
what would otherwise grow without end. Threads of one kind, and ids that nothing tells
apart, are interchangeable (symmetry in the safety runs; neither abstract
specification tells them apart). Deadlock is checked where the model never has to
stop; elsewhere the number of calls is bounded or the daemon may stop, and the
liveness properties show that it stops nowhere else.

What the properties allow is as much a result as what they forbid:

* `CancelHonoured`: a cancellation accepted before the verdict is taken decides it, whether
  the test is with its submitter, in the queue or with a worker. One
  that comes between that and the publication is answered with success and the
  test ends as it was going to: `execute` reads the flag once. A test whose loading
  throws ends in error all the same.
* `EveryTestEnds` and `StopCompletes` excuse a worker that stays at the runner for ever.
  `reserveSlots` waits under no deadline and for nothing that a cancellation or
  `engine.stop()` would signal, and `TestHub::stop` stops the engine (`testhub.cpp:435`)
  before the runner (`:439`). When a reservation waits for ever is what
  `WaitsOnlyForDeadSlot` says, and when a step does what `CallsReturn` says.
* `FailFastBounds`: scenarios that were running in other streams when the first failure
  was counted go on and may fail too; none is started any more.
* `WaitsOnlyForDeadSlot`: a reservation of several slots waits for ever when one
  slot is dead for good and another one usable; nothing else waits for ever.
* `CallsReturn` excuses a write to a hung program whose pipe is full, and
  `StopReturns` of the server a send to a client that does not read: neither has a
  timeout.
* `TickOncePerMinute` excuses two submissions for one minute that have a crash or a failed
  save between them, or a fire by hand of this very schedule, which moves the mark.
* `OneProjectPerTest` excuses tests that were resolved, but not yet queued, when
  the change of project looked; `ConceptsCatchUp` excuses what an acknowledge
  swallowed. Both gaps are in the code.
  After an acknowledge has swallowed something `ConceptsCatchUp` asks nothing more of that
  behaviour.
* `EveryEndCalledBack` excuses dropped records, a daemon that stops, and a broadcast that
  never comes back: the WebSocket handler runs on the dispatcher of all events and sends
  without a timeout (`websocket_server.cpp:276`), so one client that does not read keeps
  every later end from the notifier.
* `SpecReadAsWritten` takes a warning about a second data table as an account of its rows;
  `ConceptsRunAsWritten` has the limit of 16 levels on both sides, so it says that
  expansion comes to an end, not where; `ConfigurationSettles` follows the project that was
  chosen only if the file gives all projects different ids.

The run that is expected to fail, `server_reader_lost`: `handleUpgrade` registers the
connection before its reader exists. A broadcast that fails in between takes it out
of the registry; the reader started afterwards finds itself removed and leaves
without being handed to `finishedReaders_`, although the comments at
`websocket_server.cpp:150` and `:304` say that every reader that ends by itself is
reclaimed. The thread object is destroyed joinable (`crashed` in the last state of the
trace). A reader that is over while the thread that closes its connection is about to
join it is not meant: `ReadersReclaimed` leaves it out (`BeingJoined`).

Other disagreements between code and documents were met and have no run:

* a task dequeued during shutdown becomes CANCELLED in memory only
  (`execution_engine.h` promises a file first);
* `trimHistory` counts unfinished records, so fewer than `history_limit` finished
  ones may be left;
* a cancellation noticed before the first attempt of a step makes the scenario
  FAILED; a concept whose inner steps a cancellation skipped stays PASSED;
* scenarios that are not run do not keep a list of skipped steps in parallel runs
  and skipped specifications (TODO.md says they do);
* an `after_spec` failure is an error in parallel runs, a message in sequential ones;
* DESIGN.md says that `rerun` with `failed_only` passes scenario names,
  `execution_engine.cpp:306` passes specification files;
* the automatic baseline of a comparison may be newer than the test;
* the line after a tag line that ends with a comma is taken whatever it is;
* compound words such as `not-ready` are read as a keyword and a tag;
* ends of tests that `engine.stop()` brings about are not called back, nor are
  events published before the subscription.

### Fairness

Threads that can take a step do (weak fairness per thread). Nobody has to submit,
cancel, remove, edit, fire, connect, stop or crash. Beyond that:

* `ExecutionEngine`: every thread goes on, except a worker at the runner, which may stay
  there. That runs end is `RunEnds` of `ScenarioRun`, that slots come is
  `WaitsOnlyForDeadSlot` of `RunnerPool`, that writes to a program return is `CallsReturn`
  of `ProcessRunner`.
* `RunnerPool`: strong fairness for `ReleaseSlot`, because a test has finitely many
  steps and between two steps its slot is `ready` again. Nothing queues the waiters,
  so a multi-slot request may starve behind an endless stream of single-slot ones;
  the number of requests is bounded in the run. That steps return leaves out the blocked
  writes that `CallsReturn` excuses.
* `ScenarioRun`: a hook or a step attempt answers because both have timeouts, the blocked
  writes that `CallsReturn` excuses left out.
* `ProcessRunner`: the program promises only to read and answer while it is up; that
  is what up means. It may hang or die at any moment.
* `CallbackNotifier`: a POST ends by its timeout and time passes; a broadcast need not end.
* `WebSocketServer`: each thread goes on unless it is in a send to a silent client.
* `SpecCatalog`: the watcher polls on and files settle.

## 4. Proofs

All theorems hold for every value of the constants that satisfies the modules'
named assumptions.

* **TestQueue** (`QueueTypeCorrect`, `QueueOrdered`, `QueueDistinct`,
  `QueueOvertaking` of the queue by itself, `EngineQueueOrdered` of the queue in the engine;
  assume `PriorityAssumption`). The order is inductive together with
  `SequencesIssued` (a newcomer's number is larger than all present ones) and
  `NoDuplicates`. The lemmas `InsertTaskEffect` and `EraseTaskEffect` say what the
  pure operations do to every position; `EnqueueAdds`, `DequeueTakes` and
  `CancelTakes` what each operation does to the set of queued tests.
* **RunnerPool** (`PoolTypeCorrect`, `PoolExclusive`, `PoolReplacedOnlyWhenIdle`,
  `PoolRestartingHasBearer`, `PoolStepHasProcess`, `PoolImplementsAllocator`; assumes
  `PoolAssumption`). The safety properties are inductive together with `AdminDrains` (a
  lifecycle call keeps the pool draining): exclusive use protects the process of a step,
  the drain protects the slots being replaced, and the bearer of a restarting mark is
  the only one who ends it. That the pool implements `SlotAllocator` follows step by
  step: `FirstOfSize` says that taking the first n free slots takes n of them, so
  a reservation is a grant of what was asked (`GrantStep`), and everything else gives back
  (`GiveBackStep`), seals (`LifecycleStep`) or changes nothing the allocator shows (`HeldStep`).
* **ExecutionEngine** (`EngineTypeCorrect`, `EngineSingleOwner`,
  `EnginePersistBeforeVisible`; assumes `EngineAssumption`). `Ownership` says that a test
  is unfinished exactly while somebody holds it, and that holders are unique.
  It is not inductive alone. It needs `BornFirst` (a fresh id has neither record
  nor file, so a submission cannot collide), `ClientsConsistent` and
  `WorkersConsistent` (threads remember what they hold), the queue's invariant,
  and `DownIsEmpty` (nothing is left over at a start). Each action is shown to do
  one of three things to each test: leave it where it is (`Kept`), move it into
  one pair of hands (`MovedTo`), or finish and let go of it (`LetGo`).
  `PersistBeforeVisible` further needs `PublishReady` (whoever is about to publish has
  saved) and `FilesOfErased` (a file waiting for deletion has no record and its id
  is used up); the lemmas `...RecordStep` and `...FileStep` say what any step can
  do to the record and to the file of one test, and use ownership: only the
  holder writes.
  Then what is about the past of a test (`EngineFinalEventOnce`, `EngineCountedOnce`,
  `EngineNoOrphanFile`, `EngineCancelHonoured`). Told once: a test gets
  somebody who has to announce its end only at the step that ends it, so it was
  unfinished until then, and an unfinished test has been told to nobody
  (`OneAnnouncer`, `NothingTold`, `ToldOnce`); and nothing but a removal touches the record
  between its verdict and the event (`SaidAsRecorded`, `VerdictStays`). No orphan: a file
  without a record is
  on the list of whoever erased the record, and only the holder of a test writes
  (`FilesListed`, `Answered`). Cancellation: an unfinished test keeps its flag from its
  submission on (`FlagKept`), a flag is put down only for
  fresh ids, and the verdict follows it: while a test of `acked` is unfinished its flag is up
  and a worker that has taken its verdict (`Deciding`) has taken CANCELLED (`Honoured`).
  `EngineImplementsLifecycle`: the engine implements `TestLifecycle`. While the process is
  up, `RecordStep` and `FileStep` give every test one of the moves of the abstract
  specification (`AliveAdvances`). A test of a process that is down is what its file
  says (`Life`): a file never contradicts a visible verdict (`VerdictOnDisk`), so the end
  of the process changes no verdict and revives no removed test (`DeathSurvived`), and the
  start loads what it finds or trims it (`StartReloads`).
* **ScenarioRun** (`RunPolledNeverBack`, `RunFailFastBounds`, `RunEveryScenarioAccounted`,
  `RunVerdictSound`; assumes `RunAssumption`). Counters: the stream in `publish` has the lock
  and its copy is the present count (`Locked`), so publishing it never goes back.
  fail_fast: a failure is counted and the flag raised in one critical section (`Flagged`), and
  a stream enters a scenario only where it has found the flag down, so that no step adds to
  the scenarios under way (`NothingStarts`); `Keeps` is what every step does about the three.
  All but two steps change one
  stream and no counter: `LocalStep` says what such a step may do.
  Accounting and verdict rest on a second invariant, `Account`: the counters are the
  cardinalities of what has a result or is in the hand of a publishing stream
  (`Tallied`); a stream leaves no scenario behind without a result unless a sequential
  run was stopped and skips whole specifications (`Walked`); a failure, an error or
  a skip has its reason on record (`Reasons`, `FlagEarned`); and a specification is closed
  with a state that tells of its scenarios (`Closing`). `...Moves` lemmas take one
  stream's step each, `...KeepsAccount` the steps that count, collect, close and decide.
* **ProcessRunner** (`RunnerTypeCorrect`, `RunnerAnswersMatch`, `RunnerDeathIsFinal`,
  `RunnerLeavesNothing`; assumes `ProcessRunnerAssumption`). An answer belongs to its
  request because ids only grow: whatever is on its way, in a pipe, in the
  program or among `responses_`, carries an id below `nextId_`, whatever carries the same id
  carries the same request, and a requester looks for its own id. The end of the output is
  final because only the reader files answers and only `Publish`, which looks for it, raises
  the flag (`EndSeen`, `StaysEnded`). Nothing is left because `stop` passes
  through the group kill and the join before it lets go of the process; the lemma
  `EndedKept` says which changes of a thread cannot undo that.
* **CronExpr** (`CronMatchesSource`; no assumption). For every source that parses and every
  broken-down time, `Matches` of the parsed bit sets is `Due`, the meaning of the
  text: `ItemMeans` and `FieldMeans` for one item and one field, `StarAdmits` for the fields
  that are all stars, `WeekdayMeans` for the two names of Sunday.
* **Scheduler** (`SchedulerTickOncePerMinute`, `SchedulerNoOverlap`, `SchedulerMeansSource`; assumes
  `SchedulerAssumption`). `TickOncePerMinute` is about the log of submissions alone. What
  makes it inductive is the mark `lastFired`: `Known` says of every schedule in memory and of
  every file that the mark is not behind any submission made for that text
  (`MadeFor`), unless a fault, or a fire by hand of that schedule, came since; `TickNotBehind` that
  no mark is beyond the minute of the tick, but for such a fire since the thread submitted
  last, so that `Fires` for it means it was not
  fired before; `LogSteps` and `CountsUp` that faults and fires by hand only grow along the log,
  so that what came between two submissions can be told from them (`MadeBefore`, `TickKept`);
  `LogPast` that creations, texts and faults still to come are not in the log, so
  that a new text starts with a clean slate; `FilesLoaded` and `DownIsEmpty` that a
  start finds what the files keep. `KnownKept` is the frame of all steps, `SavedInv` a
  save, `FireInv` a submission with its save, `GoneInv` a removal, `NewEntry` what one more
  submission does to the log. `NoOverlap` needs that a schedule
  outside `loose` still skips (`Known`).
* **CallbackNotifier** with **EventBus** (`NotifierTypeCorrect`, `NotifierPendingExact`,
  `NotifierOneStoryPerTest`; assumes `NotifierAssumption`). `PendingExact` is inductive with
  the types, the subscriptions and the handlers still to be called. `OneStoryPerTest` says
  something of posts only; what makes it true is that the end of a test is in one of seven
  hands (`Hands`): its thread's note, a publisher between its two critical sections, the
  queue, the dispatcher before it has called the handler, the handler, the jobs, the
  notifier's thread. `OneHand` and `HeldOnce` say that no other hand, and no second place
  of the same hand, holds it; `HandsKnow` that who holds it has the number of
  posts so far and an event that fits the record; `Called` that no second handler
  of the bus takes the same event. A step hands the end on (`HandedOver`), creates it where
  the test ends (`HandBorn`), posts it (`HandPosts`) or lets go of it (`HandsStay`); what was
  posted of a test stays true of its record, which can only be dropped. `NthOf` and
  `OnlyOf` are about the handlers that `remove_if` and the dispatcher's copy leave.
* **SpecCatalog** (`CatalogOneProjectPerTest`; assumes `SpecCatalogAssumption`). At most one
  thread is inside a change of project; the inductive part is that a queued test
  that no change crossed stands in the current directory, with nobody between the
  look for active tests and the loading of the concepts.
* **SpecParser** (`ParserReadsAsWritten`; no assumption). For files of every length; the bounds
  `MaxLines` and `MaxSpec` are only TLC's. An open table is somebody's and stands where his
  tables stand (`OpenTable`), because since the last step nothing came but blank lines and
  tables (`StepAbove`), and no step is there while the data table may still come
  (`SectionsFilled`). Steps stay in order because a section fills the last part
  of the document that has anything (`StepAppended`). A step that is neither in the document nor
  an error was taken by tags (`CommaAbove`); a row is in a finished table, in the open one
  or in a warning (`RowsKept`). `FlushLine` is the frame of every line that ends a table,
  `PlainLine`
  of those that are no steps.
* **WebSocketServer** (`SocketClosedOnce`; assumes `HttpServerAssumption` and
  `WebSocketServerAssumption`). The right to close a socket is in one place:
  with `pending_`, with the worker that serves it, with the registry, or with the thread
  that took the connection out of the registry and has not closed it yet. Every
  action moves that right or leaves it, and `close` uses it up.
* **HttpConnection** (`ConnectionInvariant`, `ConnectionAnswersAsSent`; assumes
  `DispatchAssumption`, `ConnectionAssumption`: `Chunk` is not above `MaxHeader`, as 8192 is
  not above 64 KiB, and requests lie end to end in the stream; and `RoutesAssumption`: routes have
  different names, and one that covers less than another has the better score, which is so
  for the routes of the API). For requests of any number and size and pieces of any
  size. The inductive part is where the stream stands: what is in `buffer` or `body` is a
  `Span` that begins where the last answered request ended, or its head, and ends at `got`
  (`Reading`, `ReadingBody`, `Serving`), with less than a piece behind the end of what was
  looked for.
  The stream itself gives the rest: heads do not overlap (`HeadsApart`), so the first end
  of a head in the buffer is that of the request in turn (`NextHead`, `HeadFound`) and its bytes
  are the
  head of no other (`HeadParsed`). `HeldBack` says that nothing has come of a body before
  the client was asked for it; so while the server waits for a body, the request the client holds
  back is a later one, and bytes of this one are still to come (`NoMutualWait`). `BestIs` is
  that any set of routes has a best one, `DispatchIs` that only routes answer under a route's
  name.

The inductive invariants were checked with TLC on the instances above before
they were proved. Stated by theorems and no longer run: the type invariants, and
`OvertakenOnlyByUrgent`, `UsersMatchHolders`, `ReplacedOnlyWhenIdle`,
`RestartingHasBearer` and `DeathIsFinal`.

Only model-checked: all liveness properties (fairness and ENABLED are out of the
prover's reach) and the properties of `text` but `SpecReadAsWritten` and
`RequestsAnsweredAsSent`: `TagFilter`, `Concepts`, `Trends` and `ProjectConfig` are recursive or
fold over data, and what they compute for every input needs induction over data, which the
prover does not offer.

## 5. Plan

Done: the queue, the engine, scenario runs, the pool and its processes, schedules,
the bus and callbacks, the two servers and their connections, the catalog of specifications, the
algorithms. Left, in this order:

1. the invariants under the liveness properties: that no thread waits where nobody
   will wake it, as safety;
2. compositions: `ScenarioRun` over `RunnerPool`, `ScenarioRun` under `ExecutionEngine`,
   the start order of TestHub with history being replayed;
3. `nextFire` of `CronExpr`, the frames of WebSocket connections.

## 6. Not modelled

* Formatting and parsing without shared state: JSON, conversions, JUnit and HTML
  reports, command line, the text of HTTP heads and answers, files served from disk, WebSocket
  frames, the arguments of
  a step, the check of dynamic parameters against a data table.
* Socket I/O of HttpClient, credentials (AuthPolicy compares strings), the web UI.
* Windows: the service and the Windows branches of ProcessRunner and the servers.
* The reference runners, which ProcessRunner's actions of the child stand for, and
  MockRunner with the bridge's shared slot.
* A program that leaves its process group, undefined behaviour of a destroyed
  process object, start and stop of the watcher's thread, `nextFire`, warnings about
  empty scenarios, the start order of TestHub.

`PROJECT.json` lists each part with its status.
