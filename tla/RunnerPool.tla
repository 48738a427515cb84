----------------------------- MODULE RunnerPool -----------------------------
(***************************************************************************)
(* The pool of runner processes (RunnerBridge,                             *)
(* src/src/runner/runner_bridge.cpp) for runners that are not concurrency  *)
(* safe: every slot is one process and belongs to one session at a time.   *)
(* Sessions reserve n slots at once, run steps on them, revive a dead      *)
(* process within its restart budget and give the slots back one by one,   *)
(* while start, stopRunner and restartRunner drain the pool and replace    *)
(* all processes.  A step of the model is one critical section of mutex_;  *)
(* processes may die at any moment.                                        *)
(***************************************************************************)
EXTENDS Naturals, FiniteSets

CONSTANTS
  PoolSize,       \* runner.pool_size, clamped to 1..kMaxPoolSize
  Sessions,       \* threads that acquire sessions (workers, HTTP threads)
  StreamCounts,   \* the numbers of slots a session may ask for
  AutoRestart,    \* runner.auto_restart
  MaxRestarts,    \* runner.max_restarts, per slot
  MayFail,        \* whether processes die and fail to start
  MaxRequests,    \* bound: reservations per session
  MaxLifecycle    \* bound: start, stopRunner and restartRunner calls

ASSUME PoolAssumption ==
  /\ PoolSize \in Nat \ {0}
  /\ StreamCounts \subseteq Nat \ {0}
  /\ AutoRestart \in BOOLEAN
  /\ MaxRestarts \in Nat
  /\ MayFail \in BOOLEAN
  /\ MaxRequests \in Nat
  /\ MaxLifecycle \in Nat

Slots == 0..(PoolSize - 1)

VARIABLES
  started,        \* slots_ is not empty
  state,          \* Slot::state
  runner,         \* Slot::runner: "none", or the process is "alive" or "dead"
  restartCount,   \* Slot::restartCount
  users,          \* Slot::users
  restarting,     \* Slot::restarting
  draining,       \* draining_
  want,           \* per session: slots it is waiting for, 0 when not waiting
  stream,         \* stream[s][i]: what the thread of s bound to slot i does
  requests,       \* per session: reservations made so far
  admin,          \* the call that holds lifecycleMutex_: [op, pc, pending]
  calls           \* lifecycle calls made so far

slotVars == <<started, state, runner, restartCount, users, restarting, draining>>
vars == <<started, state, runner, restartCount, users, restarting, draining,
          want, stream, requests, admin, calls>>

NoCall == [op |-> "none", pc |-> "idle", pending |-> {}]

Init ==
  /\ started = FALSE
  /\ state = [i \in Slots |-> "DISCONNECTED"]
  /\ runner = [i \in Slots |-> "none"]
  /\ restartCount = [i \in Slots |-> 0]
  /\ users = [i \in Slots |-> 0]
  /\ restarting = [i \in Slots |-> FALSE]
  /\ draining = FALSE
  /\ want = [s \in Sessions |-> 0]
  /\ stream = [s \in Sessions |-> [i \in Slots |-> "none"]]
  /\ requests = [s \in Sessions |-> 0]
  /\ admin = NoCall
  /\ calls = 0

HeldBy(s) == {i \in Slots : stream[s][i] # "none"}

-----------------------------------------------------------------------------
(* Reservation.                                                            *)

Usable(i) == state[i] # "RUNNER_ERROR" \/ (AutoRestart /\ restartCount[i] < MaxRestarts)

FreeAny    == {i \in Slots : users[i] = 0}
FreeUsable == {i \in FreeAny : Usable(i)}
Connected  == {i \in FreeUsable : state[i] = "CONNECTED"}

\* The n lowest indices of S, as the vectors are filled in slot order.
FirstOf(S, n) == {i \in S : Cardinality({j \in S : j < i}) < n}

\* Mutant: slots are handed out although the pool is draining.
Choice_WhileDraining(n) ==
  IF Cardinality(Connected) >= n THEN FirstOf(Connected, n)
  ELSE IF Cardinality(FreeUsable) >= n THEN FirstOf(FreeUsable, n)
  ELSE IF (\A i \in Slots : ~Usable(i)) /\ Cardinality(FreeAny) >= n
       THEN FirstOf(FreeAny, n)
  ELSE {}

\* Mutant: dead slots are never handed out.
Choice_NeverDead(n) ==
  IF draining THEN {}
  ELSE IF Cardinality(Connected) >= n THEN FirstOf(Connected, n)
  ELSE IF Cardinality(FreeUsable) >= n THEN FirstOf(FreeUsable, n)
  ELSE {}

\* The wait predicate of reserveSlotsLocked and the slots it chooses; {} means
\* that the caller keeps waiting.
Choice(n) ==
  IF draining THEN {}
  ELSE IF Cardinality(Connected) >= n THEN FirstOf(Connected, n)
  ELSE IF Cardinality(FreeUsable) >= n THEN FirstOf(FreeUsable, n)
  ELSE IF (\A i \in Slots : ~Usable(i)) /\ Cardinality(FreeAny) >= n
       THEN FirstOf(FreeAny, n)
  ELSE {}

\* A session asks for n slots; more than the pool has is cut down to its size.
Request(s, n) ==
  /\ want[s] = 0
  /\ HeldBy(s) = {}
  /\ requests[s] < MaxRequests
  /\ want' = [want EXCEPT ![s] = IF n > PoolSize THEN PoolSize ELSE n]
  /\ requests' = [requests EXCEPT ![s] = @ + 1]
  /\ UNCHANGED <<slotVars, stream, admin, calls>>

\* All slots at once, or none: a session never holds some and waits for more.
ReserveSlots(s) ==
  /\ want[s] > 0
  /\ started
  /\ Choice(want[s]) # {}
  /\ users' = [i \in Slots |-> IF i \in Choice(want[s]) THEN 1 ELSE users[i]]
  /\ stream' = [stream EXCEPT ![s] =
                  [i \in Slots |-> IF i \in Choice(want[s]) THEN "ready" ELSE @[i]]]
  /\ want' = [want EXCEPT ![s] = 0]
  /\ UNCHANGED <<started, state, runner, restartCount, restarting, draining, requests, admin, calls>>

\* Before the first start there are no slots: the caller gets an empty session.
ReserveNothing(s) ==
  /\ want[s] > 0
  /\ ~started
  /\ want' = [want EXCEPT ![s] = 0]
  /\ UNCHANGED <<slotVars, stream, requests, admin, calls>>

ReleaseSlot(s, i) ==
  /\ stream[s][i] = "ready"
  /\ stream' = [stream EXCEPT ![s][i] = "none"]
  /\ users' = [users EXCEPT ![i] = IF @ > 0 THEN @ - 1 ELSE @]
  /\ UNCHANGED <<started, state, runner, restartCount, restarting, draining, want,
                 requests, admin, calls>>

-----------------------------------------------------------------------------
(* Steps and hooks on a reserved slot.                                     *)

\* ensureAlive finds the process alive; the caller goes on to use it.
EnsureAlive(s, i) ==
  /\ stream[s][i] = "ready"
  /\ ~restarting[i]
  /\ runner[i] = "alive"
  /\ stream' = [stream EXCEPT ![s][i] = "stepping"]
  /\ UNCHANGED <<slotVars, want, requests, admin, calls>>

\* ensureAlive gives up: no automatic restart, or the budget is spent.  The
\* step fails with the slot's error and the session goes on.
RefuseRestart(s, i) ==
  /\ stream[s][i] = "ready"
  /\ ~restarting[i]
  /\ runner[i] # "alive"
  /\ ~AutoRestart \/ restartCount[i] >= MaxRestarts
  /\ state' = [state EXCEPT ![i] =
                 IF ~AutoRestart /\ @ = "DISCONNECTED" THEN @ ELSE "RUNNER_ERROR"]
  /\ UNCHANGED <<started, runner, restartCount, users, restarting, draining, want,
                 stream, requests, admin, calls>>

\* ensureAlive begins a restart; mutex_ is released while the process starts.
BeginRestart(s, i) ==
  /\ stream[s][i] = "ready"
  /\ ~restarting[i]
  /\ runner[i] # "alive"
  /\ AutoRestart
  /\ restartCount[i] < MaxRestarts
  /\ restartCount' = [restartCount EXCEPT ![i] = @ + 1]
  /\ restarting' = [restarting EXCEPT ![i] = TRUE]
  /\ runner' = [runner EXCEPT ![i] = "none"]
  /\ state' = [state EXCEPT ![i] = "CONNECTING"]
  /\ stream' = [stream EXCEPT ![s][i] = "starting"]
  /\ UNCHANGED <<started, users, draining, want, requests, admin, calls>>

\* The second critical section of startSlot: the process is there, or not.
SlotStarted(i, ok) ==
  /\ ok \/ MayFail
  /\ runner' = [runner EXCEPT ![i] = IF ok THEN "alive" ELSE "none"]
  /\ state' = [state EXCEPT ![i] = IF ok THEN "CONNECTED" ELSE "RUNNER_ERROR"]
  /\ restarting' = [restarting EXCEPT ![i] = FALSE]

\* Mutant: the result of startSlot is ignored.
EndRestart_IgnoresFailure(s, i, ok) ==
  /\ stream[s][i] = "starting"
  /\ SlotStarted(i, ok)
  /\ stream' = [stream EXCEPT ![s][i] = "stepping"]
  /\ UNCHANGED <<started, restartCount, users, draining, want, requests, admin, calls>>

EndRestart(s, i, ok) ==
  /\ stream[s][i] = "starting"
  /\ SlotStarted(i, ok)
  /\ stream' = [stream EXCEPT ![s][i] = IF ok THEN "stepping" ELSE "ready"]
  /\ UNCHANGED <<started, restartCount, users, draining, want, requests, admin, calls>>

\* The step or hook returns; a process that died during it is noticed here.
StepReturns(s, i) ==
  /\ stream[s][i] = "stepping"
  /\ state' = [state EXCEPT ![i] = IF runner[i] = "dead" THEN "RUNNER_ERROR" ELSE @]
  /\ stream' = [stream EXCEPT ![s][i] = "ready"]
  /\ UNCHANGED <<started, runner, restartCount, users, restarting, draining, want,
                 requests, admin, calls>>

\* The operating system's side: a runner process exits or is killed.
ProcessDies(i) ==
  /\ MayFail
  /\ runner[i] = "alive"
  /\ runner' = [runner EXCEPT ![i] = "dead"]
  /\ UNCHANGED <<started, state, restartCount, users, restarting, draining, want, stream,
                 requests, admin, calls>>

-----------------------------------------------------------------------------
(* start, stopRunner, restartRunner; lifecycleMutex_ admits one at a time.  *)

BeginLifecycle(op) ==
  /\ admin.pc = "idle"
  /\ calls < MaxLifecycle
  /\ IF op = "start" THEN \A i \in Slots : state[i] # "CONNECTED" ELSE started
  /\ draining' = TRUE
  /\ admin' = [op |-> op, pc |-> "drain", pending |-> {}]
  /\ calls' = calls + 1
  /\ UNCHANGED <<started, state, runner, restartCount, users, restarting, want, stream, requests>>

\* waitForIdle
Idle == \A i \in Slots : users[i] = 0 /\ ~restarting[i]

\* start goes on with fresh slots.
Rebuild ==
  /\ admin.pc = "drain"
  /\ admin.op = "start"
  /\ Idle
  /\ started' = TRUE
  /\ state' = [i \in Slots |-> "DISCONNECTED"]
  /\ runner' = [i \in Slots |-> "none"]
  /\ restartCount' = [i \in Slots |-> 0]
  /\ users' = [i \in Slots |-> 0]
  /\ restarting' = [i \in Slots |-> FALSE]
  /\ admin' = [admin EXCEPT !.pc = "starting", !.pending = Slots]
  /\ UNCHANGED <<draining, want, stream, requests, calls>>

\* stopAllSlots takes the processes out of the slots; they end outside the lock.
StopAllSlots ==
  /\ admin.pc = "drain"
  /\ admin.op \in {"stop", "restart"}
  /\ Idle
  /\ state' = [i \in Slots |-> "DISCONNECTED"]
  /\ runner' = [i \in Slots |-> "none"]
  /\ admin' = [admin EXCEPT !.pc = "stopping"]
  /\ UNCHANGED <<started, restartCount, users, restarting, draining, want, stream, requests, calls>>

\* Mutant: the pool is left draining.
StopRunnerReturns_StaysClosed ==
  /\ admin.pc = "stopping"
  /\ admin.op = "stop"
  /\ admin' = NoCall
  /\ UNCHANGED <<slotVars, want, stream, requests, calls>>

StopRunnerReturns ==
  /\ admin.pc = "stopping"
  /\ admin.op = "stop"
  /\ draining' = FALSE
  /\ admin' = NoCall
  /\ UNCHANGED <<started, state, runner, restartCount, users, restarting, want, stream, requests, calls>>

\* startAllSlots(restart = true) charges the restart to every slot's budget.
BeginStartAll ==
  /\ admin.pc = "stopping"
  /\ admin.op = "restart"
  /\ restartCount' = [i \in Slots |-> restartCount[i] + 1]
  /\ admin' = [admin EXCEPT !.pc = "starting", !.pending = Slots]
  /\ UNCHANGED <<started, state, runner, users, restarting, draining, want, stream, requests, calls>>

\* Slot 0 is started first, as a probe; the others follow in parallel threads.
BeginStartSlot(i) ==
  /\ admin.pc = "starting"
  /\ i \in admin.pending
  /\ i # 0 => 0 \notin admin.pending /\ ~restarting[0]
  /\ state' = [state EXCEPT ![i] = "CONNECTING"]
  /\ restarting' = [restarting EXCEPT ![i] = TRUE]
  /\ admin' = [admin EXCEPT !.pending = @ \ {i}]
  /\ UNCHANGED <<started, runner, restartCount, users, draining, want, stream, requests, calls>>

EndStartSlot(i, ok) ==
  /\ admin.pc = "starting"
  /\ i \notin admin.pending
  /\ restarting[i]
  /\ SlotStarted(i, ok)
  /\ UNCHANGED <<started, restartCount, users, draining, want, stream, requests, admin, calls>>

StartReturns ==
  /\ admin.pc = "starting"
  /\ admin.pending = {}
  /\ \A i \in Slots : ~restarting[i]
  /\ draining' = FALSE
  /\ admin' = NoCall
  /\ UNCHANGED <<started, state, runner, restartCount, users, restarting, want, stream, requests, calls>>

-----------------------------------------------------------------------------
StreamSteps(s, i) ==
  \/ EnsureAlive(s, i) \/ RefuseRestart(s, i) \/ BeginRestart(s, i)
  \/ \E ok \in BOOLEAN : EndRestart(s, i, ok)
  \/ StepReturns(s, i)

AdminSteps ==
  \/ Rebuild \/ StopAllSlots \/ StopRunnerReturns \/ BeginStartAll \/ StartReturns
  \/ \E i \in Slots : BeginStartSlot(i) \/ \E ok \in BOOLEAN : EndStartSlot(i, ok)

Next ==
  \/ \E s \in Sessions :
       \/ \E n \in StreamCounts : Request(s, n)
       \/ ReserveSlots(s) \/ ReserveNothing(s)
       \/ \E i \in Slots : StreamSteps(s, i) \/ ReleaseSlot(s, i)
  \/ \E i \in Slots : ProcessDies(i)
  \/ \E op \in {"start", "stop", "restart"} : BeginLifecycle(op)
  \/ AdminSteps

\* Threads take their next step; a restart attempt and a step end because both
\* have timeouts; a test has finitely many steps, so its streams sooner or
\* later release (strong fairness: between steps the slot is "ready" again and
\* again).  Nothing obliges anyone to make a request.
Fairness ==
  /\ \A s \in Sessions :
       /\ WF_vars(ReserveSlots(s) \/ ReserveNothing(s))
       /\ \A i \in Slots : WF_vars(StreamSteps(s, i)) /\ SF_vars(ReleaseSlot(s, i))
  /\ WF_vars(AdminSteps)

Spec == Init /\ [][Next]_vars
FairSpec == Spec /\ Fairness

-----------------------------------------------------------------------------
(* Properties.                                                             *)

\* Type invariant of the pool.
TypeOK ==
  /\ started \in BOOLEAN
  /\ state \in [Slots -> {"DISCONNECTED", "CONNECTING", "CONNECTED", "RUNNER_ERROR"}]
  /\ runner \in [Slots -> {"none", "alive", "dead"}]
  /\ restartCount \in [Slots -> Nat]
  /\ users \in [Slots -> Nat]
  /\ restarting \in [Slots -> BOOLEAN]
  /\ draining \in BOOLEAN
  /\ want \in [Sessions -> Nat]
  /\ stream \in [Sessions -> [Slots -> {"none", "ready", "starting", "stepping"}]]
  /\ requests \in [Sessions -> Nat]
  /\ admin \in [op: {"none", "start", "stop", "restart"},
                pc: {"idle", "drain", "stopping", "starting"}, pending: SUBSET Slots]
  /\ calls \in Nat

\* users counts the sessions that hold a slot, and that is never more than one:
\* no two tests share a process, and no slot leaks or is freed under a session.
UsersMatchHolders ==
  \A i \in Slots :
    \/ users[i] = 0 /\ \A s \in Sessions : stream[s][i] = "none"
    \/ users[i] = 1 /\ \E s \in Sessions :
         stream[s][i] # "none" /\ \A r \in Sessions \ {s} : stream[r][i] = "none"

\* While stopRunner, restartRunner or start replaces the processes, which it
\* does with mutex_ released, no session holds a slot and none can get one.
ReplacedOnlyWhenIdle ==
  admin.pc \in {"stopping", "starting"} =>
    draining /\ \A s \in Sessions : HeldBy(s) = {}

\* The restarting mark has exactly one bearer, the thread that will clear it:
\* the session that revives the slot or the lifecycle call, never both, and the
\* mark is on exactly the slots that are CONNECTING.  A mark without a bearer
\* would block ensureAlive and waitForIdle for ever.
RestartingHasBearer ==
  \A i \in Slots :
    /\ restarting[i] <=> state[i] = "CONNECTING"
    /\ (\E s \in Sessions : stream[s][i] = "starting") => restarting[i]
    /\ restarting[i] =>
         \/ /\ admin.pc = "starting" /\ i \notin admin.pending
            /\ \A s \in Sessions : stream[s][i] # "starting"
         \/ /\ admin.pc \notin {"stopping", "starting"}
            /\ \E s \in Sessions : stream[s][i] = "starting"

\* executeStep and runHook read slot.runner after ensureAlive has released
\* mutex_: the pointer they read is never null.
StepHasProcess ==
  \A s \in Sessions, i \in Slots : stream[s][i] = "stepping" => runner[i] # "none"

Allocator == INSTANCE SlotAllocator WITH
  sealed <- admin.pc \in {"stopping", "starting"},
  holders <- [i \in Slots |-> {s \in Sessions : stream[s][i] # "none"}]

\* The pool is an all-or-nothing allocator of exclusive slots: see SlotAllocator.
ImplementsAllocator == Allocator!Spec

\* What the wait predicate of reserveSlotsLocked guarantees: a session waits
\* for ever only for several slots, from a pool in which some slot is dead for
\* good while another is still usable.
WaitsOnlyForDeadSlot ==
  \A s \in Sessions :
    \/ []<>(want[s] = 0)
    \/ <>[](/\ want[s] > 1
           /\ \E i \in Slots : ~Usable(i)
           /\ \E j \in Slots : Usable(j))

\* stopRunner and restartRunner come to an end: sessions are drained and the
\* pool opens again.
DrainEnds == draining ~> ~draining
=============================================================================
