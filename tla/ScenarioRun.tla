----------------------------- MODULE ScenarioRun -----------------------------
(***************************************************************************)
(* One test from its loaded specifications to its verdict:                 *)
(* ExecutionEngine::execute and what it calls (executeSequential,          *)
(* executeParallel, executeSpec, executeScenario, executeStep) in          *)
(* src/src/engine/execution_engine.cpp.  A request with one stream takes   *)
(* the sequential path; with more, the scenarios are dealt to stream       *)
(* threads that share the RunContext: its counters under runMutex, and the *)
(* flags cancelled, timedOut and failFastTriggered, which are atomics.     *)
(* The runner is external: a hook succeeds or fails, a step attempt        *)
(* returns a state.  Cancellation and the deadline come at any moment.     *)
(***************************************************************************)
EXTENDS Naturals, Sequences, FiniteSets

CONSTANTS
  Requests,       \* the runs: [plan, streams, failFast, retries]
  Outcomes,       \* what a step attempt may return
  FailingHooks,   \* the hooks that may fail
  MayExpire       \* whether the deadline may pass

\* A plan is the sequence of loaded specifications.  items are the selected
\* scenarios, once per data row, each the sequence of its steps; a step is the
\* number of steps inside it if it is a concept, and 0 if it is not.
IsPlan(p) ==
  /\ p \in Seq([ok: BOOLEAN, contexts: Seq(Nat), items: Seq(Seq(Nat)), teardowns: Seq(Nat)])
  /\ \A s \in DOMAIN p : ~p[s].ok => p[s].items = <<>>

ASSUME RunAssumption ==
  /\ \A r \in Requests :
       /\ IsPlan(r.plan)
       /\ r.streams \in Nat \ {0}
       /\ r.failFast \in BOOLEAN
       /\ r.retries \in Nat
  /\ Outcomes \subseteq {"PASSED", "FAILED", "TEST_ERROR", "SKIPPED"}
  /\ FailingHooks \subseteq {"before_suite", "after_suite", "before_spec", "after_spec",
                             "before_scenario", "after_scenario"}
  /\ MayExpire \in BOOLEAN

VARIABLES
  request,    \* the request and its plan, fixed for the run
  cancelled,  \* *ctx.cancelled
  expired,    \* the deadline has passed
  timedOut,   \* ctx.timedOut
  failFastTriggered,
  errors,     \* ctx.result.errors: how often each kind was added
  status,     \* the counters of ctx.status
  polled,     \* the counters in records_, which clients poll
  runMutex,   \* the stream that holds ctx.runMutex in applyScenarioOutcome, or 0
  stream,     \* per stream: its thread
  results,    \* the state of every finished scenario, "none" before
  hookErrors, \* per specification: the spec hooks that failed
  specState,  \* the states in ctx.result.specResults, "none" before
  final       \* ctx.result.finalState, "none" before

shared == <<cancelled, expired, timedOut, failFastTriggered, errors>>
counts == <<status, polled, runMutex>>
record == <<results, hookErrors, specState, final>>
vars == <<request, shared, counts, stream, record>>

Plan       == request.plan
Specs      == DOMAIN Plan
Items      == UNION {{s} \X DOMAIN Plan[s].items : s \in Specs}

\* A test gets no more streams than it has scenarios.
StreamCount ==
  LET total == Cardinality(Items)
  IN  IF total > 0 /\ request.streams > total THEN total ELSE request.streams

Streams    == 1..StreamCount
Sequential == StreamCount = 1

ErrorKinds == {"timeout", "before_suite", "after_suite", "load"}
NoCounts   == [executed |-> 0, passed |-> 0, failed |-> 0, skipped |-> 0]

-----------------------------------------------------------------------------
(* How the work is dealt out.                                              *)

\* Work::order of the first item of every specification, counted from 0.
FirstOrder == [s \in Specs |-> Cardinality({i \in Items : i[1] < s})]

\* Mutant: one bucket more than there are streams.
Bucket_OffByOne(s, k) == (FirstOrder[s] + k - 1) % (StreamCount + 1)

\* buckets[order % n]: the stream an item goes to.
Bucket(s, k) == ((FirstOrder[s] + k - 1) % StreamCount) + 1

\* The items of specification s on stream j, after item k.
ItemsAfter(j, s, k) == {i \in DOMAIN Plan[s].items : i > k /\ Bucket(s, i) = j}

\* The specifications a stream visits after s: all of them in the sequential
\* run, those it has items of in the parallel one (bySpec).
SpecsAfter(j, s) == {t \in Specs : t > s /\ (Sequential \/ ItemsAfter(j, t, 0) # {})}

Least(S) == CHOOSE i \in S : \A j \in S : i <= j

Tagged(part, steps) == [i \in DOMAIN steps |-> [part |-> part, inner |-> steps[i]]]

\* contexts, steps and teardowns of an item, in the order runSteps gets them.
Steps(s, k) ==
  Tagged("context", Plan[s].contexts) \o Tagged("step", Plan[s].items[k])
    \o Tagged("teardown", Plan[s].teardowns)

-----------------------------------------------------------------------------
(* execute: what is known before the streams start.                        *)

Idle == [pc |-> "before_suite", suiteOk |-> TRUE, specOk |-> TRUE, late |-> FALSE,
         spec |-> 0, item |-> 0, step |-> 0, inner |-> 0, attempts |-> 0,
         state |-> "PASSED", stepState |-> "PASSED", stop |-> FALSE,
         innerStop |-> FALSE, anySkipped |-> FALSE,
         snap |-> NoCounts]

Init ==
  /\ request \in Requests
  /\ cancelled = FALSE
  /\ expired = FALSE
  /\ timedOut = FALSE
  /\ failFastTriggered = FALSE
  /\ errors = [e \in ErrorKinds |->
                 IF e = "load" /\ ~Sequential THEN Cardinality({s \in Specs : ~Plan[s].ok}) ELSE 0]
  /\ status = NoCounts
  /\ polled = NoCounts
  /\ runMutex = 0
  /\ stream = [j \in Streams |-> Idle]
  /\ results = [i \in Items |-> "none"]
  /\ hookErrors = [s \in Specs |-> {}]
  /\ specState = [s \in Specs |-> "none"]
  /\ final = "none"

-----------------------------------------------------------------------------
(* Flags.                                                                  *)

ShouldStop == cancelled \/ timedOut \/ failFastTriggered

At(j, pc) == stream[j].pc = pc /\ ~stream[j].late

ThisStep(j) == Steps(stream[j].spec, stream[j].item)[stream[j].step]
StepsLeft(j) == stream[j].step <= Len(Steps(stream[j].spec, stream[j].item))

\* cancel() sets the flag of a running test.
Cancel ==
  /\ final = "none"
  /\ ~cancelled
  /\ cancelled' = TRUE
  /\ UNCHANGED <<request, expired, timedOut, failFastTriggered, errors, counts, stream, record>>

DeadlinePasses ==
  /\ MayExpire
  /\ final = "none"
  /\ ~expired
  /\ expired' = TRUE
  /\ UNCHANGED <<request, cancelled, timedOut, failFastTriggered, errors, counts, stream, record>>

\* The places where a stream calls checkTimeout.
ChecksTimeout(j) ==
  \/ At(j, "spec") /\ Sequential /\ SpecsAfter(j, stream[j].spec) # {} /\ ~ShouldStop
  \/ At(j, "item") /\ stream[j].suiteOk /\ stream[j].specOk /\ ~ShouldStop
  \/ At(j, "step") /\ StepsLeft(j) /\ ~stream[j].stop /\ ~cancelled
  \/ At(j, "attempt") /\ ~cancelled

\* checkTimeout finds the deadline passed and nobody has said so yet ...
SeesDeadline(j) ==
  /\ ChecksTimeout(j)
  /\ expired
  /\ ~timedOut
  /\ stream' = [stream EXCEPT ![j].late = TRUE]
  /\ UNCHANGED <<request, shared, counts, record>>

\* ... and says so under runMutex, unless another stream has meanwhile.  The
\* caller goes on where it was, now with timedOut set.
RecordTimeout(j) ==
  /\ stream[j].late
  /\ runMutex = 0
  /\ timedOut' = TRUE
  /\ errors' = [errors EXCEPT !["timeout"] = IF timedOut THEN @ ELSE @ + 1]
  /\ stream' = [stream EXCEPT ![j].late = FALSE]
  /\ UNCHANGED <<request, cancelled, expired, failFastTriggered, counts, record>>

-----------------------------------------------------------------------------
(* Suite and specifications.                                               *)

HookReturns(hook, ok) == ok \/ hook \in FailingHooks

BeforeSuite(j, ok) ==
  /\ At(j, "before_suite")
  /\ HookReturns("before_suite", ok)
  /\ errors' = [errors EXCEPT !["before_suite"] = IF ok THEN @ ELSE @ + 1]
  /\ stream' = [stream EXCEPT ![j].pc = "spec", ![j].suiteOk = ok]
  /\ UNCHANGED <<request, cancelled, expired, timedOut, failFastTriggered, counts, record>>

\* The sequential run skips a specification as a whole; its scenarios are
\* neither listed nor counted.
SkipSpec(j) ==
  LET s == Least(SpecsAfter(j, stream[j].spec)) IN
  /\ At(j, "spec")
  /\ Sequential
  /\ SpecsAfter(j, stream[j].spec) # {}
  /\ ShouldStop \/ (~stream[j].suiteOk /\ ~expired)
  /\ specState' = [specState EXCEPT ![s] = IF cancelled THEN "CANCELLED" ELSE "SKIPPED"]
  /\ stream' = [stream EXCEPT ![j].spec = s]
  /\ UNCHANGED <<request, shared, counts, results, hookErrors, final>>

\* The sequential run meets a specification that did not parse.
LoadError(j) ==
  LET s == Least(SpecsAfter(j, stream[j].spec)) IN
  /\ At(j, "spec")
  /\ Sequential
  /\ SpecsAfter(j, stream[j].spec) # {}
  /\ ~ShouldStop /\ ~expired /\ stream[j].suiteOk
  /\ ~Plan[s].ok
  /\ specState' = [specState EXCEPT ![s] = "TEST_ERROR"]
  /\ errors' = [errors EXCEPT !["load"] = @ + 1]
  /\ polled' = status
  /\ stream' = [stream EXCEPT ![j].spec = s]
  /\ UNCHANGED <<request, cancelled, expired, timedOut, failFastTriggered, status, runMutex,
                 results, hookErrors, final>>

\* The next specification of the stream.  After a failed before_suite a stream
\* of the parallel run goes straight to the items, to skip them.
EnterSpec(j) ==
  LET s == Least(SpecsAfter(j, stream[j].spec)) IN
  /\ At(j, "spec")
  /\ SpecsAfter(j, stream[j].spec) # {}
  /\ Sequential => ~ShouldStop /\ ~expired /\ stream[j].suiteOk /\ Plan[s].ok
  /\ stream' = [stream EXCEPT ![j].spec = s,
                  ![j].pc = IF stream[j].suiteOk THEN "before_spec" ELSE "item",
                  ![j].item = IF stream[j].suiteOk THEN 0 ELSE Least(ItemsAfter(j, s, 0))]
  /\ polled' = IF Sequential THEN status ELSE polled
  /\ UNCHANGED <<request, shared, status, runMutex, record>>

BeforeSpec(j, ok) ==
  LET s == stream[j].spec
      items == ItemsAfter(j, s, 0)
  IN
  /\ At(j, "before_spec")
  /\ HookReturns("before_spec", ok)
  /\ hookErrors' = [hookErrors EXCEPT ![s] = IF ok THEN @ ELSE @ \cup {"before_spec"}]
  /\ stream' = [stream EXCEPT ![j].specOk = ok,
                  ![j].pc = IF items = {} THEN "after_spec" ELSE "item",
                  ![j].item = IF items = {} THEN 0 ELSE Least(items)]
  /\ UNCHANGED <<request, shared, counts, results, specState, final>>

\* Skipped: before_suite or before_spec failed, or the test is to stop.
SkipItem(j) ==
  /\ At(j, "item")
  /\ ~stream[j].suiteOk \/ ~stream[j].specOk \/ ShouldStop
  /\ stream' = [stream EXCEPT ![j].pc = "apply",
                  ![j].state = IF stream[j].suiteOk /\ cancelled THEN "CANCELLED" ELSE "SKIPPED"]
  /\ UNCHANGED <<request, shared, counts, record>>

\* Mutant: the flag of fail_fast is kept per stream.
StartScenario_OwnFailures(j) ==
  /\ At(j, "item")
  /\ stream[j].suiteOk /\ stream[j].specOk /\ ~cancelled /\ ~timedOut /\ ~expired
  /\ \A i \in Items : Bucket(i[1], i[2]) = j => results[i] \notin {"FAILED", "TEST_ERROR"}
  /\ stream' = [stream EXCEPT ![j].pc = "before_scenario"]
  /\ UNCHANGED <<request, shared, counts, record>>

StartScenario(j) ==
  /\ At(j, "item")
  /\ stream[j].suiteOk /\ stream[j].specOk /\ ~ShouldStop /\ ~expired
  /\ stream' = [stream EXCEPT ![j].pc = "before_scenario"]
  /\ UNCHANGED <<request, shared, counts, record>>

-----------------------------------------------------------------------------
(* executeScenario and executeStep.                                        *)

\* The teardowns have a stop flag of their own, clear when the first begins.
StopAt(s, k, i, stop) ==
  LET steps == Steps(s, k)
      firstTeardown == i \in DOMAIN steps /\ steps[i].part = "teardown"
                         /\ (i = 1 \/ steps[i - 1].part # "teardown")
  IN  stop /\ ~firstTeardown

BeforeScenario(j, ok) ==
  /\ At(j, "before_scenario")
  /\ HookReturns("before_scenario", ok)
  /\ stream' = [stream EXCEPT ![j].pc = "step", ![j].step = 1,
                  ![j].state = IF ok THEN "PASSED" ELSE "TEST_ERROR",
                  ![j].stop = StopAt(stream[j].spec, stream[j].item, 1, ~ok),
                  ![j].anySkipped = FALSE]
  /\ UNCHANGED <<request, shared, counts, record>>

\* runSteps after a step that returned res; halt is stopScenario.
EndStep(j, res, halt) ==
  LET r == stream[j] IN
  stream' = [stream EXCEPT ![j].pc = "step", ![j].step = @ + 1,
               ![j].stop = StopAt(r.spec, r.item, r.step + 1, @ \/ halt),
               ![j].state = IF ~halt THEN @
                            ELSE IF "TEST_ERROR" \in {res, @} THEN "TEST_ERROR" ELSE "FAILED",
               ![j].anySkipped = @ \/ (res = "SKIPPED" /\ ThisStep(j).part = "step"),
               ![j].inner = 0, ![j].attempts = 0, ![j].innerStop = FALSE,
               ![j].stepState = "PASSED"]

\* A step outside concepts ends the step; one inside a concept hands over to the
\* next, and the concept takes the state of the one that stopped it.
EndInner(j, res, halt) ==
  LET r == stream[j] IN
  IF ThisStep(j).inner = 0 THEN EndStep(j, res, halt)
  ELSE IF r.inner = ThisStep(j).inner
       THEN EndStep(j, IF halt THEN res ELSE r.stepState, halt \/ r.innerStop)
  ELSE stream' = [stream EXCEPT ![j].pc = "inner", ![j].inner = @ + 1, ![j].attempts = 0,
                    ![j].innerStop = @ \/ halt,
                    ![j].stepState = IF halt THEN res ELSE @]

SkipStep(j) ==
  /\ At(j, "step")
  /\ StepsLeft(j)
  /\ stream[j].stop \/ cancelled \/ timedOut
  /\ EndStep(j, "SKIPPED", FALSE)
  /\ UNCHANGED <<request, shared, counts, record>>

BeginStep(j) ==
  /\ At(j, "step")
  /\ StepsLeft(j)
  /\ ~stream[j].stop /\ ~cancelled /\ ~timedOut /\ ~expired
  /\ stream' = [stream EXCEPT ![j].pc = IF ThisStep(j).inner = 0 THEN "attempt" ELSE "inner",
                  ![j].inner = IF ThisStep(j).inner = 0 THEN 0 ELSE 1]
  /\ UNCHANGED <<request, shared, counts, record>>

\* Inside a concept only an earlier stop and cancellation skip a step.
SkipInner(j) ==
  /\ At(j, "inner")
  /\ stream[j].innerStop \/ cancelled
  /\ EndInner(j, stream[j].stepState, FALSE)
  /\ UNCHANGED <<request, shared, counts, record>>

BeginInner(j) ==
  /\ At(j, "inner")
  /\ ~stream[j].innerStop /\ ~cancelled
  /\ stream' = [stream EXCEPT ![j].pc = "attempt"]
  /\ UNCHANGED <<request, shared, counts, record>>

\* Mutant: attempts are not counted.
Attempt_NotCounted(j) ==
  /\ At(j, "attempt")
  /\ ~cancelled /\ ~timedOut /\ ~expired
  /\ stream' = [stream EXCEPT ![j].pc = "call"]
  /\ UNCHANGED <<request, shared, counts, record>>

Attempt(j) ==
  /\ At(j, "attempt")
  /\ ~cancelled /\ ~timedOut /\ ~expired
  /\ stream' = [stream EXCEPT ![j].pc = "call", ![j].attempts = @ + 1]
  /\ UNCHANGED <<request, shared, counts, record>>

\* The test is to stop: a step not yet attempted is cancelled or in error, one
\* that waits for its next attempt stays failed; either stops the scenario.
GiveUp(j) ==
  /\ At(j, "attempt")
  /\ cancelled \/ timedOut
  /\ EndInner(j, IF stream[j].attempts > 0 THEN "FAILED"
                 ELSE IF cancelled THEN "CANCELLED" ELSE "TEST_ERROR", TRUE)
  /\ UNCHANGED <<request, shared, counts, record>>

CanRetry(j, res) ==
  res = "FAILED" /\ stream[j].attempts <= request.retries /\ ~cancelled /\ ~timedOut

\* The runner answers.
StepReturns(j, res) ==
  /\ At(j, "call")
  /\ IF CanRetry(j, res)
     THEN stream' = [stream EXCEPT ![j].pc = "attempt"]
     ELSE EndInner(j, res, res \in {"FAILED", "TEST_ERROR"})
  /\ UNCHANGED <<request, shared, counts, record>>

\* The end of executeScenario: a scenario without a failure is cancelled or in
\* error if a step of its own was skipped because the test was to stop.
AfterScenario(j, ok) ==
  LET r == stream[j]
      interrupted ==
        IF cancelled
        THEN IF r.anySkipped \/ Plan[r.spec].items[r.item] = <<>> THEN "CANCELLED" ELSE "PASSED"
        ELSE IF timedOut /\ r.anySkipped THEN "TEST_ERROR" ELSE "PASSED"
  IN
  /\ At(j, "step")
  /\ ~StepsLeft(j)
  /\ HookReturns("after_scenario", ok)
  /\ stream' = [stream EXCEPT ![j].pc = "apply", ![j].step = 0, ![j].stop = FALSE,
                  ![j].state = IF @ # "PASSED" THEN @ ELSE IF ~ok THEN "FAILED" ELSE interrupted,
                  ![j].anySkipped = FALSE]
  /\ UNCHANGED <<request, shared, counts, record>>

-----------------------------------------------------------------------------
(* applyScenarioOutcome, updateStatus and the collection of results.       *)

Failure == {"FAILED", "TEST_ERROR"}

Counted(c, state) ==
  [executed |-> c.executed + (IF state \in Failure \cup {"PASSED"} THEN 1 ELSE 0),
   passed   |-> c.passed + (IF state = "PASSED" THEN 1 ELSE 0),
   failed   |-> c.failed + (IF state \in Failure THEN 1 ELSE 0),
   skipped  |-> c.skipped + (IF state \in Failure \cup {"PASSED"} THEN 0 ELSE 1)]

\* Mutant: updateStatus is called after runMutex has been released.
ApplyOutcome_Unlocked(j) ==
  /\ At(j, "apply")
  /\ runMutex = 0
  /\ status' = Counted(status, stream[j].state)
  /\ failFastTriggered' = (failFastTriggered \/ (request.failFast /\ stream[j].state \in Failure))
  /\ stream' = [stream EXCEPT ![j].pc = "publish", ![j].snap = status']
  /\ UNCHANGED <<request, cancelled, expired, timedOut, errors, polled, runMutex, record>>

\* The outcome is counted and the counters are copied, under runMutex.
ApplyOutcome(j) ==
  /\ At(j, "apply")
  /\ runMutex = 0
  /\ runMutex' = j
  /\ status' = Counted(status, stream[j].state)
  /\ failFastTriggered' = (failFastTriggered \/ (request.failFast /\ stream[j].state \in Failure))
  /\ stream' = [stream EXCEPT ![j].pc = "publish", ![j].snap = status']
  /\ UNCHANGED <<request, cancelled, expired, timedOut, errors, polled, record>>

\* The copy goes to records_, runMutex is released and the result collected.
Publish(j) ==
  LET r == stream[j]
      items == ItemsAfter(j, r.spec, r.item)
  IN
  /\ At(j, "publish")
  /\ polled' = r.snap
  /\ runMutex' = 0
  /\ results' = [results EXCEPT ![<<r.spec, r.item>>] = r.state]
  /\ stream' = [stream EXCEPT ![j].snap = NoCounts, ![j].state = "PASSED",
                  ![j].item = IF items = {} THEN 0 ELSE Least(items),
                  ![j].pc = IF items # {} THEN "item"
                            ELSE IF r.suiteOk THEN "after_spec" ELSE "spec"]
  /\ UNCHANGED <<request, shared, status, hookErrors, specState, final>>

Aggregate(failed, errored, skipped, total, cancel) ==
  IF cancel THEN "CANCELLED"
  ELSE IF errored > 0 /\ failed = 0 THEN "TEST_ERROR"
  ELSE IF failed > 0 \/ errored > 0 THEN "FAILED"
  ELSE IF total > 0 /\ skipped = total THEN "SKIPPED"
  ELSE "PASSED"

\* Mutant: a failed before_spec hook does not make the specification fail.
SpecVerdict_NoHooks(s, hooks) ==
  LET With(S) == Cardinality({k \in DOMAIN Plan[s].items : results[<<s, k>>] \in S})
      total   == Len(Plan[s].items)
  IN  IF ~Plan[s].ok THEN "TEST_ERROR"
      ELSE IF total = 0 THEN "SKIPPED"
      ELSE Aggregate(With({"FAILED"}), With({"TEST_ERROR"}), With({"SKIPPED", "CANCELLED"}), total,
                     cancelled /\ With({"PASSED", "FAILED", "TEST_ERROR"}) = 0)

\* The state of a specification from its results and the spec hooks that
\* failed.  The sequential run looks at before_spec only, and an empty
\* specification is skipped whatever its hooks did; the parallel one looks at
\* both hooks first.
SpecVerdict(s, hooks) ==
  LET With(S) == Cardinality({k \in DOMAIN Plan[s].items : results[<<s, k>>] \in S})
      total   == Len(Plan[s].items)
  IN  IF ~Plan[s].ok THEN "TEST_ERROR"
      ELSE IF Sequential /\ total = 0 THEN "SKIPPED"
      ELSE IF (IF Sequential THEN "before_spec" \in hooks ELSE hooks # {}) THEN "TEST_ERROR"
      ELSE IF total = 0 THEN "SKIPPED"
      ELSE Aggregate(With({"FAILED"}), With({"TEST_ERROR"}), With({"SKIPPED", "CANCELLED"}), total,
                     cancelled /\ With({"PASSED", "FAILED", "TEST_ERROR"}) = 0)

\* after_spec; the sequential run then closes the specification.
AfterSpec(j, ok) ==
  LET s == stream[j].spec
      hooks == IF ok THEN hookErrors[s] ELSE hookErrors[s] \cup {"after_spec"}
  IN
  /\ At(j, "after_spec")
  /\ HookReturns("after_spec", ok)
  /\ hookErrors' = [hookErrors EXCEPT ![s] = hooks]
  /\ specState' = IF Sequential THEN [specState EXCEPT ![s] = SpecVerdict(s, hooks)] ELSE specState
  /\ polled' = IF Sequential THEN status ELSE polled
  /\ stream' = [stream EXCEPT ![j].pc = "spec", ![j].specOk = TRUE]
  /\ UNCHANGED <<request, shared, status, runMutex, results, final>>

\* after_suite runs whatever happened before it.
AfterSuite(j, ok) ==
  /\ At(j, "spec")
  /\ SpecsAfter(j, stream[j].spec) = {}
  /\ HookReturns("after_suite", ok)
  /\ errors' = [errors EXCEPT !["after_suite"] = IF ok THEN @ ELSE @ + 1]
  /\ stream' = [stream EXCEPT ![j].pc = "done"]
  /\ UNCHANGED <<request, cancelled, expired, timedOut, failFastTriggered, counts, record>>

Joined == \A j \in Streams : stream[j].pc = "done"

\* executeParallel after the join: the specifications are closed in their order,
\* with the cancellation flag read for each; then the status is published.
CloseSpec ==
  LET open == {s \in Specs : specState[s] = "none"} IN
  /\ ~Sequential
  /\ Joined
  /\ open # {}
  /\ specState' = [specState EXCEPT ![Least(open)] = 
                    SpecVerdict(Least(open), hookErrors[Least(open)])]
  /\ polled' = IF open = {Least(open)} THEN status ELSE polled
  /\ UNCHANGED <<request, shared, status, runMutex, stream, results, hookErrors, final>>

\* The verdict on the test; nothing executed is not a pass.
Verdict ==
  LET failing == Cardinality({s \in Specs : specState[s] \notin {"PASSED", "SKIPPED", "CANCELLED"}})
      errored == Cardinality({s \in Specs : specState[s] = "TEST_ERROR"})
      state   == Aggregate(failing - errored, errored, 0, Len(Plan), FALSE)
  IN  IF cancelled THEN "CANCELLED"
      ELSE IF timedOut \/ errors["before_suite"] > 0 THEN "TEST_ERROR"
      ELSE IF state = "PASSED" /\ status.passed = 0 /\ status.failed = 0 THEN "SKIPPED"
      ELSE state

Finish ==
  /\ Joined
  /\ final = "none"
  /\ \A s \in Specs : specState[s] # "none"
  /\ final' = Verdict
  /\ UNCHANGED <<request, shared, counts, stream, results, hookErrors, specState>>

-----------------------------------------------------------------------------
StreamStep(j) ==
  \/ SeesDeadline(j) \/ RecordTimeout(j)
  \/ SkipSpec(j) \/ LoadError(j) \/ EnterSpec(j) \/ SkipItem(j) \/ StartScenario(j)
  \/ SkipStep(j) \/ BeginStep(j) \/ SkipInner(j) \/ BeginInner(j) \/ Attempt(j) \/ GiveUp(j)
  \/ \E res \in Outcomes : StepReturns(j, res)
  \/ \E ok \in BOOLEAN :
       \/ BeforeSuite(j, ok) \/ BeforeSpec(j, ok) \/ BeforeScenario(j, ok)
       \/ AfterScenario(j, ok) \/ AfterSpec(j, ok) \/ AfterSuite(j, ok)
  \/ ApplyOutcome(j) \/ Publish(j)

Next ==
  \/ Cancel \/ DeadlinePasses
  \/ \E j \in Streams : StreamStep(j)
  \/ CloseSpec \/ Finish

\* Threads take their next step, and the runner answers: hooks and steps have
\* timeouts.  Nobody is obliged to cancel.
Fairness ==
  /\ \A j \in UNION {1..r.streams : r \in Requests} : WF_vars(j \in Streams /\ StreamStep(j))
  /\ WF_vars(CloseSpec \/ Finish)

Spec == Init /\ [][Next]_vars
FairSpec == Spec /\ Fairness

-----------------------------------------------------------------------------
(* Properties.                                                             *)

\* What a client polls never goes backwards, however the streams interleave:
\* applyScenarioOutcome copies and publishes the counters under one lock.
PolledNeverBack ==
  [][/\ polled'.executed >= polled.executed
     /\ polled'.passed >= polled.passed
     /\ polled'.failed >= polled.failed
     /\ polled'.skipped >= polled.skipped]_polled

ItemsIn(S) == {i \in Items : results[i] \in S}

\* At the verdict the polled counters are those of the collected results, and
\* every selected scenario has exactly one result unless the sequential run
\* skipped its specification as a whole: however the items are dealt out to
\* streams, none is lost or run twice.
EveryScenarioAccounted ==
  final # "none" =>
    /\ polled = status
    /\ status.passed = Cardinality(ItemsIn({"PASSED"}))
    /\ status.failed = Cardinality(ItemsIn(Failure))
    /\ status.skipped = Cardinality(ItemsIn({"SKIPPED", "CANCELLED"}))
    /\ status.executed = status.passed + status.failed
    /\ \A i \in ItemsIn({"none"}) :
         Sequential /\ (cancelled \/ timedOut \/ failFastTriggered \/ errors["before_suite"] > 0)

\* The verdict is earned: a PASSED test has run every selected scenario, and all
\* passed; a SKIPPED one has run none; behind FAILED is a failed scenario; and
\* no failed scenario is lost unless the test was cancelled.  However many streams
\* see the deadline pass, it is reported once.
VerdictSound ==
  /\ errors["timeout"] <= 1
  /\ final = "PASSED" => Items # {} /\ ItemsIn({"PASSED"}) = Items
  /\ final = "SKIPPED" => ItemsIn({"PASSED"} \cup Failure) = {}
  /\ final = "FAILED" => ItemsIn(Failure) # {}
  /\ final # "none" /\ ItemsIn(Failure) # {} => final \in Failure \cup {"CANCELLED"}

\* A stream at one of these has a scenario running.
Running == {"before_scenario", "step", "inner", "attempt", "call"}

Underway == {<<stream[j].spec, stream[j].item>> : j \in {i \in Streams : stream[i].pc \in Running}}

\* fail_fast: once applyScenarioOutcome has counted a failure, in whatever
\* stream, only scenarios that were already running go on; no stream starts
\* another one.
FailFastBounds ==
  [][request.failFast /\ status.failed > 0 => Underway' \subseteq Underway]_vars

\* Every run comes to its verdict: no retry loop, no lock and no join is stuck.
RunEnds == <>(final # "none")
=============================================================================
