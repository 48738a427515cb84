--------------------------- MODULE ExecutionEngine ---------------------------
(***************************************************************************)
(* The life of a test in the daemon: API threads submit, cancel and remove *)
(* tests, worker threads run them, ResultStore keeps one file per finished *)
(* test, and the process may stop, crash and start again                   *)
(* (src/src/engine/execution_engine.cpp, result_store.cpp).                *)
(*                                                                         *)
(* A step of the model is one critical section (recordsMutex_,             *)
(* statsMutex_, TestQueue::mutex_), one file operation or one published    *)
(* event; between two steps of an operation every other thread may run.    *)
(* What happens between RUNNING and the verdict is one nondeterministic    *)
(* choice here.                                                            *)
(***************************************************************************)
EXTENDS TestQueue, FiniteSets

CONSTANTS
  Workers,        \* worker threads (execution.max_concurrent_tests)
  Clients,        \* HTTP and scheduler threads calling the engine
  Outcomes,       \* verdicts an uncancelled run may end with
  HistoryLimit,   \* execution.history_limit
  MaxCrashes,     \* bound: how often the process dies without stop()
  MayStop,        \* whether stop() is called
  SaveMayFail,    \* whether ResultStore::save can fail (disk full, ...)
  LoadMayThrow    \* whether loading a spec can throw (filesystem_error)

ASSUME EngineAssumption ==
  /\ IsFiniteSet(Tests)
  /\ Outcomes \subseteq {"PASSED", "FAILED", "SKIPPED", "TEST_ERROR"}
  /\ HistoryLimit \in Nat \ {0}
  /\ MaxCrashes \in Nat
  /\ MayStop \in BOOLEAN
  /\ SaveMayFail \in BOOLEAN
  /\ LoadMayThrow \in BOOLEAN
  /\ Workers \cap Clients = {}
  /\ "queue" \notin Workers \cup Clients

Absent    == "absent"     \* no entry in records_ / no result file
Active    == {"QUEUED", "RUNNING"}
Terminal  == {"PASSED", "FAILED", "SKIPPED", "TEST_ERROR", "CANCELLED"}
NoTest    == "no test"

VARIABLES
  recState,     \* records_[t].status.state, or Absent
  hasResult,    \* records_[t].hasResult
  born,         \* place of t in order_ and in submit_time; 0: never submitted
  cancelFlags,  \* keys of cancelFlags_
  flag,         \* value of t's shared cancellation flag
  worker,       \* per worker: [pc, test, verdict]
  client,       \* per API thread: [pc, test, popped, files]
  disk,         \* state stored in <results_dir>/<t>.json, or Absent
  counted,      \* how often t was added to stats_.completed in this process
  finals,       \* how many test.completed / test.cancelled(queued) t got
  acked,        \* tests whose cancellation was accepted before their verdict
  unsaved,      \* ended without a file: save failed, shutdown, exception
  mode,         \* life cycle of the process
  crashes       \* number of crashes so far

recVars    == <<recState, hasResult, born>>
flagVars   == <<cancelFlags, flag>>
storeVars  == <<disk, unsaved>>
noteVars   == <<counted, finals, acked>>
procVars   == <<mode, crashes>>
vars == <<recState, hasResult, born, cancelFlags, flag, items, sequence, closed,
          worker, client, disk, counted, finals, acked, unsaved, mode, crashes>>

-----------------------------------------------------------------------------
IdleWorker == [pc |-> "exited", test |-> NoTest, verdict |-> "none"]
IdleClient == [pc |-> "idle", test |-> NoTest, popped |-> FALSE, files |-> {}]

Init ==
  /\ recState = [t \in Tests |-> Absent]
  /\ hasResult = [t \in Tests |-> FALSE]
  /\ born = [t \in Tests |-> 0]
  /\ cancelFlags = {}
  /\ flag = [t \in Tests |-> FALSE]
  /\ QueueInit
  /\ worker = [w \in Workers |-> [IdleWorker EXCEPT !.pc = "top"]]
  /\ client = [c \in Clients |-> IdleClient]
  /\ disk = [t \in Tests |-> Absent]
  /\ counted = [t \in Tests |-> 0]
  /\ finals = [t \in Tests |-> 0]
  /\ acked = {}
  /\ unsaved = {}
  /\ mode = "up"
  /\ crashes = 0

Alive == mode # "down"
StopRequested == mode \in {"stop", "flagged", "joining", "stopped"}

Present == {t \in Tests : recState[t] # Absent}
Finished == {t \in Tests : recState[t] \in Terminal}

Goto(c, pc) == client' = [client EXCEPT ![c].pc = pc]
Finish(c) == client' = [client EXCEPT ![c] = IdleClient]
WorkerGoto(w, pc) == worker' = [worker EXCEPT ![w].pc = pc]
WorkerLoop(w) == worker' = [worker EXCEPT ![w] = [IdleWorker EXCEPT !.pc = "top"]]

\* records_.erase for every test of S.
EraseRecords(S) ==
  /\ recState' = [t \in Tests |-> IF t \in S THEN Absent ELSE recState[t]]
  /\ hasResult' = [t \in Tests |-> hasResult[t] /\ t \notin S]
  /\ cancelFlags' = cancelFlags \ S

\* persist: the file is written under a temporary name and renamed, so it is
\* replaced as a whole or not at all.
Persist(t, state) ==
  \/ /\ disk' = [disk EXCEPT ![t] = state]
     /\ UNCHANGED unsaved
  \/ /\ SaveMayFail
     /\ unsaved' = unsaved \cup {t}
     /\ UNCHANGED disk

-----------------------------------------------------------------------------
(* submit: the record is put in place first, then history is trimmed, and  *)
(* only then is the task queued.                                           *)

\* The ids trimHistory takes from the front of order_: finished tests, oldest
\* first, until the limit is met or only unfinished ones are left.
TrimVictims(finished, present) ==
  {t \in finished :
     Cardinality({u \in finished : born[u] <= born[t]}) + HistoryLimit
       <= Cardinality(present)}

SubmitInsert(c, t) ==
  /\ Alive
  /\ client[c].pc = "idle"
  /\ born[t] = 0
  /\ recState' = [recState EXCEPT ![t] = "QUEUED"]
  /\ hasResult' = [hasResult EXCEPT ![t] = FALSE]
  /\ born' = [born EXCEPT ![t] = 1 + Cardinality({u \in Tests : born[u] # 0})]
  /\ cancelFlags' = cancelFlags \cup {t}
  /\ flag' = [flag EXCEPT ![t] = FALSE]
  /\ client' = [client EXCEPT ![c].pc = "trim", ![c].test = t]
  /\ UNCHANGED <<queueVars, worker, storeVars, noteVars, procVars>>

\* Mutant: the oldest records are trimmed whether finished or not.
SubmitTrim_AnyState(c) ==
  /\ client[c].pc = "trim"
  /\ LET victims == TrimVictims(Present, Present) IN
     /\ EraseRecords(victims)
     /\ client' = [client EXCEPT ![c].pc = "trimFiles", ![c].files = victims]
  /\ UNCHANGED <<born, flag, queueVars, worker, storeVars, noteVars, procVars>>

SubmitTrim(c) ==
  /\ client[c].pc = "trim"
  /\ LET victims == TrimVictims(Finished, Present) IN
     /\ EraseRecords(victims)
     /\ client' = [client EXCEPT ![c].pc = "trimFiles", ![c].files = victims]
  /\ UNCHANGED <<born, flag, queueVars, worker, storeVars, noteVars, procVars>>

\* store_.remove of one of the ids erased before, outside any lock.
RemoveFile(c, t) ==
  /\ client[c].pc \in {"trimFiles", "removeFiles"}
  /\ t \in client[c].files
  /\ disk' = [disk EXCEPT ![t] = Absent]
  /\ client' = [client EXCEPT ![c].files = @ \ {t}]
  /\ UNCHANGED <<recVars, flagVars, queueVars, worker, unsaved, noteVars, procVars>>

SubmitEnqueue(c) ==
  /\ client[c].pc = "trimFiles"
  /\ client[c].files = {}
  /\ Enqueue(client[c].test)
  /\ Finish(c)
  /\ UNCHANGED <<recVars, flagVars, worker, storeVars, noteVars, procVars>>

-----------------------------------------------------------------------------
(* cancel: the queue is asked first; what it no longer holds is cancelled  *)
(* through the shared flag.                                                *)

\* Mutant: the queue is only asked, the task is not erased.
CancelDequeue_KeepsTask(c, t) ==
  /\ Alive
  /\ client[c].pc = "idle"
  /\ born[t] # 0
  /\ client' = [client EXCEPT ![c].pc = "cancel", ![c].test = t,
                              ![c].popped = Queued(t)]
  /\ UNCHANGED <<recVars, flagVars, queueVars, worker, storeVars, noteVars, procVars>>

CancelDequeue(c, t) ==
  /\ Alive
  /\ client[c].pc = "idle"
  /\ born[t] # 0
  /\ client' = [client EXCEPT ![c].pc = "cancel", ![c].test = t,
                              ![c].popped = Queued(t)]
  /\ \/ CancelQueued(t)
     \/ ~Queued(t) /\ UNCHANGED queueVars
  /\ UNCHANGED <<recVars, flagVars, worker, storeVars, noteVars, procVars>>

\* Mutant: the cancellation of a running test is announced like a final one.
CancelLookup_FinalForRunning(c) ==
  LET t == client[c].test IN
  /\ client[c].pc = "cancel"
  /\ \/ recState[t] \notin Active /\ Finish(c)
     \/ recState[t] \in Active /\ client[c].popped /\ Goto(c, "cancelPersist")
     \/ recState[t] \in Active /\ ~client[c].popped /\ Goto(c, "cancelEvent")
  /\ UNCHANGED <<recVars, flagVars, queueVars, worker, storeVars, noteVars, procVars>>

\* Mutant: a test taken off the queue is cancelled through its flag only.
CancelLookup_FlagAlways(c) ==
  LET t == client[c].test IN
  /\ client[c].pc = "cancel"
  /\ \/ recState[t] \notin Active /\ Finish(c)
     \/ recState[t] \in Active /\ Goto(c, "cancelFlag")
  /\ UNCHANGED <<recVars, flagVars, queueVars, worker, storeVars, noteVars, procVars>>

CancelLookup(c) ==
  LET t == client[c].test IN
  /\ client[c].pc = "cancel"
  /\ \/ recState[t] \notin Active /\ Finish(c)
     \/ recState[t] \in Active /\ client[c].popped /\ Goto(c, "cancelPersist")
     \/ recState[t] \in Active /\ ~client[c].popped /\ t \in cancelFlags /\ Goto(c, "cancelFlag")
     \/ recState[t] \in Active /\ ~client[c].popped /\ t \notin cancelFlags /\ Finish(c)
  /\ UNCHANGED <<recVars, flagVars, queueVars, worker, storeVars, noteVars, procVars>>

CancelPersist(c) ==
  /\ client[c].pc = "cancelPersist"
  /\ Persist(client[c].test, "CANCELLED")
  /\ Goto(c, "cancelPublish")
  /\ UNCHANGED <<recVars, flagVars, queueVars, worker, noteVars, procVars>>

CancelPublish(c) ==
  LET t == client[c].test IN
  /\ client[c].pc = "cancelPublish"
  /\ IF recState[t] # Absent
     THEN /\ recState' = [recState EXCEPT ![t] = "CANCELLED"]
          /\ hasResult' = [hasResult EXCEPT ![t] = TRUE]
     ELSE UNCHANGED <<recState, hasResult>>
  /\ cancelFlags' = cancelFlags \ {t}
  /\ Goto(c, "cancelStats")
  /\ UNCHANGED <<born, flag, queueVars, worker, storeVars, noteVars, procVars>>

CancelStats(c) ==
  /\ client[c].pc = "cancelStats"
  /\ counted' = [counted EXCEPT ![client[c].test] = @ + 1]
  /\ Goto(c, "cancelEvent")
  /\ UNCHANGED <<recVars, flagVars, queueVars, worker, storeVars, finals, acked, procVars>>

CancelEvent(c) ==
  /\ client[c].pc = "cancelEvent"
  /\ finals' = [finals EXCEPT ![client[c].test] = @ + 1]
  /\ Finish(c)
  /\ UNCHANGED <<recVars, flagVars, queueVars, worker, storeVars, counted, acked, procVars>>

\* The verdict on t is not taken: the worker that ends t has yet to read its flag.
Undecided(t) ==
  /\ recState[t] \in Active
  /\ ~\E w \in Workers : worker[w].test = t /\ worker[w].pc \in {"persist", "publish"}

\* flag->store(true) through the shared pointer, then cancel returns true.
CancelFlag(c) ==
  /\ client[c].pc = "cancelFlag"
  /\ flag' = [flag EXCEPT ![client[c].test] = TRUE]
  /\ acked' = IF Undecided(client[c].test) THEN acked \cup {client[c].test} ELSE acked
  /\ Finish(c)
  /\ UNCHANGED <<recVars, cancelFlags, queueVars, worker, storeVars, counted, finals, procVars>>

-----------------------------------------------------------------------------
(* remove and clearHistory: finished records only; files go after the lock.*)

Remove(c, t) ==
  /\ Alive
  /\ client[c].pc = "idle"
  /\ t \in Finished
  /\ EraseRecords({t})
  /\ client' = [client EXCEPT ![c].pc = "removeFiles", ![c].files = {t}]
  /\ UNCHANGED <<born, flag, queueVars, worker, storeVars, noteVars, procVars>>

ClearHistory(c) ==
  /\ Alive
  /\ client[c].pc = "idle"
  /\ Finished # {}
  /\ EraseRecords(Finished)
  /\ client' = [client EXCEPT ![c].pc = "removeFiles", ![c].files = Finished]
  /\ UNCHANGED <<born, flag, queueVars, worker, storeVars, noteVars, procVars>>

RemoveDone(c) ==
  /\ client[c].pc = "removeFiles"
  /\ client[c].files = {}
  /\ Finish(c)
  /\ UNCHANGED <<recVars, flagVars, queueVars, worker, storeVars, noteVars, procVars>>

-----------------------------------------------------------------------------
(* workerLoop and execute.                                                 *)

\* Mutant: the loop does not look at stopRequested_.
WorkerTop_IgnoresStop(w) ==
  /\ worker[w].pc = "top"
  /\ WorkerGoto(w, "wait")
  /\ UNCHANGED <<recVars, flagVars, queueVars, client, storeVars, noteVars, procVars>>

\* while (!stopRequested_)
WorkerTop(w) ==
  /\ worker[w].pc = "top"
  /\ WorkerGoto(w, IF StopRequested THEN "exited" ELSE "wait")
  /\ UNCHANGED <<recVars, flagVars, queueVars, client, storeVars, noteVars, procVars>>

WorkerDequeue(w, t) ==
  /\ worker[w].pc = "wait"
  /\ DequeueFront(t)
  /\ worker' = [worker EXCEPT ![w].pc = "got", ![w].test = t]
  /\ UNCHANGED <<recVars, flagVars, client, storeVars, noteVars, procVars>>

\* The wait ends without a task: 250 ms passed, or the queue was closed.
WorkerWaitEnds(w) ==
  /\ worker[w].pc = "wait"
  /\ items = <<>>
  /\ WorkerGoto(w, "top")
  /\ UNCHANGED <<recVars, flagVars, queueVars, client, storeVars, noteVars, procVars>>

\* A task taken off the queue while the engine stops: only the state is set;
\* nothing is saved, counted or published.
WorkerAbandon(w) ==
  LET t == worker[w].test IN
  /\ worker[w].pc = "got"
  /\ StopRequested
  /\ IF recState[t] # Absent
     THEN /\ recState' = [recState EXCEPT ![t] = "CANCELLED"]
          /\ unsaved' = unsaved \cup {t}
     ELSE UNCHANGED <<recState, unsaved>>
  /\ WorkerLoop(w)
  /\ UNCHANGED <<hasResult, born, flagVars, queueVars, client, disk, noteVars, procVars>>

\* Mutant: the flag is made when the worker takes the test up.
WorkerBegin_FreshFlag(w) ==
  LET t == worker[w].test IN
  /\ worker[w].pc = "got"
  /\ ~StopRequested
  /\ \/ /\ recState[t] \in {Absent, "CANCELLED"}
        /\ WorkerLoop(w)
        /\ UNCHANGED flagVars
     \/ /\ recState[t] \notin {Absent, "CANCELLED"}
        /\ WorkerGoto(w, "load")
        /\ cancelFlags' = cancelFlags \cup {t}
        /\ flag' = [flag EXCEPT ![t] = FALSE]
  /\ UNCHANGED <<recVars, queueVars, client, storeVars, noteVars, procVars>>

\* execute begins: the record must still be there and not cancelled; the worker
\* keeps a pointer to the flag.
WorkerBegin(w) ==
  LET t == worker[w].test IN
  /\ worker[w].pc = "got"
  /\ ~StopRequested
  /\ \/ /\ recState[t] \in {Absent, "CANCELLED"}
        /\ WorkerLoop(w)
        /\ UNCHANGED flagVars
     \/ /\ recState[t] \notin {Absent, "CANCELLED"}
        /\ WorkerGoto(w, "load")
        /\ cancelFlags' = cancelFlags \cup {t}
        /\ flag' = [flag EXCEPT ![t] = t \in cancelFlags /\ @]
  /\ UNCHANGED <<recVars, queueVars, client, storeVars, noteVars, procVars>>

\* The catch block of workerLoop.
WorkerException(w) ==
  LET t == worker[w].test IN
  /\ LoadMayThrow
  /\ worker[w].pc = "load"
  /\ IF recState[t] # Absent
     THEN /\ recState' = [recState EXCEPT ![t] = "TEST_ERROR"]
          /\ hasResult' = [hasResult EXCEPT ![t] = TRUE]
          /\ unsaved' = unsaved \cup {t}
     ELSE UNCHANGED <<recState, hasResult, unsaved>>
  /\ WorkerLoop(w)
  /\ UNCHANGED <<born, flagVars, queueVars, client, disk, noteVars, procVars>>

\* The specifications are loaded; reserveSlots is called.
WorkerLoaded(w) ==
  /\ worker[w].pc = "load"
  /\ WorkerGoto(w, "reserve")
  /\ UNCHANGED <<recVars, flagVars, queueVars, client, storeVars, noteVars, procVars>>

\* reserveSlots has returned; updateStatus writes RUNNING into the record.
WorkerStart(w) ==
  LET t == worker[w].test IN
  /\ worker[w].pc = "reserve"
  /\ recState' = [recState EXCEPT ![t] = IF @ = Absent THEN Absent ELSE "RUNNING"]
  /\ WorkerGoto(w, "run")
  /\ UNCHANGED <<hasResult, born, flagVars, queueVars, client, storeVars, noteVars, procVars>>

\* updateStatus during the run copies the whole status, state included.
WorkerProgress(w) ==
  LET t == worker[w].test IN
  /\ worker[w].pc = "run"
  /\ recState' = [recState EXCEPT ![t] = IF @ = Absent THEN Absent ELSE "RUNNING"]
  /\ UNCHANGED <<hasResult, born, flagVars, queueVars, worker, client, storeVars,
                 noteVars, procVars>>

\* Mutant: the record is published without being saved first.
WorkerDecide_SkipsPersist(w) ==
  /\ worker[w].pc = "run"
  /\ \E v \in (IF flag[worker[w].test] THEN {"CANCELLED"} ELSE Outcomes) :
       worker' = [worker EXCEPT ![w].pc = "publish", ![w].verdict = v]
  /\ UNCHANGED <<recVars, flagVars, queueVars, client, storeVars, noteVars, procVars>>

\* The run ends and the verdict is taken; the flag is read here, once.
WorkerDecide(w) ==
  /\ worker[w].pc = "run"
  /\ \E v \in (IF flag[worker[w].test] THEN {"CANCELLED"} ELSE Outcomes) :
       worker' = [worker EXCEPT ![w].pc = "persist", ![w].verdict = v]
  /\ UNCHANGED <<recVars, flagVars, queueVars, client, storeVars, noteVars, procVars>>

WorkerPersist(w) ==
  /\ worker[w].pc = "persist"
  /\ Persist(worker[w].test, worker[w].verdict)
  /\ WorkerGoto(w, "publish")
  /\ UNCHANGED <<recVars, flagVars, queueVars, client, noteVars, procVars>>

WorkerPublish(w) ==
  LET t == worker[w].test IN
  /\ worker[w].pc = "publish"
  /\ IF recState[t] # Absent
     THEN /\ recState' = [recState EXCEPT ![t] = worker[w].verdict]
          /\ hasResult' = [hasResult EXCEPT ![t] = TRUE]
     ELSE UNCHANGED <<recState, hasResult>>
  /\ cancelFlags' = cancelFlags \ {t}
  /\ WorkerGoto(w, "stats")
  /\ UNCHANGED <<born, flag, queueVars, client, storeVars, noteVars, procVars>>

WorkerStats(w) ==
  /\ worker[w].pc = "stats"
  /\ counted' = [counted EXCEPT ![worker[w].test] = @ + 1]
  /\ WorkerGoto(w, "event")
  /\ UNCHANGED <<recVars, flagVars, queueVars, client, storeVars, finals, acked, procVars>>

WorkerEvent(w) ==
  /\ worker[w].pc = "event"
  /\ finals' = [finals EXCEPT ![worker[w].test] = @ + 1]
  /\ WorkerLoop(w)
  /\ UNCHANGED <<recVars, flagVars, queueVars, client, storeVars, counted, acked, procVars>>

-----------------------------------------------------------------------------
(* stop, crash and start.                                                  *)

StopRequest ==
  /\ MayStop
  /\ mode = "up"
  /\ mode' = "stop"
  /\ UNCHANGED <<recVars, flagVars, queueVars, worker, client, storeVars, noteVars, crashes>>

StopFlags ==
  /\ mode = "stop"
  /\ mode' = "flagged"
  /\ flag' = [t \in Tests |-> flag[t] \/ t \in cancelFlags]
  /\ UNCHANGED <<recVars, cancelFlags, queueVars, worker, client, storeVars, noteVars, crashes>>

StopClose ==
  /\ mode = "flagged"
  /\ mode' = "joining"
  /\ Close
  /\ UNCHANGED <<recVars, flagVars, worker, client, storeVars, noteVars, crashes>>

StopJoin ==
  /\ mode = "joining"
  /\ \A w \in Workers : worker[w].pc = "exited"
  /\ mode' = "stopped"
  /\ UNCHANGED <<recVars, flagVars, queueVars, worker, client, storeVars, noteVars, crashes>>

\* The process ends, by itself after stop() and the end of the API threads, or
\* by a crash at any moment: only files survive (and ids already used, which carry the time of day).
ProcessEnds ==
  /\ \/ /\ mode = "stopped"
        /\ \A c \in Clients : client[c].pc = "idle"
        /\ UNCHANGED crashes
     \/ Alive /\ crashes < MaxCrashes /\ crashes' = crashes + 1
  /\ mode' = "down"
  /\ EraseRecords(Tests)
  /\ flag' = [t \in Tests |-> FALSE]
  /\ items' = <<>> /\ sequence' = 0 /\ closed' = FALSE
  /\ worker' = [w \in Workers |-> IdleWorker]
  /\ client' = [c \in Clients |-> IdleClient]
  /\ counted' = [t \in Tests |-> 0]
  /\ acked' = {}
  /\ unsaved' = {}
  /\ UNCHANGED <<born, disk, finals>>

\* Mutant: loadHistory does not count what it replays.
Start_NotCounted ==
  LET loaded  == {t \in Tests : disk[t] # Absent}
      kept    == loaded \ TrimVictims(loaded, loaded) IN
  /\ mode = "down"
  /\ mode' = "up"
  /\ recState' = [t \in Tests |-> IF t \in kept THEN disk[t] ELSE Absent]
  /\ hasResult' = [t \in Tests |-> t \in kept]
  /\ disk' = [t \in Tests |-> IF t \in kept THEN disk[t] ELSE Absent]
  /\ worker' = [w \in Workers |-> [IdleWorker EXCEPT !.pc = "top"]]
  /\ Reopen
  /\ UNCHANGED <<born, flagVars, client, unsaved, noteVars, crashes>>

\* Mutant: trimming at start forgets the files.
Start_KeepsFiles ==
  LET loaded  == {t \in Tests : disk[t] # Absent}
      kept    == loaded \ TrimVictims(loaded, loaded) IN
  /\ mode = "down"
  /\ mode' = "up"
  /\ recState' = [t \in Tests |-> IF t \in kept THEN disk[t] ELSE Absent]
  /\ hasResult' = [t \in Tests |-> t \in kept]
  /\ counted' = [t \in Tests |-> IF t \in loaded THEN 1 ELSE 0]
  /\ worker' = [w \in Workers |-> [IdleWorker EXCEPT !.pc = "top"]]
  /\ Reopen
  /\ UNCHANGED <<born, flagVars, client, storeVars, finals, acked, crashes>>

\* start: loadHistory replays the files in submission order, counts them, and
\* trims them (files included) to the limit; then the workers begin.
Start ==
  LET loaded  == {t \in Tests : disk[t] # Absent}
      victims == TrimVictims(loaded, loaded)
      kept    == loaded \ victims IN
  /\ mode = "down"
  /\ mode' = "up"
  /\ recState' = [t \in Tests |-> IF t \in kept THEN disk[t] ELSE Absent]
  /\ hasResult' = [t \in Tests |-> t \in kept]
  /\ disk' = [t \in Tests |-> IF t \in kept THEN disk[t] ELSE Absent]
  /\ counted' = [t \in Tests |-> IF t \in loaded THEN 1 ELSE 0]
  /\ worker' = [w \in Workers |-> [IdleWorker EXCEPT !.pc = "top"]]
  /\ Reopen
  /\ UNCHANGED <<born, flagVars, client, unsaved, finals, acked, crashes>>

-----------------------------------------------------------------------------
ClientBegins(c) ==
  \/ \E t \in Tests : SubmitInsert(c, t) \/ CancelDequeue(c, t) \/ Remove(c, t)
  \/ ClearHistory(c)

ClientContinues(c) ==
  \/ SubmitTrim(c) \/ SubmitEnqueue(c)
  \/ \E t \in Tests : RemoveFile(c, t)
  \/ RemoveDone(c)
  \/ CancelLookup(c) \/ CancelPersist(c) \/ CancelPublish(c)
  \/ CancelStats(c) \/ CancelEvent(c) \/ CancelFlag(c)

WorkerSteps(w) ==
  \/ WorkerTop(w) \/ WorkerWaitEnds(w)
  \/ \E t \in Tests : WorkerDequeue(w, t)
  \/ WorkerAbandon(w) \/ WorkerBegin(w) \/ WorkerException(w)
  \/ WorkerLoaded(w) \/ WorkerStart(w) \/ WorkerDecide(w)
  \/ WorkerPersist(w) \/ WorkerPublish(w) \/ WorkerStats(w) \/ WorkerEvent(w)

StopSteps == StopFlags \/ StopClose \/ StopJoin

Next ==
  \/ \E c \in Clients : ClientBegins(c) \/ ClientContinues(c)
  \/ \E w \in Workers : WorkerSteps(w) \/ WorkerProgress(w)
  \/ StopRequest \/ StopSteps
  \/ ProcessEnds \/ Start

\* The worker waits for slots, or for the streams it has started.
AtRunner(w) == worker[w].pc \in {"reserve", "run"}

\* Threads that have begun an operation go on with it; nobody is obliged to
\* submit, cancel, remove, stop or crash.  Nor is the runner obliged to let a
\* worker go: reserveSlots waits under no deadline, and a stream may be stuck in
\* a write to a program that does not read.
Fairness ==
  /\ \A c \in Clients : WF_vars(ClientContinues(c))
  /\ \A w \in Workers : WF_vars(~AtRunner(w) /\ WorkerSteps(w))
  /\ WF_vars(StopSteps)

Spec == Init /\ [][Next]_vars
FairSpec == Spec /\ Fairness

-----------------------------------------------------------------------------
(* Properties.                                                             *)

ClientPcs == {"idle", "trim", "trimFiles", "removeFiles", "cancel", "cancelPersist",
              "cancelPublish", "cancelStats", "cancelEvent", "cancelFlag"}
WorkerPcs == {"top", "wait", "got", "load", "reserve", "run", "persist", "publish", "stats",
              "event", "exited"}
Modes == {"up", "stop", "flagged", "joining", "stopped", "down"}

\* Type invariant of the engine's state.
TypeOK ==
  /\ recState \in [Tests -> Active \cup Terminal \cup {Absent}]
  /\ hasResult \in [Tests -> BOOLEAN]
  /\ born \in [Tests -> Nat]
  /\ cancelFlags \in SUBSET Tests
  /\ flag \in [Tests -> BOOLEAN]
  /\ QueueTypeOK
  /\ worker \in [Workers -> [pc: WorkerPcs, test: Tests \cup {NoTest},
                             verdict: Terminal \cup {"none"}]]
  /\ client \in [Clients -> [pc: ClientPcs, test: Tests \cup {NoTest},
                             popped: BOOLEAN, files: SUBSET Tests]]
  /\ disk \in [Tests -> Terminal \cup {Absent}]
  /\ counted \in [Tests -> Nat]
  /\ finals \in [Tests -> Nat]
  /\ acked \in SUBSET Tests
  /\ unsaved \in SUBSET Tests
  /\ mode \in Modes
  /\ crashes \in Nat

\* The thread that submits a test holds it until it is queued; the thread that
\* took it off the queue to cancel it holds it until the record says so.
ClientOwns(c, t) ==
  /\ client[c].test = t
  /\ \/ client[c].pc \in {"trim", "trimFiles"}
     \/ client[c].popped /\ client[c].pc \in {"cancel", "cancelPersist", "cancelPublish"}

WorkerOwns(w, t) ==
  /\ worker[w].test = t
  /\ worker[w].pc \in {"got", "load", "reserve", "run", "persist", "publish"}

Owners(t) ==
  {c \in Clients : ClientOwns(c, t)} \cup {w \in Workers : WorkerOwns(w, t)}
    \cup (IF Queued(t) THEN {"queue"} ELSE {})

\* Every unfinished test is in exactly one pair of hands (its submitter, the
\* queue, one worker, or the canceller that won it), and nobody holds a test
\* that is finished or removed: none is lost between two locks, none runs
\* twice, and hasActiveTests covers the window in which a worker has taken a
\* task that is not RUNNING yet.
SingleOwner ==
  /\ NoDuplicates
  /\ \A t \in Tests :
       IF recState[t] \in Active
       THEN \E o \in Owners(t) : Owners(t) = {o}
       ELSE Owners(t) = {}

\* persist comes before the state is visible: a client that reads a terminal
\* state finds the file of that very verdict, unless writing it failed or the
\* test ended in shutdown or in an exception.
PersistBeforeVisible ==
  \A t \in Finished \ unsaved : disk[t] = recState[t]

\* A result file belongs to a finished record, or some thread is just about to
\* publish the record or to delete the file: removing and trimming history
\* leave no file behind that the next start would bring back.
NoOrphanFile ==
  Alive => \A t \in Tests : disk[t] # Absent =>
    \/ t \in Finished
    \/ \E c \in Clients : t \in client[c].files
    \/ \E c \in Clients : client[c].test = t /\ client[c].pc = "cancelPublish"
    \/ \E w \in Workers : worker[w].test = t /\ worker[w].pc = "publish"

\* A test gets at most one final event (what CallbackNotifier subscribes to),
\* and not before its record is terminal: the notifier reads the record.  The
\* state the event carries is the one in the record, unless that is removed.
FinalEventOnce ==
  /\ \A t \in Tests : finals[t] <= 1 /\ (finals[t] = 1 => recState[t] \notin Active)
  /\ \A w \in Workers :
       worker[w].pc = "event" => recState[worker[w].test] \in {worker[w].verdict, Absent}
  /\ \A c \in Clients :
       client[c].pc = "cancelEvent" => recState[client[c].test] \in {"CANCELLED", Absent}

\* Every finished test is in the statistics exactly once: a test that is not
\* counted is about to be, or ended in shutdown or in an exception.
CountedOnce ==
  \A t \in Tests :
    /\ counted[t] <= 1
    /\ t \in Finished /\ counted[t] = 0 =>
         \/ t \in unsaved
         \/ \E c \in Clients : client[c].test = t /\ client[c].pc = "cancelStats"
         \/ \E w \in Workers : worker[w].test = t /\ worker[w].pc = "stats"

\* The life cycle every test follows, whatever the threads do: see TestLifecycle.
Lifecycle == INSTANCE TestLifecycle WITH
  running <- Alive,
  used <- {t \in Tests : born[t] # 0},
  life <- [t \in Tests |-> IF ~Alive THEN disk[t]
                           ELSE IF recState[t] # Absent THEN recState[t]
                           ELSE IF disk[t] # Absent THEN "removing" ELSE Absent]

\* The engine implements the abstract life cycle of tests.
ImplementsLifecycle == Lifecycle!Spec

\* While the engine is not stopped or killed, every unfinished test ends, unless
\* the worker that has it, or every worker there is, stays at the runner for
\* ever: no task is forgotten in the queue or in somebody's hands.  And a verdict
\* reached by the regular paths is announced, even when the record is removed or
\* the engine stops meanwhile.
EveryTestEnds ==
  \A t \in Tests :
    /\ \/ recState[t] \in Active ~> (recState[t] \notin Active \/ mode # "up")
       \/ <>[](\E w \in Workers : AtRunner(w) /\ worker[w].test = t)
       \/ <>[](\A w \in Workers : AtRunner(w))
    /\ t \in Finished /\ t \notin unsaved ~> (finals[t] = 1)

\* stop() returns although tasks may be queued and API threads go on submitting,
\* unless a worker stays at the runner for ever: stop() sets the flags of the
\* tests and wakes nobody there.
StopCompletes ==
  \/ mode = "stop" ~> mode \in {"stopped", "down"}
  \/ <>[](\E w \in Workers : AtRunner(w))

\* A cancellation accepted before the verdict is taken is honoured, wherever the
\* test is: with its submitter, in the queue, or with a worker that has just taken
\* it, loads it, waits for slots or runs it.  The test ends cancelled, or in error,
\* without a file, if its specifications could not be loaded.  (One accepted
\* later is not: the verdict stands.)
CancelHonoured ==
  \A t \in acked \cap Finished :
    recState[t] = "CANCELLED" \/ (recState[t] = "TEST_ERROR" /\ t \in unsaved)
=============================================================================
