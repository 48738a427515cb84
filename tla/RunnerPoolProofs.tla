--------------------------- MODULE RunnerPoolProofs ---------------------------
(***************************************************************************)
(* Proofs about RunnerPool, for any pool size, any set of sessions and any *)
(* restart budget: slots are exclusive, processes are only replaced when   *)
(* nobody uses them, a step always finds a process on its slot, and the    *)
(* pool implements SlotAllocator.                                          *)
(***************************************************************************)
EXTENDS RunnerPool, FiniteSetTheorems, NaturalsInduction, WellFoundedInduction, TLAPS

\* draining_ is up for as long as a lifecycle call is under way.
AdminDrains == admin.pc # "idle" => draining

\* The safety invariants are inductive together with AdminDrains: exclusive use
\* protects the process of a running step, the drain protects the slots that are
\* being replaced, and the bearer of the restarting mark says who may end it.
Inv ==
  /\ TypeOK
  /\ AdminDrains
  /\ UsersMatchHolders
  /\ ReplacedOnlyWhenIdle
  /\ RestartingHasBearer
  /\ StepHasProcess

\* reserveSlots chooses among the free slots, and only while not draining.
LEMMA ChoiceIsFree ==
  ASSUME NEW n
  PROVE  /\ Choice(n) \subseteq Slots
         /\ \A i \in Choice(n) : users[i] = 0
         /\ Choice(n) # {} => ~draining
BY DEF Choice, FirstOf, Connected, FreeUsable, FreeAny

\* A slot in use has no other user; a slot with users = 0 is in nobody's hands.
LEMMA Exclusive ==
  ASSUME Inv, NEW i \in Slots
  PROVE  /\ users[i] = 0 => \A s \in Sessions : stream[s][i] = "none"
         /\ \A s, r \in Sessions :
              stream[s][i] # "none" /\ stream[r][i] # "none" => s = r
         /\ \A s \in Sessions : stream[s][i] # "none" => users[i] = 1
BY DEF Inv, UsersMatchHolders

\* A slot in use is not being replaced, and it bears the restarting mark only
\* while its own session revives it.
LEMMA InUse ==
  ASSUME Inv, NEW s \in Sessions, NEW i \in Slots, stream[s][i] # "none"
  PROVE  /\ admin.pc \notin {"stopping", "starting"}
         /\ restarting[i] <=> stream[s][i] = "starting"
         /\ state[i] = "CONNECTING" <=> stream[s][i] = "starting"
<1>1. admin.pc \notin {"stopping", "starting"}
  BY DEF Inv, ReplacedOnlyWhenIdle, HeldBy
<1>2. restarting[i] => stream[s][i] = "starting"
  BY <1>1, Exclusive DEF Inv, RestartingHasBearer
<1> QED
  BY <1>1, <1>2 DEF Inv, RestartingHasBearer

\* The pool starts out empty and idle.
LEMMA InitInv == Init => Inv
<1> SUFFICES ASSUME Init PROVE Inv
  OBVIOUS
<1>1. TypeOK
  BY DEF Init, TypeOK, NoCall
<1>2. \A s \in Sessions, i \in Slots : stream[s][i] = "none"
  BY DEF Init
<1>3. admin.pc = "idle"
  BY DEF Init, NoCall
<1>4. UsersMatchHolders /\ RestartingHasBearer /\ StepHasProcess
  BY <1>2, <1>3 DEF Init, UsersMatchHolders, RestartingHasBearer, StepHasProcess
<1> QED
  BY <1>1, <1>3, <1>4 DEF Inv, AdminDrains, ReplacedOnlyWhenIdle

\* Asking for slots, or being told that there is no pool, changes no slot.
LEMMA RequestStep ==
  ASSUME Inv, NEW s \in Sessions,
         (\E n \in StreamCounts : Request(s, n)) \/ ReserveNothing(s)
  PROVE  Inv'
<1>1. UNCHANGED <<slotVars, stream, admin, calls>>
  BY DEF Request, ReserveNothing
<1>2. TypeOK'
  BY <1>1, PoolAssumption DEF Inv, TypeOK, Request, ReserveNothing, slotVars
<1> QED
  BY <1>1, <1>2 DEF Inv, slotVars, AdminDrains, UsersMatchHolders, ReplacedOnlyWhenIdle,
     RestartingHasBearer, StepHasProcess, HeldBy

\* A reservation takes free slots of a pool that is not draining.
LEMMA ReserveStep ==
  ASSUME Inv, NEW s \in Sessions, ReserveSlots(s)
  PROVE  Inv'
<1> DEFINE C == Choice(want[s])
<1>1. C \subseteq Slots /\ ~draining /\ \A i \in C : users[i] = 0
  BY ChoiceIsFree DEF ReserveSlots
<1>2. \A i \in C : \A r \in Sessions : stream[r][i] = "none"
  BY <1>1, Exclusive
<1>3. admin.pc = "idle"
  BY <1>1 DEF Inv, AdminDrains, TypeOK
<1>4. /\ users' = [i \in Slots |-> IF i \in C THEN 1 ELSE users[i]]
      /\ stream' = [stream EXCEPT ![s] = [i \in Slots |-> IF i \in C THEN "ready" ELSE @[i]]]
      /\ want' = [want EXCEPT ![s] = 0]
      /\ UNCHANGED <<started, state, runner, restartCount, restarting, draining, requests, admin, calls>>
  BY DEF ReserveSlots
<1> HIDE DEF C
<1>5. TypeOK'
  BY <1>4 DEF Inv, TypeOK
<1>6. \A r \in Sessions, i \in Slots :
        stream'[r][i] = IF r = s /\ i \in C THEN "ready" ELSE stream[r][i]
  BY <1>4 DEF Inv, TypeOK
<1>7. UsersMatchHolders'
  <2> SUFFICES ASSUME NEW i \in Slots
               PROVE  \/ users'[i] = 0 /\ \A r \in Sessions : stream'[r][i] = "none"
                      \/ users'[i] = 1 /\ \E q \in Sessions :
                           stream'[q][i] # "none" /\ \A r \in Sessions \ {q} : stream'[r][i] = "none"
    BY DEF UsersMatchHolders
  <2>1. CASE i \in C
    BY <1>2, <1>4, <1>6, <2>1
  <2>2. CASE i \notin C
    BY <1>4, <1>6, <2>2 DEF Inv, UsersMatchHolders
  <2> QED
    BY <2>1, <2>2
<1>8. RestartingHasBearer'
  BY <1>2, <1>3, <1>4, <1>6 DEF Inv, RestartingHasBearer
<1>9. StepHasProcess'
  BY <1>4, <1>6 DEF Inv, StepHasProcess
<1> QED
  BY <1>3, <1>4, <1>5, <1>7, <1>8, <1>9 DEF Inv, AdminDrains, ReplacedOnlyWhenIdle

\* Giving a slot back.
LEMMA ReleaseStep ==
  ASSUME Inv, NEW s \in Sessions, NEW i \in Slots, ReleaseSlot(s, i)
  PROVE  Inv'
<1>1. /\ stream[s][i] = "ready"
      /\ stream' = [stream EXCEPT ![s][i] = "none"]
      /\ users' = [users EXCEPT ![i] = IF @ > 0 THEN @ - 1 ELSE @]
      /\ UNCHANGED <<started, state, runner, restartCount, restarting, draining, want,
                     requests, admin, calls>>
  BY DEF ReleaseSlot
<1>2. users[i] = 1 /\ users'[i] = 0 /\ \A r \in Sessions : r # s => stream[r][i] = "none"
  BY <1>1, Exclusive DEF Inv, TypeOK
<1>3. \A r \in Sessions, j \in Slots :
        stream'[r][j] = IF r = s /\ j = i THEN "none" ELSE stream[r][j]
  BY <1>1 DEF Inv, TypeOK
<1>4. \A j \in Slots : j # i => users'[j] = users[j]
  BY <1>1 DEF Inv, TypeOK
<1>5. TypeOK'
  BY <1>1 DEF Inv, TypeOK
<1>6. UsersMatchHolders'
  <2> SUFFICES ASSUME NEW j \in Slots
               PROVE  \/ users'[j] = 0 /\ \A r \in Sessions : stream'[r][j] = "none"
                      \/ users'[j] = 1 /\ \E q \in Sessions :
                           stream'[q][j] # "none" /\ \A r \in Sessions \ {q} : stream'[r][j] = "none"
    BY DEF UsersMatchHolders
  <2>1. CASE j = i
    BY <1>2, <1>3, <2>1
  <2>2. CASE j # i
    BY <1>3, <1>4, <2>2 DEF Inv, UsersMatchHolders
  <2> QED
    BY <2>1, <2>2
<1>7. ReplacedOnlyWhenIdle'
  BY <1>1, <1>3 DEF Inv, ReplacedOnlyWhenIdle, HeldBy
<1>8. RestartingHasBearer'
  BY <1>1, <1>3 DEF Inv, RestartingHasBearer
<1>9. StepHasProcess'
  BY <1>1, <1>3 DEF Inv, StepHasProcess
<1> QED
  BY <1>1, <1>5, <1>6, <1>7, <1>8, <1>9 DEF Inv, AdminDrains

-----------------------------------------------------------------------------
(* Steps of a session on a slot it holds.                                  *)

\* What a session may do to a slot it holds: it keeps the slot, the mark is up
\* exactly while it is starting the process, and it only uses a process that
\* is there.
LEMMA HeldSlotStep ==
  ASSUME Inv, NEW s \in Sessions, NEW i \in Slots, stream[s][i] # "none",
         NEW x, x # "none", stream' = [stream EXCEPT ![s][i] = x],
         TypeOK',
         UNCHANGED <<users, draining, admin>>,
         \A j \in Slots \ {i} : /\ state'[j] = state[j]
                               /\ runner'[j] = runner[j]
                               /\ restarting'[j] = restarting[j],
         x = "starting" => restarting'[i] /\ state'[i] = "CONNECTING",
         x # "starting" => ~restarting'[i] /\ state'[i] # "CONNECTING",
         x = "stepping" => runner'[i] # "none"
  PROVE  Inv'
<1>1. \A r \in Sessions, j \in Slots :
        stream'[r][j] = IF r = s /\ j = i THEN x ELSE stream[r][j]
  BY DEF Inv, TypeOK
<1>2. \A r \in Sessions : r # s => stream[r][i] = "none"
  BY Exclusive
<1>3. admin.pc \notin {"stopping", "starting"}
  BY InUse
<1>4. UsersMatchHolders'
  <2> SUFFICES ASSUME NEW j \in Slots
               PROVE  \/ users[j] = 0 /\ \A r \in Sessions : stream'[r][j] = "none"
                      \/ users[j] = 1 /\ \E q \in Sessions :
                           stream'[q][j] # "none" /\ \A r \in Sessions \ {q} : stream'[r][j] = "none"
    BY DEF UsersMatchHolders
  <2>1. CASE j = i
    BY <1>1, <1>2, <2>1, Exclusive
  <2>2. CASE j # i
    BY <1>1, <2>2 DEF Inv, UsersMatchHolders
  <2> QED
    BY <2>1, <2>2
<1>5. RestartingHasBearer'
  <2> SUFFICES ASSUME NEW j \in Slots
               PROVE  /\ restarting'[j] <=> state'[j] = "CONNECTING"
                      /\ (\E r \in Sessions : stream'[r][j] = "starting") => restarting'[j]
                      /\ restarting'[j] => \E r \in Sessions : stream'[r][j] = "starting"
    BY <1>3 DEF RestartingHasBearer
  <2>1. CASE j = i
    BY <1>1, <1>2, <2>1
  <2>2. CASE j # i
    BY <1>1, <1>3, <2>2 DEF Inv, RestartingHasBearer
  <2> QED
    BY <2>1, <2>2
<1>6. StepHasProcess'
  <2> SUFFICES ASSUME NEW r \in Sessions, NEW j \in Slots, stream'[r][j] = "stepping"
               PROVE  runner'[j] # "none"
    BY DEF StepHasProcess
  <2>1. CASE j = i
    BY <1>1, <1>2, <2>1
  <2>2. CASE j # i
    BY <1>1, <2>2 DEF Inv, StepHasProcess
  <2> QED
    BY <2>1, <2>2
<1> QED
  BY <1>3, <1>4, <1>5, <1>6 DEF Inv, AdminDrains, ReplacedOnlyWhenIdle

\* ensureAlive, its restart and the end of a step or hook.
LEMMA StreamStep ==
  ASSUME Inv, NEW s \in Sessions, NEW i \in Slots, StreamSteps(s, i)
  PROVE  Inv'
<1>1. CASE EnsureAlive(s, i)
  <2>1. /\ stream[s][i] # "none"
        /\ stream' = [stream EXCEPT ![s][i] = "stepping"]
        /\ UNCHANGED <<users, draining, admin>>
    BY <1>1 DEF Inv, TypeOK, EnsureAlive, slotVars
  <2>2. TypeOK'
    BY <1>1 DEF Inv, TypeOK, EnsureAlive, slotVars
  <2>3. \A j \in Slots \ {i} : /\ state'[j] = state[j]
                                /\ runner'[j] = runner[j]
                                /\ restarting'[j] = restarting[j]
    BY <1>1 DEF Inv, TypeOK, EnsureAlive, slotVars
  <2>4. ~restarting'[i] /\ state'[i] # "CONNECTING" /\ runner'[i] # "none"
    BY <1>1, InUse DEF Inv, TypeOK, EnsureAlive, slotVars
  <2> QED
    BY <2>1, <2>2, <2>3, <2>4, HeldSlotStep
<1>2. CASE RefuseRestart(s, i)
  <2>1. /\ stream[s][i] # "none"
        /\ stream' = [stream EXCEPT ![s][i] = "ready"]
        /\ UNCHANGED <<users, draining, admin>>
    BY <1>2 DEF Inv, TypeOK, RefuseRestart
  <2>2. TypeOK'
    BY <1>2 DEF Inv, TypeOK, RefuseRestart
  <2>3. \A j \in Slots \ {i} : /\ state'[j] = state[j]
                                /\ runner'[j] = runner[j]
                                /\ restarting'[j] = restarting[j]
    BY <1>2 DEF Inv, TypeOK, RefuseRestart
  <2>4. ~restarting'[i] /\ state'[i] # "CONNECTING"
    BY <1>2, InUse DEF Inv, TypeOK, RefuseRestart
  <2> QED
    BY <2>1, <2>2, <2>3, <2>4, HeldSlotStep
<1>3. CASE BeginRestart(s, i)
  <2>1. /\ stream[s][i] # "none"
        /\ stream' = [stream EXCEPT ![s][i] = "starting"]
        /\ UNCHANGED <<users, draining, admin>>
    BY <1>3 DEF Inv, TypeOK, BeginRestart
  <2>2. TypeOK'
    BY <1>3 DEF Inv, TypeOK, BeginRestart
  <2>3. \A j \in Slots \ {i} : /\ state'[j] = state[j]
                                /\ runner'[j] = runner[j]
                                /\ restarting'[j] = restarting[j]
    BY <1>3 DEF Inv, TypeOK, BeginRestart
  <2>4. restarting'[i] /\ state'[i] = "CONNECTING"
    BY <1>3, InUse DEF Inv, TypeOK, BeginRestart
  <2> QED
    BY <2>1, <2>2, <2>3, <2>4, HeldSlotStep
<1>4. CASE EndRestart(s, i, TRUE)
  <2>1. /\ stream[s][i] # "none"
        /\ stream' = [stream EXCEPT ![s][i] = "stepping"]
        /\ UNCHANGED <<users, draining, admin>>
    BY <1>4 DEF Inv, TypeOK, EndRestart, SlotStarted
  <2>2. TypeOK'
    BY <1>4 DEF Inv, TypeOK, EndRestart, SlotStarted
  <2>3. \A j \in Slots \ {i} : /\ state'[j] = state[j]
                                /\ runner'[j] = runner[j]
                                /\ restarting'[j] = restarting[j]
    BY <1>4 DEF Inv, TypeOK, EndRestart, SlotStarted
  <2>4. ~restarting'[i] /\ state'[i] # "CONNECTING" /\ runner'[i] # "none"
    BY <1>4, InUse DEF Inv, TypeOK, EndRestart, SlotStarted
  <2> QED
    BY <2>1, <2>2, <2>3, <2>4, HeldSlotStep
<1>5. CASE EndRestart(s, i, FALSE)
  <2>1. /\ stream[s][i] # "none"
        /\ stream' = [stream EXCEPT ![s][i] = "ready"]
        /\ UNCHANGED <<users, draining, admin>>
    BY <1>5 DEF Inv, TypeOK, EndRestart, SlotStarted
  <2>2. TypeOK'
    BY <1>5 DEF Inv, TypeOK, EndRestart, SlotStarted
  <2>3. \A j \in Slots \ {i} : /\ state'[j] = state[j]
                                /\ runner'[j] = runner[j]
                                /\ restarting'[j] = restarting[j]
    BY <1>5 DEF Inv, TypeOK, EndRestart, SlotStarted
  <2>4. ~restarting'[i] /\ state'[i] # "CONNECTING"
    BY <1>5, InUse DEF Inv, TypeOK, EndRestart, SlotStarted
  <2> QED
    BY <2>1, <2>2, <2>3, <2>4, HeldSlotStep
<1>6. CASE StepReturns(s, i)
  <2>1. /\ stream[s][i] # "none"
        /\ stream' = [stream EXCEPT ![s][i] = "ready"]
        /\ UNCHANGED <<users, draining, admin>>
    BY <1>6 DEF Inv, TypeOK, StepReturns
  <2>2. TypeOK'
    BY <1>6 DEF Inv, TypeOK, StepReturns
  <2>3. \A j \in Slots \ {i} : /\ state'[j] = state[j]
                                /\ runner'[j] = runner[j]
                                /\ restarting'[j] = restarting[j]
    BY <1>6 DEF Inv, TypeOK, StepReturns
  <2>4. ~restarting'[i] /\ state'[i] # "CONNECTING"
    BY <1>6, InUse DEF Inv, TypeOK, StepReturns
  <2> QED
    BY <2>1, <2>2, <2>3, <2>4, HeldSlotStep
<1> QED
  BY <1>1, <1>2, <1>3, <1>4, <1>5, <1>6 DEF StreamSteps

\* The death of a process leaves a dead process on the slot, not an empty slot.
LEMMA DeathStep ==
  ASSUME Inv, NEW i \in Slots, ProcessDies(i)
  PROVE  Inv'
<1>1. TypeOK'
  BY DEF Inv, TypeOK, ProcessDies
<1>2. StepHasProcess'
  BY DEF Inv, TypeOK, ProcessDies, StepHasProcess
<1> QED
  BY <1>1, <1>2 DEF Inv, ProcessDies, AdminDrains, UsersMatchHolders, ReplacedOnlyWhenIdle,
     RestartingHasBearer, HeldBy

-----------------------------------------------------------------------------
(* Lifecycle calls.                                                        *)

\* start, stopRunner and restartRunner begin by closing the pool.
LEMMA BeginLifecycleStep ==
  ASSUME Inv, NEW op \in {"start", "stop", "restart"}, BeginLifecycle(op)
  PROVE  Inv'
<1>1. admin.pc = "idle" /\ admin'.pc = "drain" /\ draining'
  BY DEF BeginLifecycle
<1>2. TypeOK'
  BY DEF Inv, TypeOK, BeginLifecycle
<1>3. RestartingHasBearer'
  BY <1>1 DEF Inv, BeginLifecycle, RestartingHasBearer
<1> QED
  BY <1>1, <1>2, <1>3 DEF Inv, BeginLifecycle, AdminDrains, UsersMatchHolders,
     ReplacedOnlyWhenIdle, StepHasProcess

\* When waitForIdle returns nobody holds a slot, so all of them may be replaced.
LEMMA ReplaceAllStep ==
  ASSUME Inv, Rebuild \/ StopAllSlots
  PROVE  Inv'
<1>1. \A i \in Slots : users[i] = 0 /\ ~restarting[i]
  BY DEF Rebuild, StopAllSlots, Idle
<1>2. \A s \in Sessions, i \in Slots : stream[s][i] = "none"
  BY <1>1, Exclusive
<1>3. draining /\ draining' = draining /\ stream' = stream
  BY DEF Inv, AdminDrains, Rebuild, StopAllSlots
<1>4. TypeOK'
  <2>1. CASE Rebuild
    BY <2>1 DEF Inv, TypeOK, Rebuild
  <2>2. CASE StopAllSlots
    BY <2>2 DEF Inv, TypeOK, StopAllSlots
  <2> QED
    BY <2>1, <2>2
<1>5. \A i \in Slots : users'[i] = 0 /\ ~restarting'[i] /\ state'[i] = "DISCONNECTED"
  BY <1>1 DEF Inv, TypeOK, Rebuild, StopAllSlots
<1>6. UsersMatchHolders' /\ RestartingHasBearer' /\ StepHasProcess'
  BY <1>2, <1>3, <1>5 DEF UsersMatchHolders, RestartingHasBearer, StepHasProcess
<1>7. ReplacedOnlyWhenIdle'
  BY <1>2, <1>3 DEF ReplacedOnlyWhenIdle, HeldBy
<1> QED
  BY <1>3, <1>4, <1>6, <1>7 DEF Inv, AdminDrains

\* The steps of a call that has the pool to itself.
LEMMA ReplacingStep ==
  ASSUME Inv,
         \/ BeginStartAll
         \/ \E i \in Slots : BeginStartSlot(i) \/ \E ok \in BOOLEAN : EndStartSlot(i, ok)
         \/ StopRunnerReturns
         \/ StartReturns
  PROVE  Inv'
<1> USE DEF Inv
<1>1. /\ admin.pc \in {"stopping", "starting"}
      /\ draining
      /\ UNCHANGED <<users, stream>>
      /\ \A s \in Sessions, i \in Slots : stream[s][i] = "none"
  <2>1. admin.pc \in {"stopping", "starting"} /\ UNCHANGED <<users, stream>>
    BY DEF BeginStartAll, BeginStartSlot, EndStartSlot, StopRunnerReturns, StartReturns, slotVars
  <2> QED
    BY <2>1 DEF ReplacedOnlyWhenIdle, HeldBy
<1>2. UsersMatchHolders' /\ StepHasProcess' /\ \A s \in Sessions : HeldBy(s)' = {}
  BY <1>1 DEF UsersMatchHolders, StepHasProcess, HeldBy
<1>3. \A i \in Slots : /\ restarting[i] <=> state[i] = "CONNECTING"
                       /\ restarting[i] => admin.pc = "starting" /\ i \notin admin.pending
  BY <1>1 DEF RestartingHasBearer
<1>4. CASE BeginStartAll
  <2>1. TypeOK'
    <3>1. admin' \in [op: {"none", "start", "stop", "restart"},
                      pc: {"idle", "drain", "stopping", "starting"}, pending: SUBSET Slots]
      BY <1>4 DEF TypeOK, BeginStartAll
    <3>2. restartCount' \in [Slots -> Nat]
      BY <1>4 DEF TypeOK, BeginStartAll
    <3> QED
      BY <1>4, <3>1, <3>2 DEF TypeOK, BeginStartAll
  <2>2. RestartingHasBearer'
    BY <1>1, <1>3, <1>4 DEF BeginStartAll, RestartingHasBearer
  <2> QED
    BY <1>1, <1>2, <1>4, <2>1, <2>2 DEF BeginStartAll, AdminDrains, ReplacedOnlyWhenIdle
<1>5. ASSUME NEW i \in Slots, BeginStartSlot(i) PROVE Inv'
  <2>1. TypeOK'
    <3>1. admin' \in [op: {"none", "start", "stop", "restart"},
                      pc: {"idle", "drain", "stopping", "starting"}, pending: SUBSET Slots]
      BY <1>5 DEF TypeOK, BeginStartSlot
    <3> QED
      BY <1>5, <3>1 DEF TypeOK, BeginStartSlot
  <2>2. admin' = [admin EXCEPT !.pending = admin.pending \ {i}] /\ admin.pc = "starting"
    BY <1>5 DEF BeginStartSlot
  <2>3. admin'.pc = "starting" /\ admin'.pending = admin.pending \ {i}
    BY <2>2 DEF TypeOK
  <2>4. \A j \in Slots : /\ restarting'[j] <=> (j = i \/ restarting[j])
                         /\ state'[j] = IF j = i THEN "CONNECTING" ELSE state[j]
    BY <1>5 DEF TypeOK, BeginStartSlot
  <2>5. RestartingHasBearer'
    BY <1>1, <1>3, <2>3, <2>4 DEF RestartingHasBearer
  <2> QED
    BY <1>1, <1>2, <1>5, <2>1, <2>3, <2>5 DEF BeginStartSlot, AdminDrains, ReplacedOnlyWhenIdle
<1>6. ASSUME NEW i \in Slots, NEW ok \in BOOLEAN, EndStartSlot(i, ok) PROVE Inv'
  <2>1. TypeOK'
    BY <1>6 DEF TypeOK, EndStartSlot, SlotStarted
  <2>2. \A j \in Slots : /\ restarting'[j] <=> (j # i /\ restarting[j])
                         /\ j = i => state'[j] # "CONNECTING"
                         /\ j # i => state'[j] = state[j]
    BY <1>6 DEF TypeOK, EndStartSlot, SlotStarted
  <2>3. admin' = admin /\ draining' = draining /\ admin.pc = "starting"
    BY <1>6 DEF EndStartSlot
  <2>4. RestartingHasBearer'
    BY <1>1, <1>3, <2>2, <2>3 DEF RestartingHasBearer
  <2> QED
    BY <1>1, <1>2, <2>1, <2>3, <2>4 DEF AdminDrains, ReplacedOnlyWhenIdle
<1>7. CASE StopRunnerReturns \/ StartReturns
  <2>1. admin'.pc = "idle" /\ UNCHANGED <<state, restarting>>
    BY <1>7 DEF StopRunnerReturns, StartReturns, NoCall
  <2>2. TypeOK'
    <3>1. NoCall \in [op: {"none", "start", "stop", "restart"},
                      pc: {"idle", "drain", "stopping", "starting"}, pending: SUBSET Slots]
      BY DEF NoCall
    <3> QED
      BY <1>7, <3>1 DEF TypeOK, StopRunnerReturns, StartReturns
  <2>3. \A i \in Slots : ~restarting[i]
    BY <1>3, <1>7 DEF StopRunnerReturns, StartReturns
  <2>4. RestartingHasBearer'
    BY <1>1, <1>3, <2>1, <2>3 DEF RestartingHasBearer
  <2> QED
    BY <1>2, <2>1, <2>2, <2>4 DEF AdminDrains, ReplacedOnlyWhenIdle
<1> QED
  BY <1>4, <1>5, <1>6, <1>7

-----------------------------------------------------------------------------
\* Every step of the pool keeps the invariant.
LEMMA PoolInvariant == Spec => []Inv
<1>1. Inv /\ [Next]_vars => Inv'
  <2> SUFFICES ASSUME Inv, [Next]_vars PROVE Inv'
    OBVIOUS
  <2>1. CASE \E s \in Sessions : (\E n \in StreamCounts : Request(s, n)) \/ ReserveNothing(s)
    BY <2>1, RequestStep
  <2>2. CASE \E s \in Sessions : ReserveSlots(s)
    BY <2>2, ReserveStep
  <2>3. CASE \E s \in Sessions, i \in Slots : StreamSteps(s, i)
    BY <2>3, StreamStep
  <2>4. CASE \E s \in Sessions, i \in Slots : ReleaseSlot(s, i)
    BY <2>4, ReleaseStep
  <2>5. CASE \E i \in Slots : ProcessDies(i)
    BY <2>5, DeathStep
  <2>6. CASE \E op \in {"start", "stop", "restart"} : BeginLifecycle(op)
    BY <2>6, BeginLifecycleStep
  <2>7. CASE AdminSteps
    BY <2>7, ReplaceAllStep, ReplacingStep DEF AdminSteps
  <2>8. CASE UNCHANGED vars
    BY <2>8 DEF vars, Inv, TypeOK, AdminDrains, UsersMatchHolders, ReplacedOnlyWhenIdle,
       RestartingHasBearer, StepHasProcess, HeldBy
  <2> QED
    BY <2>1, <2>2, <2>3, <2>4, <2>5, <2>6, <2>7, <2>8 DEF Next
<1> QED
  BY <1>1, InitInv, PTL DEF Spec

\* The pool's state is well typed at all times.
THEOREM PoolTypeCorrect == Spec => []TypeOK
BY PoolInvariant, PTL DEF Inv

\* No slot is ever in the hands of two sessions, and users counts its holder.
THEOREM PoolExclusive == Spec => []UsersMatchHolders
BY PoolInvariant, PTL DEF Inv

\* Processes are replaced only while no session holds a slot.
THEOREM PoolReplacedOnlyWhenIdle == Spec => []ReplacedOnlyWhenIdle
BY PoolInvariant, PTL DEF Inv

\* Every restarting mark has the one thread that will clear it.
THEOREM PoolRestartingHasBearer == Spec => []RestartingHasBearer
BY PoolInvariant, PTL DEF Inv

\* No step or hook reads a null runner pointer.
THEOREM PoolStepHasProcess == Spec => []StepHasProcess
BY PoolInvariant, PTL DEF Inv

-----------------------------------------------------------------------------
(* A session gets as many slots as it asked for.                           *)

\* A set of slots has a first one.
LEMMA FirstSlot ==
  ASSUME NEW S, S \subseteq Nat, S # {}
  PROVE  \E x \in S : \A y \in S : x <= y
<1>1. PICK x \in S : \A y \in S : ~(<<y, x>> \in OpToRel(<, Nat))
  BY NatLessThanWellFounded, WFMin
<1>2. ASSUME NEW y \in S PROVE x <= y
  <2>1. <<y, x>> \in Nat \X Nat /\ <<y, x>>[1] = y /\ <<y, x>>[2] = x
    OBVIOUS
  <2>2. ~(y < x)
    BY <1>1, <2>1 DEF OpToRel
  <2> QED
    BY <2>2
<1> QED
  BY <1>2

LEMMA SlotsFinite ==
  ASSUME NEW S, S \subseteq Slots
  PROVE  IsFiniteSet(S) /\ Cardinality(S) \in Nat /\ S \subseteq Nat
<1>1. PoolSize - 1 \in Int /\ Slots = 0..(PoolSize - 1) /\ Slots \subseteq Nat
  BY PoolAssumption DEF PoolAssumption, Slots
<1>2. IsFiniteSet(Slots)
  BY <1>1, FS_Interval
<1> QED
  BY <1>1, <1>2, FS_Subset, FS_CardinalityType

\* Taking one slot more takes the first of those left.
LEMMA FirstOfNext ==
  ASSUME NEW S, S \subseteq Slots, NEW m \in Nat,
         Cardinality(FirstOf(S, m)) = m, m < Cardinality(S)
  PROVE  Cardinality(FirstOf(S, m + 1)) = m + 1
<1> DEFINE F == FirstOf(S, m)
           Below(x) == {j \in S : j < x}
<1>1. /\ IsFiniteSet(S) /\ IsFiniteSet(F) /\ S \subseteq Nat /\ F \subseteq S
      /\ Cardinality(F) = m
      /\ \A x : IsFiniteSet(Below(x)) /\ Cardinality(Below(x)) \in Nat
  BY SlotsFinite DEF FirstOf
<1>2. /\ \A x \in S : x \in F <=> Cardinality(Below(x)) < m
      /\ \A x \in S : x \in FirstOf(S, m + 1) <=> Cardinality(Below(x)) < m + 1
      /\ FirstOf(S, m + 1) \subseteq S
  BY DEF FirstOf
<1>3. PICK x \in S \ F : \A y \in S \ F : x <= y
  <2>1. S \ F # {}
    <3>1. CASE S = F
      BY <3>1
    <3> QED
      BY <1>1, <3>1
  <2> QED
    BY <1>1, <2>1, FirstSlot
<1> HIDE DEF F, Below
<1>4. ASSUME NEW y \in F PROVE y < x
  <2>1. CASE x < y
    <3>1. Below(x) \subseteq Below(y)
      <4>1. x \in Nat /\ y \in Nat /\ \A j \in S : j \in Nat
        BY <1>1, <1>3
      <4>2. ASSUME NEW j \in S, j < x PROVE j < y
        BY <2>1, <4>1, <4>2
      <4> QED
        BY <4>2 DEF Below
    <3>2. Cardinality(Below(x)) <= Cardinality(Below(y))
      BY <1>1, <3>1, FS_Subset
    <3> QED
      BY <1>1, <1>2, <1>3, <3>2
  <2> QED
    BY <1>1, <1>3, <2>1
<1>5. Below(x) = F
  <2>1. ASSUME NEW y \in S PROVE y < x <=> y \in F
    BY <1>1, <1>3, <1>4
  <2> QED
    BY <1>1, <2>1 DEF Below
<1>6. FirstOf(S, m + 1) = F \cup {x}
  <2>1. x \in FirstOf(S, m + 1)
    BY <1>2, <1>3, <1>5 DEF F
  <2>2. \A y \in F : y \in FirstOf(S, m + 1)
    BY <1>1, <1>2
  <2>3. ASSUME NEW y \in S \ F, y # x PROVE y \notin FirstOf(S, m + 1)
    <3>1. F \cup {x} \subseteq Below(y)
      BY <1>1, <1>3, <1>4, <2>3 DEF Below
    <3>2. Cardinality(F \cup {x}) <= Cardinality(Below(y))
      BY <1>1, <3>1, FS_Subset
    <3>3. Cardinality(F \cup {x}) = m + 1
      BY <1>1, <1>3, FS_AddElement
    <3> QED
      BY <1>1, <1>2, <3>2, <3>3
  <2> QED
    BY <1>1, <1>2, <1>3, <2>1, <2>2, <2>3
<1> QED
  BY <1>1, <1>3, <1>6, FS_AddElement

LEMMA FirstOfSize ==
  ASSUME NEW S, S \subseteq Slots, NEW n \in Nat, n <= Cardinality(S)
  PROVE  Cardinality(FirstOf(S, n)) = n
<1> DEFINE Bad == {k \in 0..n : Cardinality(FirstOf(S, k)) # k}
<1>1. SUFFICES ASSUME Bad # {} PROVE FALSE
  OBVIOUS
<1>2. PICK k \in Bad : \A j \in Bad : k <= j
  <2>1. Bad \subseteq Nat
    OBVIOUS
  <2> HIDE DEF Bad
  <2> QED
    BY <1>1, <2>1, FirstSlot
<1>3. k # 0
  <2>1. \A x \in S : Cardinality({j \in S : j < x}) \in Nat
    BY SlotsFinite
  <2>2. FirstOf(S, 0) = {}
    BY <2>1 DEF FirstOf
  <2> QED
    BY <1>2, <2>2, FS_EmptySet
<1>4. k - 1 \in Nat /\ k - 1 < Cardinality(S) /\ k - 1 \notin Bad
  BY <1>2, <1>3, SlotsFinite
<1>5. Cardinality(FirstOf(S, k - 1)) = k - 1
  BY <1>2, <1>4
<1> HIDE DEF Bad
<1>6. Cardinality(FirstOf(S, (k - 1) + 1)) = (k - 1) + 1
  BY <1>4, <1>5, FirstOfNext
<1> QED
  BY <1>2, <1>4, <1>6 DEF Bad

\* Cardinality means the same in SlotAllocator.
LEMMA SameCardinality == \A S : Allocator!Cardinality(S) = Cardinality(S)
BY DEF Allocator!Cardinality, Cardinality

\* reserveSlotsLocked hands out exactly the number of slots asked for, or none.
LEMMA ChoiceSize ==
  ASSUME NEW n \in Nat, Choice(n) # {}
  PROVE  Cardinality(Choice(n)) = n
<1>1. Connected \subseteq Slots /\ FreeUsable \subseteq Slots /\ FreeAny \subseteq Slots
  BY DEF Connected, FreeUsable, FreeAny
<1>2. /\ Cardinality(Connected) >= n => Cardinality(FirstOf(Connected, n)) = n
      /\ Cardinality(FreeUsable) >= n => Cardinality(FirstOf(FreeUsable, n)) = n
      /\ Cardinality(FreeAny) >= n => Cardinality(FirstOf(FreeAny, n)) = n
  BY <1>1, FirstOfSize, SlotsFinite
<1> QED
  BY <1>2 DEF Choice

-----------------------------------------------------------------------------
(* Every step is a step of SlotAllocator.                                  *)

Sealed == admin.pc \in {"stopping", "starting"}
Holders == [i \in Slots |-> {s \in Sessions : stream[s][i] # "none"}]

LEMMA AskStep ==
  ASSUME Inv, NEW s \in Sessions, NEW n \in StreamCounts, Request(s, n)
  PROVE  Allocator!Next
<1>1. PICK k \in 1..PoolSize : want' = [want EXCEPT ![s] = k]
  <2>1. (IF n > PoolSize THEN PoolSize ELSE n) \in 1..PoolSize
    BY PoolAssumption DEF PoolAssumption
  <2> QED
    BY <2>1 DEF Request
<1>2. /\ want[s] = 0 /\ \A i \in Slots : s \notin Holders[i]
      /\ Holders' = Holders /\ Sealed' = Sealed
  BY DEF Request, HeldBy, Holders, Sealed
<1>3. Allocator!Ask(s, k)
  BY <1>1, <1>2 DEF Allocator!Ask, Allocator!Slots, Slots, Holders, Sealed
<1> QED
  BY <1>3 DEF Allocator!Next

LEMMA GrantStep ==
  ASSUME Inv, NEW s \in Sessions, ReserveSlots(s)
  PROVE  Allocator!Next
<1>0. PICK C \in SUBSET Slots : C = Choice(want[s])
  BY ChoiceIsFree
<1>1. C \in SUBSET Slots /\ ~draining /\ \A i \in C : users[i] = 0
  BY <1>0, ChoiceIsFree DEF ReserveSlots
<1>2. \A i \in C : Holders[i] = {}
  BY <1>1, Exclusive DEF Holders
<1>3. ~Sealed /\ Sealed' = Sealed
  BY <1>1 DEF Inv, ReplacedOnlyWhenIdle, Sealed, ReserveSlots
<1>4. Cardinality(C) = want[s]
  BY <1>0, ChoiceSize DEF Inv, TypeOK, ReserveSlots
<1>5. /\ stream' = [stream EXCEPT ![s] = [i \in Slots |-> IF i \in C THEN "ready" ELSE @[i]]]
      /\ want' = [want EXCEPT ![s] = 0]
  BY <1>0 DEF ReserveSlots
<1>6. \A r \in Sessions, i \in Slots :
        stream'[r][i] = IF r = s /\ i \in C THEN "ready" ELSE stream[r][i]
  BY <1>5 DEF Inv, TypeOK
<1>7. Holders' = [i \in Slots |-> IF i \in C THEN {s} ELSE Holders[i]]
  <2>1. ASSUME NEW i \in Slots PROVE Holders'[i] = IF i \in C THEN {s} ELSE Holders[i]
    <3>1. CASE i \in C
      <4>1. \A r \in Sessions : stream'[r][i] # "none" <=> r = s
        BY <1>2, <1>6, <3>1 DEF Holders
      <4>2. Holders'[i] = {r \in Sessions : stream'[r][i] # "none"}
        BY DEF Holders
      <4> QED
        BY <3>1, <4>1, <4>2
    <3>2. CASE i \notin C
      BY <1>6, <3>2 DEF Holders
    <3> QED
      BY <3>1, <3>2
  <2> QED
    BY <2>1 DEF Holders
<1>8. Allocator!Grant(s, C)
  BY <1>2, <1>3, <1>4, <1>5, <1>7, SameCardinality, Zenon DEF Allocator!Grant, Allocator!Slots, Slots, Holders, Sealed
<1> QED
  <2>1. C \in SUBSET Allocator!Slots
    BY <1>1 DEF Allocator!Slots, Slots
  <2> QED
    BY <1>8, <2>1 DEF Allocator!Next

LEMMA GiveBackStep ==
  ASSUME Inv, NEW s \in Sessions, NEW i \in Slots, ReleaseSlot(s, i)
  PROVE  Allocator!Next
<1>1. /\ stream[s][i] = "ready" /\ stream' = [stream EXCEPT ![s][i] = "none"]
      /\ want' = want /\ Sealed' = Sealed
  BY DEF ReleaseSlot, Sealed
<1>2. \A r \in Sessions, j \in Slots :
        stream'[r][j] = IF r = s /\ j = i THEN "none" ELSE stream[r][j]
  BY <1>1 DEF Inv, TypeOK
<1>3. s \in Holders[i]
  BY <1>1 DEF Holders
<1>4. Holders' = [Holders EXCEPT ![i] = @ \ {s}]
  <2>1. ASSUME NEW j \in Slots PROVE Holders'[j] = IF j = i THEN Holders[j] \ {s} ELSE Holders[j]
    BY <1>2, <2>1 DEF Holders
  <2> QED
    BY <2>1 DEF Holders
<1>5. Allocator!GiveBack(s, i)
  BY <1>1, <1>3, <1>4 DEF Allocator!GiveBack, Holders, Sealed
<1> QED
  BY <1>5 DEF Allocator!Next, Allocator!Slots, Slots

\* What a session does with a slot it holds changes nothing for the allocator.
LEMMA HeldStep ==
  ASSUME Inv, NEW s \in Sessions, NEW i \in Slots, StreamSteps(s, i)
  PROVE  UNCHANGED Allocator!vars
<1>1. /\ want' = want /\ admin' = admin
      /\ stream[s][i] # "none"
      /\ \E x \in {"ready", "starting", "stepping"} : stream' = [stream EXCEPT ![s][i] = x]
  <2>1. CASE RefuseRestart(s, i)
    <3>1. stream' = [stream EXCEPT ![s][i] = "ready"]
      BY <2>1 DEF RefuseRestart, Inv, TypeOK
    <3> QED
      BY <2>1, <3>1 DEF RefuseRestart
  <2>2. CASE \E ok \in BOOLEAN : EndRestart(s, i, ok)
    BY <2>2 DEF EndRestart
  <2>3. CASE EnsureAlive(s, i) \/ BeginRestart(s, i) \/ StepReturns(s, i)
    BY <2>3 DEF EnsureAlive, BeginRestart, StepReturns
  <2> QED
    BY <2>1, <2>2, <2>3 DEF StreamSteps
<1>2. PICK x \in {"ready", "starting", "stepping"} : stream' = [stream EXCEPT ![s][i] = x]
  BY <1>1
<1>3. \A r \in Sessions, j \in Slots : stream'[r][j] # "none" <=> stream[r][j] # "none"
  BY <1>1, <1>2 DEF Inv, TypeOK
<1>4. Holders' = Holders
  <2>1. ASSUME NEW j \in Slots PROVE Holders'[j] = Holders[j]
    BY <1>3 DEF Holders
  <2> QED
    BY <2>1 DEF Holders
<1> QED
  BY <1>1, <1>4 DEF Allocator!vars, Holders

\* A lifecycle call seals the pool when waitForIdle has returned, and opens it at its end.
LEMMA LifecycleStep ==
  ASSUME Inv, AdminSteps \/ \E op \in {"start", "stop", "restart"} : BeginLifecycle(op)
  PROVE  [Allocator!Next]_Allocator!vars
<1>1. want' = want /\ Holders' = Holders
  BY DEF AdminSteps, BeginLifecycle, Rebuild, StopAllSlots, StopRunnerReturns, BeginStartAll, StartReturns,
     BeginStartSlot, EndStartSlot, Holders, slotVars
<1>2. CASE Rebuild \/ StopAllSlots
  <2>1. \A i \in Slots : Holders[i] = {}
    BY <1>2, Exclusive DEF Rebuild, StopAllSlots, Idle, Holders
  <2>2. Sealed' = TRUE
    BY <1>2 DEF Rebuild, StopAllSlots, Sealed, Inv, TypeOK
  <2>3. Allocator!Seal
    BY <1>1, <2>1, <2>2 DEF Allocator!Seal, Allocator!Slots, Slots, Holders, Sealed
  <2> QED
    BY <2>3 DEF Allocator!Next
<1>3. CASE StopRunnerReturns \/ StartReturns
  <2>1. Sealed' = FALSE
    BY <1>3 DEF StopRunnerReturns, StartReturns, NoCall, Sealed
  <2>2. Allocator!Unseal
    BY <1>1, <2>1 DEF Allocator!Unseal, Holders, Sealed
  <2> QED
    BY <2>2 DEF Allocator!Next
<1>4. CASE \/ BeginStartAll
           \/ \E i \in Slots : BeginStartSlot(i) \/ \E ok \in BOOLEAN : EndStartSlot(i, ok)
           \/ \E op \in {"start", "stop", "restart"} : BeginLifecycle(op)
  <2>1. Sealed' = Sealed
    <3>1. CASE BeginStartAll
      BY <3>1 DEF BeginStartAll, Sealed, Inv, TypeOK
    <3>2. CASE \E i \in Slots : BeginStartSlot(i)
      BY <3>2 DEF BeginStartSlot, Sealed, Inv, TypeOK
    <3>3. CASE \E i \in Slots, ok \in BOOLEAN : EndStartSlot(i, ok)
      BY <3>3 DEF EndStartSlot, Sealed
    <3>4. CASE \E op \in {"start", "stop", "restart"} : BeginLifecycle(op)
      BY <3>4 DEF BeginLifecycle, Sealed
    <3> QED
      BY <1>4, <3>1, <3>2, <3>3, <3>4
  <2> QED
    BY <1>1, <2>1 DEF Allocator!vars, Holders, Sealed
<1> QED
  BY <1>2, <1>3, <1>4 DEF AdminSteps

\* The pool is an all-or-nothing allocator of exclusive slots: whatever the mix of
\* waiting sessions, dead processes and lifecycle calls, a session gets all the
\* slots it asked for in one step or keeps waiting with none, from slots nobody
\* holds, and all processes are replaced only while every slot is free.
THEOREM PoolImplementsAllocator == Spec => ImplementsAllocator
<1>1. Init => Allocator!Init
  BY DEF Init, NoCall, Allocator!Init, Allocator!Slots, Slots
<1>2. Inv /\ [Next]_vars => [Allocator!Next]_Allocator!vars
  <2> SUFFICES ASSUME Inv, [Next]_vars PROVE [Allocator!Next]_Allocator!vars
    OBVIOUS
  <2>1. CASE \E s \in Sessions, n \in StreamCounts : Request(s, n)
    BY <2>1, AskStep
  <2>2. CASE \E s \in Sessions : ReserveSlots(s)
    BY <2>2, GrantStep
  <2>3. ASSUME NEW s \in Sessions, ReserveNothing(s) PROVE Allocator!Next
    <3>1. Allocator!Refuse(s)
      BY <2>3 DEF ReserveNothing, Allocator!Refuse
    <3> QED
      BY <3>1 DEF Allocator!Next
  <2>4. CASE \E s \in Sessions, i \in Slots : StreamSteps(s, i)
    BY <2>4, HeldStep
  <2>5. CASE \E s \in Sessions, i \in Slots : ReleaseSlot(s, i)
    BY <2>5, GiveBackStep
  <2>6. CASE \E i \in Slots : ProcessDies(i)
    BY <2>6 DEF ProcessDies, Allocator!vars
  <2>7. CASE AdminSteps \/ \E op \in {"start", "stop", "restart"} : BeginLifecycle(op)
    BY <2>7, LifecycleStep
  <2>8. CASE UNCHANGED vars
    BY <2>8 DEF vars, Allocator!vars
  <2> QED
    BY <2>1, <2>2, <2>3, <2>4, <2>5, <2>6, <2>7, <2>8 DEF Next
<1> QED
  BY <1>1, <1>2, PoolInvariant, PTL DEF Spec, ImplementsAllocator, Allocator!Spec
=============================================================================
