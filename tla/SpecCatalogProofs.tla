-------------------------- MODULE SpecCatalogProofs --------------------------
(***************************************************************************)
(* A test runs with the concepts of the project its files come from, for   *)
(* any number of files, projects, API threads and tests.                   *)
(*                                                                         *)
(* A change of project goes on under projectMutex_ after it has looked for *)
(* active tests, so at most one thread is at it (OneSwitch) and an active  *)
(* test that is not crossed stands in the current directory with nobody    *)
(* between the directory and its concepts (Settled).                       *)
(*                                                                         *)
(* A file of the project is read as it is written, whatever its length and *)
(* the order of its lines (SpecParser).  Nothing may stand between an open *)
(* table and the step it belongs to (StepAbove, OpenTable), a part of the  *)
(* document is filled in its section only (SectionsFilled), and a row is   *)
(* in a finished table, in the open one or in a warning (RowsKept).        *)
(***************************************************************************)
EXTENDS SpecCatalog, SpecParser, SequenceTheorems, TLAPS

Place == [pc : {"idle", "scan", "scanReload", "scanPublish", "reload", "ack", "publish", "configure"},
          op : {"none", "write", "reload", "select"}, target : Projects]
Test  == [state : {"none", "resolved", "queued", "parsed", "ended"},
          project : Projects, crossed : BOOLEAN, concepts : Projects]

TypeOK ==
  /\ dir \in Projects /\ switching \in BOOLEAN
  /\ loaded \in [project : Projects, sigs : [ConceptFiles -> Nat]]
  /\ disk \in [Files -> [here : BOOLEAN, change : Nat]]
  /\ edits \in Nat
  /\ at \in [Threads -> Place]
  /\ tests \in [Tests -> Test]

Switches(t) == at[t].op = "select"

\* The project of the concepts is behind the directory.
Behind(t) == at[t].op = "select" /\ at[t].pc = "reload"

OneSwitch ==
  /\ \A t \in Threads : Switches(t) => t \in Api /\ switching
  /\ \A s, t \in Threads : Switches(s) /\ Switches(t) => s = t

OnlySwitchesConfigure == \A t \in Threads : at[t].pc = "configure" => Switches(t)

ConceptsFollow == (\A t \in Threads : ~Behind(t)) => loaded.project = dir

Uncrossed(i) == tests[i].state \in {"queued", "parsed"} /\ ~tests[i].crossed

Settled ==
  \A i \in Tests : Uncrossed(i) =>
    /\ tests[i].project = dir
    /\ \A t \in Threads : Switches(t) => at[t].pc \notin {"configure", "reload"}

Inv == TypeOK /\ OneSwitch /\ OnlySwitchesConfigure /\ ConceptsFollow /\ Settled /\ OneProjectPerTest

-----------------------------------------------------------------------------
(* Types.                                                                  *)

LEMMA SigIsNat ==
  ASSUME TypeOK, NEW f \in Files
  PROVE  Sig(f) \in Nat
BY DEF TypeOK, Sig, Gone

LEMMA ConceptFilesAreFiles == ConceptFiles \subseteq Files /\ NoProject \in Projects
BY SpecCatalogAssumption DEF NoProject

LEMMA LoadType ==
  ASSUME TypeOK, NEW p \in Projects, Load(p)
  PROVE  loaded' \in [project : Projects, sigs : [ConceptFiles -> Nat]] /\ loaded'.project = p
<1>1. \A f \in ConceptFiles : (IF ProjectOf[f] = p THEN Sig(f) ELSE Gone) \in Nat
  BY SigIsNat, ConceptFilesAreFiles DEF Gone
<1> QED BY <1>1 DEF Load

LEMMA ChangeFileType ==
  ASSUME TypeOK, NEW f \in Files, NEW here \in BOOLEAN, ChangeFile(f, here)
  PROVE  disk' \in [Files -> [here : BOOLEAN, change : Nat]] /\ edits' \in Nat
BY DEF TypeOK, ChangeFile

\* Where a step of one thread leaves it.
LEMMA PlaceType ==
  ASSUME TypeOK, NEW t \in Threads, NEW new \in Place, at' = [at EXCEPT ![t] = new]
  PROVE  at' \in [Threads -> Place] /\ at'[t] = new /\ \A s \in Threads : s # t => at'[s] = at[s]
BY DEF TypeOK

LEMMA GotoPlace ==
  ASSUME TypeOK, NEW t \in Threads,
         NEW pc \in {"idle", "scan", "scanReload", "scanPublish", "reload", "ack", "publish", "configure"},
         Goto(t, pc)
  PROVE  /\ at' \in [Threads -> Place]
         /\ at'[t].pc = pc /\ at'[t].op = at[t].op /\ at'[t].target = at[t].target
         /\ \A s \in Threads : s # t => at'[s] = at[s]
BY DEF TypeOK, Goto, Place

-----------------------------------------------------------------------------
(* Steps of threads that leave the directory and the tests alone.          *)

LEMMA Elsewhere ==
  ASSUME Inv, TypeOK', UNCHANGED <<dir, tests>>, NEW t \in Threads,
         \A s \in Threads : s # t => at'[s] = at[s],
         Switches(t)' => Switches(t) /\ at'[t].pc \notin {"configure", "reload"},
         at'[t].pc # "configure",
         UNCHANGED switching \/ (Switches(t) /\ ~Switches(t)'),
         loaded'.project = dir \/ (UNCHANGED loaded /\ ~Behind(t))
  PROVE  Inv'
<1>1. OneSwitch' /\ OnlySwitchesConfigure'
  BY DEF Inv, OneSwitch, OnlySwitchesConfigure, Switches
<1>2. ConceptsFollow'
  BY DEF Inv, ConceptsFollow, Behind, Switches
<1>3. Settled'
  BY DEF Inv, Settled, Switches, Uncrossed
<1>4. OneProjectPerTest'
  BY DEF Inv, OneProjectPerTest
<1> QED BY <1>1, <1>2, <1>3, <1>4 DEF Inv

LEMMA ScanInv ==
  ASSUME Inv, NEW t \in Threads, Scan(t)
  PROVE  Inv'
<1> TypeOK /\ dir \in Projects
  BY DEF Inv, TypeOK
<1>1. CASE ScanLook(t)
  <2> DEFINE pc == IF Noticed = {} THEN IF t = Watcher THEN "idle" ELSE "publish"
                   ELSE IF Noticed \cap ConceptFiles # {} THEN "scanReload" ELSE "scanPublish"
  <2>1. /\ Goto(t, pc) /\ pc \in {"idle", "publish", "scanReload", "scanPublish"}
        /\ at[t].pc \in {"idle", "scan"}
        /\ UNCHANGED <<catalogVars, dir, switching, loaded, tests>>
    BY <1>1 DEF ScanLook
  <2> HIDE DEF pc
  <2>2. TypeOK'
    BY <2>1, GotoPlace DEF TypeOK, catalogVars
  <2> QED BY <2>1, <2>2, GotoPlace, Elsewhere DEF Switches, Behind
<1>2. CASE ScanReload(t)
  <2>1. Goto(t, "scanPublish") /\ Load(dir) /\ UNCHANGED <<catalogVars, dir, switching, tests>>
    BY <1>2 DEF ScanReload
  <2>2. TypeOK'
    BY <2>1, GotoPlace, LoadType DEF TypeOK, catalogVars
  <2> QED BY <2>1, <2>2, GotoPlace, LoadType, Elsewhere DEF Switches
<1>3. CASE ScanPublish(t)
  <2> DEFINE pc == IF t = Watcher THEN "idle" ELSE "publish"
  <2>1. /\ Goto(t, pc) /\ pc \in {"idle", "publish"} /\ at[t].pc = "scanPublish"
        /\ UNCHANGED <<catalogVars, dir, switching, loaded, tests>>
    BY <1>3 DEF ScanPublish
  <2> HIDE DEF pc
  <2>2. TypeOK'
    BY <2>1, GotoPlace DEF TypeOK, catalogVars
  <2> QED BY <2>1, <2>2, GotoPlace, Elsewhere DEF Switches, Behind
<1> QED BY <1>1, <1>2, <1>3 DEF Scan

LEMMA ReloadInv ==
  ASSUME Inv, NEW t \in Threads, Reload(t)
  PROVE  Inv'
<1> DEFINE pc == IF at[t].op = "reload" THEN "scan" ELSE "ack"
<1>1. /\ TypeOK /\ dir \in Projects
      /\ Goto(t, pc) /\ pc \in {"scan", "ack"}
      /\ Load(dir) /\ UNCHANGED <<catalogVars, dir, switching, tests>>
  BY DEF Inv, TypeOK, Reload
<1> HIDE DEF pc
<1>2. TypeOK'
  BY <1>1, GotoPlace, LoadType DEF TypeOK, catalogVars
<1> QED BY <1>1, <1>2, GotoPlace, LoadType, Elsewhere DEF Switches

LEMMA AcknowledgeInv ==
  ASSUME Inv, NEW t \in Threads, Acknowledge(t)
  PROVE  Inv'
<1>1. /\ TypeOK /\ Goto(t, "publish") /\ at[t].pc = "ack"
      /\ UNCHANGED <<catalogVars, dir, switching, loaded, tests>>
  BY DEF Inv, Acknowledge
<1>2. TypeOK'
  BY <1>1, GotoPlace DEF TypeOK, catalogVars
<1> QED BY <1>1, <1>2, GotoPlace, Elsewhere DEF Switches, Behind

LEMMA PublishInv ==
  ASSUME Inv, NEW t \in Threads, Publish(t)
  PROVE  Inv'
<1>1. /\ TypeOK /\ at' = [at EXCEPT ![t] = Idle("idle")] /\ at[t].pc = "publish"
      /\ switching' = (switching /\ at[t].op # "select")
      /\ UNCHANGED <<catalogVars, dir, loaded, tests>>
  BY DEF Inv, Publish
<1>2. Idle("idle") \in Place /\ Idle("idle").op = "none" /\ Idle("idle").pc = "idle"
  BY ConceptFilesAreFiles DEF Idle, Place
<1>3. at' \in [Threads -> Place] /\ at'[t].op = "none" /\ at'[t].pc = "idle" /\ \A s \in Threads : s # t => at'[s] = at[s]
  BY <1>1, <1>2, PlaceType
<1>4. switching' \in BOOLEAN /\ (UNCHANGED switching \/ Switches(t))
  BY <1>1 DEF TypeOK, Switches
<1>5. TypeOK'
  BY <1>1, <1>3, <1>4 DEF TypeOK, catalogVars
<1>6. ~Switches(t)' /\ ~Behind(t)
  BY <1>1, <1>3 DEF Switches, Behind
<1> QED BY <1>1, <1>3, <1>4, <1>5, <1>6, Elsewhere

-----------------------------------------------------------------------------
(* API calls.                                                              *)

\* A thread that was idle begins a call that changes no project.
LEMMA BeginsInv ==
  ASSUME Inv, NEW t \in Threads, at[t].pc = "idle",
         NEW new \in Place, new.op # "select", new.pc # "configure", at' = [at EXCEPT ![t] = new],
         disk' \in [Files -> [here : BOOLEAN, change : Nat]], edits' \in Nat,
         UNCHANGED <<dir, switching, loaded, tests>>
  PROVE  Inv'
<1>1. at' \in [Threads -> Place] /\ at'[t] = new /\ \A s \in Threads : s # t => at'[s] = at[s]
  BY PlaceType DEF Inv
<1>2. TypeOK'
  BY <1>1 DEF Inv, TypeOK
<1> QED BY <1>1, <1>2, Elsewhere DEF Switches, Behind

LEMMA WriteFileInv ==
  ASSUME Inv, NEW t \in Api, NEW f \in Files, WriteFile(t, f)
  PROVE  Inv'
<1> DEFINE new == [Idle(IF f \in ConceptFiles THEN "reload" ELSE "ack") EXCEPT !.op = "write"]
<1>1. new \in Place /\ new.op # "select" /\ new.pc # "configure"
  BY ConceptFilesAreFiles DEF Idle, Place
<1>2. at[t].pc = "idle" /\ at' = [at EXCEPT ![t] = new] /\ UNCHANGED <<dir, switching, loaded, tests>>
  BY DEF WriteFile
<1>3. PICK here \in BOOLEAN : ChangeFile(f, here)
  BY DEF WriteFile
<1>4. disk' \in [Files -> [here : BOOLEAN, change : Nat]] /\ edits' \in Nat
  BY <1>3, ChangeFileType DEF Inv
<1> HIDE DEF new
<1> QED BY <1>1, <1>2, <1>4, BeginsInv DEF Threads

LEMMA ReloadSpecsInv ==
  ASSUME Inv, NEW t \in Api, ReloadSpecs(t)
  PROVE  Inv'
<1> DEFINE new == [Idle("reload") EXCEPT !.op = "reload"]
<1>1. new \in Place /\ new.op # "select" /\ new.pc # "configure"
  BY ConceptFilesAreFiles DEF Idle, Place
<1>2. at[t].pc = "idle" /\ at' = [at EXCEPT ![t] = new]
  BY DEF ReloadSpecs, Call
<1>3. UNCHANGED <<disk, edits, dir, switching, loaded, tests>>
  BY DEF ReloadSpecs, catalogVars
<1> HIDE DEF new
<1> QED BY <1>1, <1>2, <1>3, BeginsInv DEF Threads, Inv, TypeOK

-----------------------------------------------------------------------------
(* A change of project.                                                    *)

LEMMA SelectProjectInv ==
  ASSUME Inv, NEW t \in Api, NEW p \in Projects, SelectProject(t, p)
  PROVE  Inv'
<1> DEFINE new == [Idle("configure") EXCEPT !.op = "select", !.target = p]
<1>1. new \in Place /\ new.op = "select" /\ new.pc = "configure"
  BY DEF Idle, Place
<1>2. /\ t \in Threads /\ at' = [at EXCEPT ![t] = new]
      /\ ~switching /\ switching' = TRUE /\ Active = {}
      /\ UNCHANGED <<catalogVars, dir, loaded, tests>>
  BY DEF SelectProject, Threads
<1> HIDE DEF new
<1>3. at' \in [Threads -> Place] /\ at'[t] = new /\ \A s \in Threads : s # t => at'[s] = at[s]
  BY <1>1, <1>2, PlaceType DEF Inv
<1>4. \A s \in Threads : ~Switches(s)
  BY <1>2 DEF Inv, OneSwitch
<1>5. TypeOK'
  BY <1>2, <1>3 DEF Inv, TypeOK, catalogVars
<1>6. OneSwitch' /\ OnlySwitchesConfigure'
  BY <1>1, <1>2, <1>3, <1>4 DEF Inv, OneSwitch, OnlySwitchesConfigure, Switches
<1>7. ConceptsFollow'
  BY <1>2, <1>4 DEF Inv, ConceptsFollow, Behind, Switches
<1>8. Settled'
  BY <1>2 DEF Settled, Uncrossed, Active
<1>9. OneProjectPerTest'
  BY <1>2 DEF Inv, OneProjectPerTest
<1> QED BY <1>5, <1>6, <1>7, <1>8, <1>9 DEF Inv

\* Only a change of project configures.
LEMMA ConfigureInv ==
  ASSUME Inv, NEW t \in Threads, Configure(t)
  PROVE  Inv'
<1>1. /\ TypeOK /\ at[t].pc = "configure" /\ dir' = at[t].target /\ Goto(t, "reload")
      /\ UNCHANGED <<catalogVars, switching, loaded, tests>>
  BY DEF Inv, Configure
<1>2. Switches(t)
  BY <1>1 DEF Inv, OnlySwitchesConfigure
<1>3. /\ at' \in [Threads -> Place] /\ at'[t].pc = "reload" /\ at'[t].op = at[t].op
      /\ \A s \in Threads : s # t => at'[s] = at[s]
  BY <1>1, GotoPlace
<1>4. TypeOK'
  BY <1>1, <1>3 DEF TypeOK, Place, catalogVars
<1>5. OneSwitch' /\ OnlySwitchesConfigure'
  BY <1>1, <1>3 DEF Inv, OneSwitch, OnlySwitchesConfigure, Switches
<1>6. ConceptsFollow'
  BY <1>2, <1>3 DEF ConceptsFollow, Behind, Switches
<1>7. Settled'
  BY <1>1, <1>2 DEF Inv, Settled, Uncrossed
<1>8. OneProjectPerTest'
  BY <1>1 DEF Inv, OneProjectPerTest
<1> QED BY <1>4, <1>5, <1>6, <1>7, <1>8 DEF Inv

-----------------------------------------------------------------------------
(* Tests.                                                                  *)

\* What a step of one test leaves as it was.
LEMMA TestStep ==
  ASSUME Inv, NEW i \in Tests, UNCHANGED <<disk, edits, dir, switching, loaded, at>>,
         tests' \in [Tests -> Test], \A j \in Tests : j # i => tests'[j] = tests[j],
         Uncrossed(i)' => /\ tests'[i].project = dir
                          /\ \A t \in Threads : Switches(t) => at[t].pc \notin {"configure", "reload"},
         tests'[i].state \in {"parsed", "ended"} /\ ~tests'[i].crossed
           => tests'[i].concepts = tests'[i].project
  PROVE  Inv'
<1>1. TypeOK' /\ OneSwitch' /\ ConceptsFollow' /\ OnlySwitchesConfigure'
  BY DEF Inv, TypeOK, OneSwitch, ConceptsFollow, OnlySwitchesConfigure, Switches, Behind
<1>2. Settled'
  BY DEF Inv, Settled, Uncrossed, Switches
<1>3. OneProjectPerTest'
  BY DEF Inv, OneProjectPerTest
<1> QED BY <1>1, <1>2, <1>3 DEF Inv

LEMMA ResolveInv ==
  ASSUME Inv, NEW i \in Tests, Resolve(i)
  PROVE  Inv'
<1>1. /\ UNCHANGED <<disk, edits, dir, switching, loaded, at>>
      /\ tests' = [tests EXCEPT ![i].state = "resolved", ![i].project = dir]
  BY DEF Resolve, catalogVars
<1>2. tests' \in [Tests -> Test] /\ \A j \in Tests : j # i => tests'[j] = tests[j]
  BY <1>1 DEF Inv, TypeOK, Test
<1>3. tests'[i].state = "resolved"
  BY <1>1 DEF Inv, TypeOK, Test
<1> QED BY <1>1, <1>2, <1>3, TestStep DEF Uncrossed

\* A test that a change of project does not cross is queued where it was
\* resolved, and nobody has looked for active tests before.
LEMMA EnqueueInv ==
  ASSUME Inv, NEW i \in Tests, Enqueue(i)
  PROVE  Inv'
<1> DEFINE crossed == \/ dir # tests[i].project
                      \/ \E t \in Api : at[t].op = "select" /\ at[t].pc \in {"configure", "reload"}
<1>1. /\ UNCHANGED <<disk, edits, dir, switching, loaded, at>>
      /\ tests' = [tests EXCEPT ![i].state = "queued", ![i].crossed = crossed]
  BY DEF Enqueue, catalogVars
<1>2. crossed \in BOOLEAN
  OBVIOUS
<1>3. ~crossed => /\ tests[i].project = dir
                  /\ \A t \in Threads : Switches(t) => at[t].pc \notin {"configure", "reload"}
  BY DEF Inv, OneSwitch, Switches
<1> HIDE DEF crossed
<1>4. tests' \in [Tests -> Test] /\ \A j \in Tests : j # i => tests'[j] = tests[j]
  BY <1>1, <1>2 DEF Inv, TypeOK, Test
<1>5. tests'[i].state = "queued" /\ tests'[i].crossed = crossed /\ tests'[i].project = tests[i].project
  BY <1>1 DEF Inv, TypeOK, Test
<1> QED BY <1>1, <1>3, <1>4, <1>5, TestStep DEF Uncrossed

\* The concepts are those of the directory: whoever changes it would have
\* crossed the test.
LEMMA ParseInv ==
  ASSUME Inv, NEW i \in Tests, Parse(i)
  PROVE  Inv'
<1>1. /\ UNCHANGED <<disk, edits, dir, switching, loaded, at>>
      /\ tests[i].state = "queued"
      /\ tests' = [tests EXCEPT ![i].state = "parsed", ![i].concepts = loaded.project]
  BY DEF Parse, catalogVars
<1>2. tests' \in [Tests -> Test] /\ \A j \in Tests : j # i => tests'[j] = tests[j]
  BY <1>1 DEF Inv, TypeOK, Test
<1>3. /\ tests'[i].state = "parsed" /\ tests'[i].concepts = loaded.project
      /\ tests'[i].crossed = tests[i].crossed /\ tests'[i].project = tests[i].project
  BY <1>1 DEF Inv, TypeOK, Test
<1>4. ~tests[i].crossed => /\ tests[i].project = dir
                           /\ \A t \in Threads : Switches(t) => at[t].pc \notin {"configure", "reload"}
  BY <1>1 DEF Inv, Settled, Uncrossed
<1>5. ~tests[i].crossed => loaded.project = dir
  BY <1>4 DEF Inv, ConceptsFollow, Behind, Switches
<1> QED BY <1>1, <1>2, <1>3, <1>4, <1>5, TestStep DEF Uncrossed

LEMMA EndTestInv ==
  ASSUME Inv, NEW i \in Tests, EndTest(i)
  PROVE  Inv'
<1>1. /\ UNCHANGED <<disk, edits, dir, switching, loaded, at>>
      /\ tests[i].state = "parsed"
      /\ tests' = [tests EXCEPT ![i].state = "ended"]
  BY DEF EndTest, catalogVars
<1>2. tests' \in [Tests -> Test] /\ \A j \in Tests : j # i => tests'[j] = tests[j]
  BY <1>1 DEF Inv, TypeOK, Test
<1>3. /\ tests'[i].state = "ended" /\ tests'[i].concepts = tests[i].concepts
      /\ tests'[i].crossed = tests[i].crossed /\ tests'[i].project = tests[i].project
  BY <1>1 DEF Inv, TypeOK, Test
<1>4. ~tests[i].crossed => tests[i].concepts = tests[i].project
  BY <1>1 DEF Inv, OneProjectPerTest
<1> QED BY <1>1, <1>2, <1>3, <1>4, TestStep DEF Uncrossed

-----------------------------------------------------------------------------
LEMMA DiskStep ==
  ASSUME Inv, disk' \in [Files -> [here : BOOLEAN, change : Nat]], edits' \in Nat,
         UNCHANGED <<dir, switching, loaded, at, tests>>
  PROVE  Inv'
BY DEF Inv, TypeOK, OneSwitch, OnlySwitchesConfigure, ConceptsFollow, Settled, Uncrossed, OneProjectPerTest, Switches, Behind

LEMMA InitInv == Init => Inv
<1> SUFFICES ASSUME Init PROVE Inv
  OBVIOUS
<1>1. disk \in [Files -> [here : BOOLEAN, change : Nat]]
  BY DEF Init
<1>2. \A f \in Files : Sig(f) \in Nat
  BY <1>1 DEF Sig, Gone
<1>3. [f \in ConceptFiles |-> IF ProjectOf[f] = dir THEN Sig(f) ELSE Gone] \in [ConceptFiles -> Nat]
  BY <1>2, ConceptFilesAreFiles DEF Gone
<1>4. \A t \in Threads : at[t] = Idle("idle")
  BY DEF Init
<1>5. Idle("idle") \in Place /\ Idle("idle").op = "none" /\ Idle("idle").pc = "idle"
  BY ConceptFilesAreFiles DEF Idle, Place
<1>6. tests \in [Tests -> Test] /\ \A i \in Tests : tests[i].state = "none"
  BY DEF Init, Test
<1>7. at \in [Threads -> Place]
  BY <1>5 DEF Init
<1>8. /\ dir \in Projects /\ switching \in BOOLEAN /\ edits \in Nat /\ loaded.project = dir
      /\ loaded \in [project : Projects, sigs : [ConceptFiles -> Nat]]
  BY <1>3 DEF Init
<1>9. TypeOK
  BY <1>1, <1>6, <1>7, <1>8 DEF TypeOK
<1> QED BY <1>4, <1>5, <1>6, <1>8, <1>9 DEF Inv, OneSwitch, OnlySwitchesConfigure, ConceptsFollow, Settled, Uncrossed,
                                       OneProjectPerTest, Switches

LEMMA NextInv ==
  ASSUME Inv, [Next]_vars
  PROVE  Inv'
<1>1. CASE UNCHANGED vars
  BY <1>1, DiskStep DEF vars, catalogVars, Inv, TypeOK
<1>2. ASSUME NEW t \in Threads, ThreadStep(t) PROVE Inv'
  BY <1>2, ScanInv, ReloadInv, AcknowledgeInv, PublishInv, ConfigureInv DEF ThreadStep
<1>3. ASSUME NEW f \in Files, Edit(f) \/ Settle(f) PROVE Inv'
  <2>1. CASE Edit(f)
    <3>1. PICK here \in BOOLEAN : ChangeFile(f, here)
      BY <2>1 DEF Edit
    <3>2. disk' \in [Files -> [here : BOOLEAN, change : Nat]] /\ edits' \in Nat
      BY <3>1, ChangeFileType DEF Inv
    <3> QED BY <2>1, <3>2, DiskStep DEF Edit
  <2>2. CASE Settle(f)
    BY <2>2, DiskStep DEF Settle, Inv, TypeOK
  <2> QED BY <1>3, <2>1, <2>2
<1>4. ASSUME NEW t \in Api, ReloadSpecs(t) \/ (\E f \in Files : WriteFile(t, f))
                            \/ (\E p \in Projects : SelectProject(t, p))
      PROVE Inv'
  BY <1>4, ReloadSpecsInv, WriteFileInv, SelectProjectInv
<1>5. ASSUME NEW i \in Tests, Resolve(i) \/ Enqueue(i) \/ Parse(i) \/ EndTest(i) PROVE Inv'
  BY <1>5, ResolveInv, EnqueueInv, ParseInv, EndTestInv
<1> QED BY <1>1, <1>2, <1>3, <1>4, <1>5 DEF Next

\* TestHub::selectProject and a worker's parse: a test is run with the concepts
\* of the project its files were resolved in, whatever is written, reloaded and
\* changed meanwhile, unless a change of project had looked for active tests
\* before the test was among them.
THEOREM CatalogOneProjectPerTest == Spec => []OneProjectPerTest
<1>1. Inv => OneProjectPerTest
  BY DEF Inv
<1> QED BY InitInv, NextInv, <1>1, PTL DEF Spec

-----------------------------------------------------------------------------
(* The parser's invariant.                                                 *)

ParserTypes ==
  /\ lines \in Seq(Kinds)
  /\ section \in {"before", "spec", "scenario", "teardown"}
  /\ contexts \in Seq(Nat) /\ scenarios \in Seq(Seq(Nat)) /\ teardowns \in Seq(Nat)
  /\ tables \in Seq([owner : Nat, rows : Seq(Nat) \ {<<>>}])
  /\ inTable \in {"no", "step", "data"} /\ tableRows \in Seq(Nat)
  /\ lastStep \in Nat
  /\ sawStep \in BOOLEAN /\ continued \in BOOLEAN /\ ended \in BOOLEAN

\* Nothing is written into a part of the document before its section, and the
\* parts come in the order of their sections.
SectionsFilled ==
  /\ ~sawStep => contexts = <<>>
  /\ section = "before" => ~sawStep
  /\ section \in {"before", "spec"} => scenarios = <<>>
  /\ section # "teardown" => teardowns = <<>>
  /\ section = "scenario" => scenarios # <<>>
  /\ section # "before" => LinesOf({"h1"}) # {}

\* Errors are about lines that were read.
ErrorsRead == errors \subseteq 0..Len(lines)

\* Since the step that a table would belong to nothing came but tables and blank
\* lines; a line that continues tags has no such step.
StepAbove ==
  /\ lastStep <= Len(lines)
  /\ lastStep # 0 => \A i \in (lastStep + 1)..Len(lines) : lines[i] \in {"blank", "row", "separator"}
  /\ continued => lastStep = 0

\* An open table is somebody's, and stands where his tables stand.
OpenTable ==
  /\ tableRows # <<>> => inTable # "no"
  /\ inTable = "step" => lastStep # 0
  /\ inTable = "data" => section = "spec" /\ ~sawStep
  /\ tableRows # <<>> => tableRows[1] <= Len(lines)
  /\ inTable = "data" /\ tableRows # <<>> => \E i \in LinesOf({"h1"}) : i < tableRows[1]

\* Finished tables are about lines that were read.
TablesRead ==
  \A n \in DOMAIN tables : tables[n].rows[1] <= Len(lines)

\* The line after a comma is one that a tag line takes.
CommaAbove ==
  continued => \E j \in LinesOf({"tags,"}) \ errors : \A k \in (j + 1)..Len(lines) : lines[k] = "tags,"

\* The rows of the tables, finished and open.
TableRows == UNION {{tables[i].rows[j] : j \in DOMAIN tables[i].rows} : i \in DOMAIN tables}
OpenRows  == {tableRows[i] : i \in DOMAIN tableRows}

\* A row that was read is somewhere, unless a second data table was dropped.
RowsKept ==
  0 \in warnings \/ LinesOf({"row"}) \subseteq TableRows \cup OpenRows \cup warnings \cup tagLines

EndedFlushed == ended => tableRows = <<>>

\* The three parts of EveryStepOnce.
Ordered ==
  \A p, q \in Places : \A i \in DOMAIN Part(p), j \in DOMAIN Part(q) :
    p < q \/ (p = q /\ i < j) => Part(p)[i] < Part(q)[j]
Taken ==
  {i \in LinesOf(Kinds) : \E j \in LinesOf({"tags,"}) \ errors :
     j < i /\ \A k \in (j + 1)..(i - 1) : lines[k] = "tags,"}
StepsFound == LinesOf({"step", "bad step"}) \ Taken \subseteq Steps \cup errors
StepsReal  == Steps \subseteq LinesOf({"step"}) \ errors

ParserInv ==
  /\ ParserTypes /\ SectionsFilled /\ ErrorsRead /\ StepAbove /\ OpenTable /\ TablesRead
  /\ CommaAbove /\ RowsKept /\ EndedFlushed
  /\ Ordered /\ StepsFound /\ StepsReal /\ TablesWhereWritten

\* A table stands where its owner wants it (see TablesWhereWritten).
Placed(t) ==
  IF t.owner # 0
  THEN \A i \in (t.owner + 1)..(t.rows[1]) : lines[i] \in {"blank", "row", "separator"}
  ELSE /\ \E i \in LinesOf({"h1"}) : i < t.rows[1]
       /\ \A i \in Steps : i > t.rows[1]

LEMMA TablesPlaced == TablesWhereWritten <=> \A n \in DOMAIN tables : Placed(tables[n])
BY DEF TablesWhereWritten, Placed

-----------------------------------------------------------------------------
(* One more line.                                                          *)

LEMMA LinesAre ==
  ASSUME ParserTypes
  PROVE  Len(lines) \in Nat /\ DOMAIN lines = 1..Len(lines) /\ Here = Len(lines) + 1
         /\ \A i \in 1..Len(lines) : lines[i] \in Kinds
BY DEF ParserTypes, Here

LEMMA LinesGrow ==
  ASSUME ParserTypes, NEW k \in Kinds, lines' = Append(lines, k)
  PROVE  /\ lines' \in Seq(Kinds)
         /\ Len(lines') = Here /\ DOMAIN lines' = 1..Here
         /\ lines'[Here] = k
         /\ \A i \in 1..Len(lines) : lines'[i] = lines[i]
BY DEF ParserTypes, Here

LEMMA LinesOfGrow ==
  ASSUME ParserTypes, NEW k \in Kinds, lines' = Append(lines, k), NEW S
  PROVE  LinesOf(S)' = LinesOf(S) \cup (IF k \in S THEN {Here} ELSE {})
<1>1. \A i : i \in LinesOf(S)' <=> i \in 1..Here /\ lines'[i] \in S
  BY LinesGrow DEF LinesOf
<1>2. \A i : i \in LinesOf(S) <=> i \in 1..Len(lines) /\ lines[i] \in S
  BY LinesAre DEF LinesOf
<1>3. \A i : i \in 1..Here <=> i \in 1..Len(lines) \/ i = Here
  BY LinesAre
<1> QED
  BY <1>1, <1>2, <1>3, LinesGrow, LinesAre

-----------------------------------------------------------------------------
(* The document: what it gets at its end.                                  *)

LEMMA PartsTyped ==
  ASSUME ParserTypes
  PROVE  \A p \in Places : Part(p) \in Seq(Nat)
BY DEF ParserTypes, Places, Part

LEMMA SameDocument ==
  ASSUME UNCHANGED document
  PROVE  Places' = Places /\ Steps' = Steps /\ (Ordered => Ordered')
<1>1. Places' = Places /\ \A p : Part(p)' = Part(p)
  BY DEF document, Places, Part
<1> QED
  BY <1>1 DEF Steps, Ordered

\* A new scenario is empty and comes before an empty teardown.
LEMMA NewScenario ==
  ASSUME ParserTypes, teardowns = <<>>, scenarios' = Append(scenarios, <<>>),
         UNCHANGED <<contexts, teardowns>>
  PROVE  Steps' = Steps /\ (Ordered => Ordered')
<1>0. PICK n : n = Len(scenarios)
  OBVIOUS
<1>1. n \in Nat /\ Len(scenarios') = n + 1 /\ scenarios'[n + 1] = <<>>
      /\ \A p \in 1..n : scenarios'[p] = scenarios[p]
  BY <1>0 DEF ParserTypes
<1>2. Places = 0..(n + 1) /\ Places' = 0..(n + 2)
  BY <1>0, <1>1 DEF Places
<1>3. \A p \in 0..n : Part(p)' = Part(p)
  BY <1>0, <1>1 DEF Part
<1>4. Part(n + 1) = <<>> /\ Part(n + 1)' = <<>> /\ Part(n + 2)' = <<>>
  BY <1>0, <1>1 DEF Part
<1>5. \A p \in Places : Part(p)' = Part(p)
  <2>1. \A p \in Places : p \in 0..n \/ p = n + 1
    BY <1>1, <1>2
  <2> SUFFICES ASSUME NEW p \in Places PROVE Part(p)' = Part(p)
    OBVIOUS
  <2>2. CASE p \in 0..n
    BY <1>3, <2>2
  <2>3. CASE p = n + 1
    BY <1>4, <2>3
  <2> QED
    BY <2>1, <2>2, <2>3
<1>6. \A p \in Places' : p \in Places \/ Part(p)' = <<>>
  BY <1>1, <1>2, <1>4
<1>7. Places \subseteq Places'
  BY <1>1, <1>2
<1>8. Steps' = Steps
  BY <1>5, <1>6, <1>7 DEF Steps
<1>9. Ordered => Ordered'
  BY <1>5, <1>6 DEF Ordered
<1> QED
  BY <1>8, <1>9

\* A step that is put at the end of the last part that has any comes last.
LEMMA StepAppended ==
  ASSUME ParserTypes, Ordered, Steps \subseteq 1..Len(lines), Places' = Places,
         NEW P \in Places,
         \A q \in Places : q # P => Part(q)' = Part(q),
         Part(P)' = Append(Part(P), Here),
         \A q \in Places : q > P => Part(q) = <<>>
  PROVE  Ordered' /\ Steps' = Steps \cup {Here}
<1> DEFINE n == Len(Part(P))
<1>1. Part(P) \in Seq(Nat) /\ n \in Nat /\ DOMAIN Part(P) = 1..n
  BY PartsTyped
<1>2. DOMAIN Part(P)' = 1..(n + 1) /\ Part(P)'[n + 1] = Here
      /\ \A i \in 1..n : Part(P)'[i] = Part(P)[i]
  BY <1>1
<1>3. Places \subseteq Nat /\ P \in Nat
  BY DEF Places, ParserTypes
<1>4. \A q \in Places : \A i \in DOMAIN Part(q) : Part(q)[i] \in Nat /\ Part(q)[i] < Here
  <2>1. \A q \in Places : \A i \in DOMAIN Part(q) : Part(q)[i] \in Steps
    BY DEF Steps
  <2>2. \A m \in Steps : m \in Nat /\ m < Here
    BY LinesAre
  <2> QED
    BY <2>1, <2>2
<1>5. \A q \in Places : \A i : i \in DOMAIN Part(q)' =>
        \/ i \in DOMAIN Part(q) /\ Part(q)'[i] = Part(q)[i]
        \/ q = P /\ i = n + 1 /\ Part(q)'[i] = Here
  BY <1>1, <1>2
<1> HIDE DEF n
<1>6. Ordered'
  <2> SUFFICES ASSUME NEW p \in Places, NEW q \in Places,
                      NEW i \in DOMAIN Part(p)', NEW j \in DOMAIN Part(q)',
                      p < q \/ (p = q /\ i < j)
               PROVE  Part(p)'[i] < Part(q)'[j]
    BY DEF Ordered
  <2>1. CASE i \in DOMAIN Part(p) /\ Part(p)'[i] = Part(p)[i]
    <3>1. CASE j \in DOMAIN Part(q) /\ Part(q)'[j] = Part(q)[j]
      BY <2>1, <3>1 DEF Ordered
    <3>2. CASE q = P /\ j = n + 1 /\ Part(q)'[j] = Here
      BY <2>1, <3>2, <1>4
    <3> QED
      BY <1>5, <3>1, <3>2
  <2>2. CASE p = P /\ i = n + 1 /\ Part(p)'[i] = Here
    <3>1. CASE q = P
      <4>1. j \in 1..(n + 1)
        BY <1>2, <3>1
      <4> QED
        BY <1>1, <1>3, <2>2, <3>1, <4>1
    <3>2. CASE q # P
      <4>1. q > P
        BY <1>3, <2>2, <3>2
      <4>2. Part(q) = <<>> /\ Part(q)' = Part(q)
        BY <3>2, <4>1
      <4> QED
        BY <4>2
    <3> QED
      BY <3>1, <3>2
  <2> QED
    BY <1>5, <2>1, <2>2
<1>7. Steps' \subseteq Steps \cup {Here}
  BY <1>5 DEF Steps
<1>8. Here \in Steps'
  BY <1>1, <1>2 DEF Steps
<1>9. Steps \subseteq Steps'
  <2> SUFFICES ASSUME NEW q \in Places, NEW i \in DOMAIN Part(q)
               PROVE  i \in DOMAIN Part(q)' /\ Part(q)'[i] = Part(q)[i]
    BY DEF Steps
  <2> QED
    BY <1>1, <1>2
<1> QED
  BY <1>6, <1>7, <1>8, <1>9

-----------------------------------------------------------------------------
(* Tables.                                                                 *)

\* No step stands before the data table ends.
LEMMA NoSteps ==
  ASSUME ParserTypes, SectionsFilled, section = "spec", ~sawStep
  PROVE  Steps = {}
<1>1. contexts = <<>> /\ scenarios = <<>> /\ teardowns = <<>>
  BY DEF SectionsFilled
<1>2. \A p \in Places : Part(p) = <<>>
  BY <1>1 DEF Places, Part
<1> QED
  BY <1>2 DEF Steps

\* An open table with rows is somebody's, and stands where it must.
LEMMA OwnerFound ==
  ASSUME ParserTypes, SectionsFilled, StepAbove, OpenTable, tableRows # <<>>
  PROVE  \E o \in Nat : Owner = {o} /\ Placed([owner |-> o, rows |-> tableRows])
<1>1. CASE inTable = "step"
  <2>1. lastStep # 0 /\ lastStep \in Nat /\ Owner = {lastStep}
    BY <1>1 DEF OpenTable, Owner, ParserTypes
  <2>2. tableRows[1] \in Nat /\ tableRows[1] <= Len(lines)
    BY DEF ParserTypes, OpenTable
  <2>3. \A i \in (lastStep + 1)..(tableRows[1]) : lines[i] \in {"blank", "row", "separator"}
    <3>1. \A i \in (lastStep + 1)..(tableRows[1]) : i \in (lastStep + 1)..Len(lines)
      BY <2>1, <2>2, LinesAre
    <3> QED
      BY <2>1, <3>1 DEF StepAbove
  <2> QED
    BY <2>1, <2>3 DEF Placed
<1>2. CASE inTable = "data"
  <2>1. section = "spec" /\ ~sawStep /\ Owner = {0}
    BY <1>2 DEF OpenTable, Owner
  <2>2. Steps = {}
    BY <2>1, NoSteps
  <2>3. \E i \in LinesOf({"h1"}) : i < tableRows[1]
    BY <1>2 DEF OpenTable
  <2> QED
    BY <2>1, <2>2, <2>3 DEF Placed
<1> QED
  BY <1>1, <1>2 DEF OpenTable, ParserTypes

\* flushTable gives the rows to their owner, or warns.
LEMMA FlushStep ==
  ASSUME ParserTypes, SectionsFilled, StepAbove, OpenTable, Flush
  PROVE  /\ inTable' = "no" /\ tableRows' = <<>> /\ warnings \subseteq warnings'
         /\ \/ tables' = tables /\ (tableRows = <<>> \/ 0 \in warnings')
            \/ /\ tableRows # <<>>
               /\ \E o \in Nat : /\ tables' = Append(tables, [owner |-> o, rows |-> tableRows])
                                 /\ Placed([owner |-> o, rows |-> tableRows])
<1>1. inTable' = "no" /\ tableRows' = <<>> /\ warnings \subseteq warnings'
  BY DEF Flush
<1>2. CASE tableRows = <<>>
  BY <1>1, <1>2 DEF Flush
<1>3. CASE tableRows # <<>> /\ Second
  BY <1>1, <1>3 DEF Flush
<1>4. CASE tableRows # <<>> /\ ~Second
  <2>1. PICK o \in Nat : Owner = {o} /\ Placed([owner |-> o, rows |-> tableRows])
    BY <1>4, OwnerFound
  <2>2. (CHOOSE x \in Owner : TRUE) = o /\ Owner # {}
    BY <2>1
  <2>3. tables' = Append(tables, [owner |-> CHOOSE x \in Owner : TRUE, rows |-> tableRows])
    BY <1>4, <2>2 DEF Flush
  <2>4. tables' = Append(tables, [owner |-> o, rows |-> tableRows])
    BY <2>2, <2>3
  <2> QED
    BY <1>1, <1>4, <2>1, <2>4
<1> QED
  BY <1>2, <1>3, <1>4

\* What was placed stays placed when lines come and steps come last.
LEMMA PlacedKept ==
  ASSUME ParserTypes, NEW t, t.owner \in Nat, t.rows[1] \in Nat, t.rows[1] <= Len(lines), Placed(t),
         DOMAIN lines \subseteq DOMAIN lines',
         \A i \in DOMAIN lines : lines'[i] = lines[i],
         Steps' \subseteq Steps \cup {Here}
  PROVE  Placed(t)'
<1>1. CASE t.owner # 0
  <2>1. \A i \in (t.owner + 1)..(t.rows[1]) : i \in DOMAIN lines
    BY LinesAre
  <2>2. \A i \in (t.owner + 1)..(t.rows[1]) : lines'[i] \in {"blank", "row", "separator"}
    BY <1>1, <2>1 DEF Placed
  <2> QED
    BY <1>1, <2>2 DEF Placed
<1>2. CASE t.owner = 0
  <2>1. PICK i \in LinesOf({"h1"}) : i < t.rows[1]
    BY <1>2 DEF Placed
  <2>2. i \in LinesOf({"h1"})'
    BY <2>1 DEF LinesOf
  <2>3. \A s \in Steps' : s > t.rows[1]
    BY <1>2, LinesAre DEF Placed
  <2> QED
    BY <1>2, <2>1, <2>2, <2>3 DEF Placed
<1> QED
  BY <1>1, <1>2

TableSet == [owner : Nat, rows : Seq(Nat) \ {<<>>}]

LEMMA TableFields ==
  ASSUME NEW t \in TableSet
  PROVE  /\ t.owner \in Nat /\ t.rows \in Seq(Nat) /\ t.rows # <<>>
         /\ t.rows[1] \in Nat /\ DOMAIN t.rows = 1..Len(t.rows)
BY DEF TableSet

\* flushTable keeps every table in its place and every row somewhere.
LEMMA FlushKeeps ==
  ASSUME ParserTypes, SectionsFilled, StepAbove, OpenTable, TablesRead, TablesWhereWritten, Flush,
         DOMAIN lines \subseteq DOMAIN lines', Len(lines) <= Len(lines'), Len(lines') \in Nat,
         \A i \in DOMAIN lines : lines'[i] = lines[i],
         Steps' \subseteq Steps \cup {Here}
  PROVE  /\ tables' \in Seq(TableSet)
         /\ TablesRead' /\ TablesWhereWritten'
         /\ 0 \in warnings' \/ TableRows \cup OpenRows \subseteq TableRows'
<1>1. tables \in Seq(TableSet) /\ Len(tables) \in Nat /\ DOMAIN tables = 1..Len(tables)
      /\ tableRows \in Seq(Nat) /\ Len(lines) \in Nat
      /\ \A n \in DOMAIN tables : tables[n] \in TableSet
  <2>1. tables \in Seq(TableSet)
    BY DEF ParserTypes, TableSet
  <2>2. tableRows \in Seq(Nat) /\ Len(lines) \in Nat
    BY DEF ParserTypes
  <2> QED
    BY <2>1, <2>2
<1>2. \A n \in DOMAIN tables : Placed(tables[n]) /\ tables[n].rows[1] <= Len(lines)
  BY TablesPlaced DEF TablesRead
<1>3. \A n \in DOMAIN tables : /\ tables[n].rows[1] <= Len(lines')
                               /\ \A t : t = tables[n] => Placed(t)'
  <2> SUFFICES ASSUME NEW n \in DOMAIN tables, NEW t, t = tables[n]
               PROVE  t.rows[1] <= Len(lines') /\ Placed(t)'
    OBVIOUS
  <2>1. t \in TableSet /\ Placed(t) /\ t.rows[1] <= Len(lines)
    BY <1>1, <1>2
  <2>2. t.owner \in Nat /\ t.rows[1] \in Nat
    BY <2>1, TableFields
  <2>3. Placed(t)'
    BY <2>1, <2>2, PlacedKept
  <2> QED
    BY <1>1, <2>1, <2>2, <2>3
<1>4. CASE tables' = tables /\ (tableRows = <<>> \/ 0 \in warnings')
  <2>1. TablesRead'
    BY <1>3, <1>4 DEF TablesRead
  <2>2. TablesWhereWritten'
    <3>1. \A n \in DOMAIN tables' : \A t : t = tables'[n] => Placed(t)'
      BY <1>3, <1>4
    <3>2. \A n \in DOMAIN tables' : Placed(tables[n])'
      BY <3>1 DEF Placed
    <3> QED
      BY <3>2 DEF TablesWhereWritten, Placed
  <2>3. TableRows' = TableRows
    BY <1>4 DEF TableRows
  <2>4. tableRows = <<>> => OpenRows = {}
    BY DEF OpenRows
  <2> QED
    BY <1>1, <1>4, <2>1, <2>2, <2>3, <2>4
<1>5. CASE /\ tableRows # <<>>
           /\ \E o \in Nat : /\ tables' = Append(tables, [owner |-> o, rows |-> tableRows])
                             /\ Placed([owner |-> o, rows |-> tableRows])
  <2>1. PICK t \in TableSet : /\ t.rows = tableRows /\ tables' = Append(tables, t) /\ Placed(t)
    BY <1>1, <1>5 DEF TableSet
  <2>2. /\ tables' \in Seq(TableSet) /\ DOMAIN tables' = 1..(Len(tables) + 1)
        /\ tables'[Len(tables) + 1] = t
        /\ \A n \in 1..Len(tables) : tables'[n] = tables[n]
    BY <1>1, <2>1
  <2>3. t.rows[1] \in Nat /\ t.rows[1] <= Len(lines) /\ t.owner \in Nat
    BY <1>5, <2>1, TableFields DEF OpenTable
  <2>4. Placed(t)' /\ t.rows[1] <= Len(lines')
    <3>1. Placed(t)'
      BY <2>1, <2>3, PlacedKept
    <3> QED
      BY <1>1, <2>3, <3>1
  <2>5. \A n \in DOMAIN tables' : \/ n \in DOMAIN tables /\ tables'[n] = tables[n]
                                  \/ tables'[n] = t
    BY <1>1, <2>2
  <2>6. TablesRead'
    BY <1>3, <2>4, <2>5 DEF TablesRead
  <2>7. TablesWhereWritten'
    <3>1. \A n \in DOMAIN tables' : \A u : u = tables'[n] => Placed(u)'
      BY <1>3, <2>4, <2>5
    <3>2. \A n \in DOMAIN tables' : Placed(tables[n])'
      BY <3>1 DEF Placed
    <3> QED
      BY <3>2 DEF TablesWhereWritten, Placed
  <2>8. TableRows \subseteq TableRows'
    BY <1>1, <2>2 DEF TableRows
  <2>9. OpenRows \subseteq TableRows'
    <3>1. OpenRows = {t.rows[j] : j \in DOMAIN t.rows}
      BY <2>1 DEF OpenRows
    <3>2. Len(tables) + 1 \in DOMAIN tables' /\ tables'[Len(tables) + 1].rows = t.rows
      BY <1>1, <2>2
    <3> QED
      BY <3>1, <3>2 DEF TableRows
  <2> QED
    BY <2>2, <2>6, <2>7, <2>8, <2>9
<1> QED
  BY <1>4, <1>5, FlushStep

-----------------------------------------------------------------------------
(* Lines and the invariant.                                                *)

\* The numbers of the lines, with one more.
LEMMA NextNumber ==
  ASSUME NEW n \in Nat, NEW h, h = n + 1
  PROVE  /\ h \in Nat /\ n <= h /\ h # 0 /\ h \in 1..h /\ h \notin 0..n /\ h \notin 1..n
         /\ 0..n \subseteq 0..h /\ h \in 0..h /\ 1..n \subseteq 1..h /\ (h + 1)..h = {} /\ h <= h /\ 0 <= h
         /\ \A i \in Nat : i <= n => i <= h
         /\ h - 1 = n
OBVIOUS

LEMMA NumbersAbove ==
  ASSUME NEW n \in Nat, NEW h, h = n + 1
  PROVE  \A l, i : l \in Nat /\ i \in (l + 1)..h /\ i # h => i \in (l + 1)..n /\ i \in 1..n
OBVIOUS

LEMMA NumbersBetween ==
  ASSUME NEW n \in Nat, NEW h, h = n + 1
  PROVE  \A i, j, m : j \in 1..n /\ i \in 1..h /\ m \in (j + 1)..(i - 1) => m \in 1..n
OBVIOUS

LEMMA NumbersBelow ==
  ASSUME NEW n \in Nat, NEW h, h = n + 1
  PROVE  \A j, m : j \in 1..n => /\ j < h
                                /\ (m \in (j + 1)..n => m \in 1..n)
                                /\ (m \in (j + 1)..h => m = h \/ m \in (j + 1)..n)
OBVIOUS

LEMMA FirstNumber ==
  ASSUME NEW rows \in Seq(Nat), rows # <<>>
  PROVE  rows[1] \in Nat
OBVIOUS

LEMMA SameTables ==
  ASSUME UNCHANGED tables
  PROVE  TableRows' = TableRows
BY DEF TableRows

\* A new line is a step of the document, an error, or taken by tags; what was
\* said of the lines before it stays true.
LEMMA StepsKept ==
  ASSUME ParserTypes, ErrorsRead, StepsFound, StepsReal, NEW k \in Kinds, lines' = Append(lines, k),
         NEW h, h = Here, NEW N \in SUBSET {h}, NEW E \in SUBSET {h},
         Steps' = Steps \cup N, errors' = errors \cup E, N \cap E = {}, N # {} => k = "step",
         k \in {"step", "bad step"} => h \in N \cup E \/ h \in Taken'
  PROVE  ErrorsRead' /\ StepsFound' /\ StepsReal'
<1>0. PICK n \in Nat : n = Len(lines) /\ h = n + 1
  BY LinesAre
<1>b. /\ h \in Nat /\ n <= h /\ h # 0 /\ h \in 1..h /\ h \notin 0..n /\ h \notin 1..n
      /\ 0..n \subseteq 0..h /\ h \in 0..h /\ 1..n \subseteq 1..h /\ (h + 1)..h = {} /\ h <= h /\ 0 <= h
      /\ \A i \in Nat : i <= n => i <= h
  BY <1>0, NextNumber, Zenon
<1>c. \A i, j, m : j \in 1..n /\ i \in 1..h /\ m \in (j + 1)..(i - 1) => m \in 1..n
  BY <1>0, NumbersBetween, Zenon
<1>1. /\ Len(lines') = h /\ lines'[h] = k /\ DOMAIN lines = 1..n
      /\ \A i \in 1..n : lines'[i] = lines[i]
  BY <1>0, LinesAre, LinesGrow
<1>2. \A S : LinesOf(S)' = LinesOf(S) \cup (IF k \in S THEN {h} ELSE {})
  <2> SUFFICES ASSUME NEW S PROVE LinesOf(S)' = LinesOf(S) \cup (IF k \in S THEN {h} ELSE {})
    OBVIOUS
  <2> QED
    BY LinesOfGrow
<1>3. h \notin errors /\ errors \subseteq 0..n /\ \A S : LinesOf(S) \subseteq 1..n
  <2>1. errors \subseteq 0..n
    BY <1>0 DEF ErrorsRead
  <2>2. h \notin 0..n
    BY <1>b, Zenon
  <2> QED
    BY <1>1, <2>1, <2>2 DEF LinesOf
<1>4. ErrorsRead'
  <2>1. errors' \subseteq 0..h
    BY <1>b, <1>3, Zenon
  <2> QED
    BY <1>1, <2>1 DEF ErrorsRead
<1>5. Taken \subseteq Taken'
  <2> SUFFICES ASSUME NEW i \in Taken PROVE i \in Taken'
    OBVIOUS
  <2>1. PICK j \in LinesOf({"tags,"}) \ errors :
          i \in LinesOf(Kinds) /\ j < i /\ \A m \in (j + 1)..(i - 1) : lines[m] = "tags,"
    BY DEF Taken
  <2>2. j \in 1..n /\ i \in 1..n /\ j # h
    BY <1>b, <1>3, <2>1, Zenon
  <2>3. i \in LinesOf(Kinds)' /\ j \in LinesOf({"tags,"})' /\ j \notin errors'
    BY <1>2, <2>1, <2>2
  <2>4. \A m \in (j + 1)..(i - 1) : m \in 1..n
    BY <1>b, <1>c, <2>2, Zenon
  <2>5. \A m \in (j + 1)..(i - 1) : lines'[m] = "tags,"
    BY <1>1, <2>1, <2>4
  <2> QED
    BY <2>1, <2>3, <2>5 DEF Taken
<1>6. StepsFound'
  <2> SUFFICES ASSUME NEW i \in LinesOf({"step", "bad step"})', i \notin Taken'
               PROVE  i \in Steps' \cup errors'
    BY DEF StepsFound
  <2>1. CASE i \in LinesOf({"step", "bad step"})
    BY <1>5, <2>1 DEF StepsFound
  <2>2. CASE i = h /\ k \in {"step", "bad step"}
    BY <2>2
  <2> QED
    BY <1>2, <2>1, <2>2
<1>7. StepsReal'
  <2> SUFFICES ASSUME NEW i \in Steps' PROVE i \in LinesOf({"step"})' /\ i \notin errors'
    BY DEF StepsReal
  <2>1. CASE i \in Steps
    <3>1. i \in LinesOf({"step"}) /\ i \notin errors
      BY <2>1 DEF StepsReal
    <3>2. i # h
      BY <1>b, <1>3, <3>1, Zenon
    <3> QED
      BY <1>2, <3>1, <3>2
  <2>2. CASE i \in N
    <3>1. i = h /\ k = "step" /\ h \notin E
      BY <2>2
    <3> QED
      BY <1>2, <1>3, <3>1
  <2> QED
    BY <2>1, <2>2
<1> QED
  BY <1>4, <1>6, <1>7

\* A line that ends the table above it, if there is one.
LEMMA FlushLine ==
  ASSUME ParserInv, NEW k \in Kinds \ {"row"}, Line(k), Flush,
         NEW h, h = Here, NEW N \in SUBSET {h}, NEW E \in SUBSET {h},
         section' \in {"before", "spec", "scenario", "teardown"},
         contexts' \in Seq(Nat), scenarios' \in Seq(Seq(Nat)), teardowns' \in Seq(Nat),
         sawStep' \in BOOLEAN, continued' \in BOOLEAN, SectionsFilled',
         Ordered', Steps' = Steps \cup N, errors' = errors \cup E, N \cap E = {}, N # {} => k = "step",
         k \in {"step", "bad step"} => h \in N \cup E,
         lastStep' \in {0, h} \/ (k = "blank" /\ lastStep' = lastStep),
         continued' => (k = "tags," /\ E = {} /\ lastStep' = 0)
  PROVE  ParserInv'
<1>0. PICK n \in Nat : n = Len(lines) /\ h = n + 1
  BY LinesAre DEF ParserInv
<1>b. /\ h \in Nat /\ n <= h /\ h # 0 /\ h \in 1..h /\ h \notin 0..n /\ h \notin 1..n
      /\ 0..n \subseteq 0..h /\ h \in 0..h /\ 1..n \subseteq 1..h /\ (h + 1)..h = {} /\ h <= h /\ 0 <= h
      /\ \A i \in Nat : i <= n => i <= h
  BY <1>0, NextNumber, Zenon
<1>d. \A l, i : l \in Nat /\ i \in (l + 1)..h /\ i # h => i \in (l + 1)..n /\ i \in 1..n
  BY <1>0, NumbersAbove, Zenon
<1>a. lines' = Append(lines, k) /\ tagLines' = tagLines /\ ended' = ended /\ ~ended
  BY DEF Line, MoreLines
<1>1. /\ Len(lines') = h /\ lines'[h] = k
      /\ DOMAIN lines = 1..n /\ DOMAIN lines' = 1..h
      /\ \A i \in 1..n : lines'[i] = lines[i]
      /\ lines' \in Seq(Kinds)
  BY <1>0, <1>a, LinesAre, LinesGrow DEF ParserInv
<1>2. \A S : LinesOf(S)' = LinesOf(S) \cup (IF k \in S THEN {h} ELSE {})
  <2> SUFFICES ASSUME NEW S PROVE LinesOf(S)' = LinesOf(S) \cup (IF k \in S THEN {h} ELSE {})
    OBVIOUS
  <2> QED
    BY <1>a, LinesOfGrow DEF ParserInv
<1>3. inTable' = "no" /\ tableRows' = <<>> /\ warnings \subseteq warnings'
  BY DEF Flush
<1>4. /\ tables' \in Seq(TableSet)
      /\ TablesRead' /\ TablesWhereWritten'
      /\ 0 \in warnings' \/ TableRows \cup OpenRows \subseteq TableRows'
  <2>1. Steps' \subseteq Steps \cup {Here}
    OBVIOUS
  <2>2. DOMAIN lines \subseteq DOMAIN lines' /\ Len(lines) <= Len(lines') /\ Len(lines') \in Nat
        /\ \A i \in DOMAIN lines : lines'[i] = lines[i]
    BY <1>b, <1>0, <1>1, Zenon
  <2> QED
    BY <2>1, <2>2, FlushKeeps DEF ParserInv
<1>5. ParserTypes'
  <2>1. lastStep' \in Nat
    <3>1. lastStep \in Nat /\ 0 \in Nat
      BY DEF ParserInv, ParserTypes
    <3> QED
      BY <1>b, <3>1, Zenon
  <2>2. tableRows' \in Seq(Nat) /\ inTable' \in {"no", "step", "data"} /\ ended' \in BOOLEAN
    <3>1. tableRows' \in Seq(Nat)
      BY <1>3, EmptySeq
    <3>2. ended' \in BOOLEAN
      BY <1>a, Zenon DEF ParserInv, ParserTypes
    <3> QED
      BY <1>3, <3>1, <3>2, Zenon
  <2> QED
    BY <1>1, <1>4, <2>1, <2>2 DEF ParserTypes, TableSet
<1>6. ErrorsRead' /\ StepsFound' /\ StepsReal'
  BY <1>a, StepsKept DEF ParserInv
<1>7. StepAbove'
  <2>1. CASE lastStep' \in {0, h}
    <3>1. lastStep' <= h /\ (h + 1)..h = {}
      BY <1>b, <2>1, Zenon
    <3>2. continued' => lastStep' = 0
      OBVIOUS
    <3> QED
      BY <1>1, <2>1, <3>1, <3>2 DEF StepAbove
  <2>2. CASE k = "blank" /\ lastStep' = lastStep
    <3>1. lastStep \in Nat /\ lastStep <= n /\ lastStep <= h
      <4>1. lastStep \in Nat /\ lastStep <= n
        BY <1>0, Zenon DEF ParserInv, ParserTypes, StepAbove
      <4> QED
        BY <1>b, <4>1, Zenon
    <3>2. ASSUME lastStep # 0, NEW i \in (lastStep + 1)..h
          PROVE  lines'[i] \in {"blank", "row", "separator"}
      <4>1. CASE i = h
        BY <1>1, <2>2, <4>1
      <4>2. CASE i # h
        <5>1. i \in (lastStep + 1)..n /\ i \in 1..n
          BY <1>d, <3>1, <4>2, Zenon
        <5> QED
          BY <1>0, <1>1, <3>2, <5>1 DEF ParserInv, StepAbove
      <4> QED
        BY <4>1, <4>2
    <3>3. ~continued'
      BY <2>2
    <3> QED
      BY <1>1, <2>2, <3>1, <3>2, <3>3 DEF StepAbove
  <2> QED
    BY <2>1, <2>2
<1>8. OpenTable' /\ EndedFlushed'
  BY <1>3 DEF OpenTable, EndedFlushed
<1>9. CommaAbove'
  <2> SUFFICES ASSUME continued' PROVE h \in LinesOf({"tags,"})' /\ h \notin errors'
    <3>1. (h + 1)..h = {}
      BY <1>b, Zenon
    <3> QED
      BY <1>1, <3>1 DEF CommaAbove
  <2>1. k = "tags," /\ E = {}
    OBVIOUS
  <2>2. h \notin errors
    <3>1. errors \subseteq 0..n /\ h \notin 0..n
      BY <1>0, <1>b, Zenon DEF ParserInv, ErrorsRead
    <3> QED
      BY <3>1
  <2> QED
    BY <1>2, <2>1, <2>2
<1>10. RowsKept'
  <2>1. LinesOf({"row"})' = LinesOf({"row"})
    BY <1>2
  <2>2. 0 \in warnings \/ LinesOf({"row"}) \subseteq TableRows \cup OpenRows \cup warnings \cup tagLines
    BY DEF ParserInv, RowsKept
  <2> QED
    BY <1>a, <1>3, <1>4, <2>1, <2>2 DEF RowsKept
<1> QED
  BY <1>4, <1>5, <1>6, <1>7, <1>8, <1>9, <1>10 DEF ParserInv

\* Where nothing is written a section may only follow the one before it.
LEMMA SectionsStay ==
  ASSUME SectionsFilled, UNCHANGED <<contexts, scenarios, teardowns, sawStep>>,
         \/ section' = section
         \/ section = "before" /\ section' = "spec"
         \/ section # "before" /\ section' = "teardown",
         section' # "before" => LinesOf({"h1"})' # {}
  PROVE  SectionsFilled'
<1>1. section' = "before" => section = "before"
  OBVIOUS
<1>2. sawStep' = sawStep
  OBVIOUS
<1>3. sawStep' <=> sawStep
  BY <1>2
<1>4. (~sawStep' => contexts' = <<>>) /\ (section' = "before" => ~sawStep')
  BY <1>1, <1>3 DEF SectionsFilled
<1>5. /\ section' \in {"before", "spec"} => scenarios' = <<>>
      /\ section' # "teardown" => teardowns' = <<>>
      /\ section' = "scenario" => scenarios' # <<>>
  BY DEF SectionsFilled
<1> QED
  BY <1>4, <1>5 DEF SectionsFilled

\* A line that is no step and leaves the document alone.
LEMMA PlainLine ==
  ASSUME ParserInv, NEW k \in Kinds \ {"row", "step"}, Line(k), Flush,
         NEW h, h = Here, NEW E \in SUBSET {h},
         UNCHANGED <<document, sawStep>>,
         \/ section' = section
         \/ section = "before" /\ section' = "spec" /\ k = "h1"
         \/ section # "before" /\ section' = "teardown",
         errors' = errors \cup E, k = "bad step" => h \in E,
         lastStep' = 0 \/ (k = "blank" /\ lastStep' = lastStep),
         continued' \in BOOLEAN, continued' => (k = "tags," /\ E = {} /\ lastStep' = 0)
  PROVE  ParserInv'
<1>1. contexts' = contexts /\ scenarios' = scenarios /\ teardowns' = teardowns /\ sawStep' = sawStep
  BY DEF document
<1>2. contexts' \in Seq(Nat) /\ scenarios' \in Seq(Seq(Nat)) /\ teardowns' \in Seq(Nat)
      /\ sawStep' \in BOOLEAN
      /\ section' \in {"before", "spec", "scenario", "teardown"}
  BY <1>1, Zenon DEF ParserInv, ParserTypes
<1>3. Steps' = Steps /\ Ordered'
  BY SameDocument DEF ParserInv
<1>4. SectionsFilled'
  <2>1. LinesOf({"h1"})' = LinesOf({"h1"}) \cup (IF k \in {"h1"} THEN {h} ELSE {})
    BY LinesOfGrow DEF ParserInv, Line
  <2>2. section' # "before" => LinesOf({"h1"})' # {}
    BY <2>1 DEF ParserInv, SectionsFilled
  <2>3. SectionsFilled
    BY DEF ParserInv
  <2> QED
    BY <1>1, <2>2, <2>3, SectionsStay
<1>5. PICK N \in SUBSET {h} : N = {}
  OBVIOUS
<1>6. Steps' = Steps \cup N /\ N \cap E = {} /\ ~(N # {})
  BY <1>3, <1>5
<1>7. k \in {"step", "bad step"} => h \in N \cup E
  OBVIOUS
<1>8. lastStep' \in {0, h} \/ (k = "blank" /\ lastStep' = lastStep)
  OBVIOUS
<1>9. k \in Kinds \ {"row"}
  OBVIOUS
<1> QED
  BY <1>2, <1>3, <1>4, <1>6, <1>7, <1>8, <1>9, FlushLine

LEMMA HeadingInv ==
  ASSUME ParserInv, Heading
  PROVE  ParserInv'
<1>1. PICK h : h = Here
  OBVIOUS
<1>2. PICK k : k = "h1"
  OBVIOUS
<1>3. k \in Kinds \ {"row", "step"} /\ Line(k) /\ k # "bad step"
  BY <1>2 DEF Heading, Kinds
<1>4. \E E \in SUBSET {h} : errors' = errors \cup E
  <2>1. errors' = errors \cup {} \/ errors' = errors \cup {h}
    BY <1>1 DEF Heading, Error
  <2> QED
    BY <2>1
<1>5. section' = section \/ (section = "before" /\ section' = "spec")
  BY DEF Heading
<1>6. Flush /\ UNCHANGED <<document, sawStep>> /\ lastStep' = 0 /\ continued' = FALSE
  BY DEF Heading
<1> QED
  BY <1>1, <1>2, <1>3, <1>4, <1>5, <1>6, PlainLine

LEMMA BlankInv ==
  ASSUME ParserInv, Blank
  PROVE  ParserInv'
<1>1. PICK h : h = Here
  OBVIOUS
<1>2. PICK k : k = "blank"
  OBVIOUS
<1>3. k \in Kinds \ {"row", "step"} /\ Line(k) /\ k # "bad step"
  BY <1>2 DEF Blank, Kinds
<1>4. PICK E \in SUBSET {h} : E = {}
  OBVIOUS
<1>5. errors' = errors \cup E
  BY <1>4 DEF Blank
<1>6. Flush /\ UNCHANGED <<document, sawStep>> /\ lastStep' = lastStep /\ continued' = FALSE
      /\ section' = section
  BY DEF Blank
<1> QED
  BY <1>1, <1>2, <1>3, <1>5, <1>6, PlainLine

LEMMA TextInv ==
  ASSUME ParserInv, Text
  PROVE  ParserInv'
<1>1. PICK h : h = Here
  OBVIOUS
<1>2. PICK k : k = "text"
  OBVIOUS
<1>3. k \in Kinds \ {"row", "step"} /\ Line(k) /\ k # "bad step"
  BY <1>2 DEF Text, Kinds
<1>4. PICK E \in SUBSET {h} : E = {}
  OBVIOUS
<1>5. errors' = errors \cup E
  BY <1>4 DEF Text
<1>6. Flush /\ UNCHANGED <<document, sawStep>> /\ lastStep' = 0 /\ continued' = FALSE
      /\ section' = section
  BY DEF Text
<1> QED
  BY <1>1, <1>3, <1>5, <1>6, PlainLine

LEMMA TeardownInv ==
  ASSUME ParserInv, TeardownMarker
  PROVE  ParserInv'
<1>1. PICK h : h = Here
  OBVIOUS
<1>2. PICK k : k = "teardown"
  OBVIOUS
<1>3. k \in Kinds \ {"row", "step"} /\ Line(k) /\ k # "bad step"
  BY <1>2 DEF TeardownMarker, Kinds
<1>4. \E E \in SUBSET {h} : errors' = errors \cup E
  <2>1. errors' = errors \cup {} \/ errors' = errors \cup {h}
    BY <1>1 DEF TeardownMarker, Error
  <2> QED
    BY <2>1
<1>5. section' = section \/ (section # "before" /\ section' = "teardown")
  BY DEF TeardownMarker
<1>6. Flush /\ UNCHANGED <<document, sawStep>> /\ lastStep' = 0 /\ continued' = FALSE
  BY DEF TeardownMarker
<1> QED
  BY <1>1, <1>3, <1>4, <1>5, <1>6, PlainLine

LEMMA BadStepInv ==
  ASSUME ParserInv, BadStep
  PROVE  ParserInv'
<1>1. PICK h : h = Here
  OBVIOUS
<1>2. PICK k : k = "bad step"
  OBVIOUS
<1>3. k \in Kinds \ {"row", "step"} /\ Line(k)
  BY <1>2 DEF BadStep, Kinds
<1>4. PICK E \in SUBSET {h} : E = {h}
  OBVIOUS
<1>5. errors' = errors \cup E /\ h \in E
  BY <1>1, <1>4 DEF BadStep, Error
<1>6. Flush /\ UNCHANGED <<document, sawStep>> /\ lastStep' = 0 /\ continued' = FALSE
      /\ section' = section
  BY DEF BadStep
<1> QED
  BY <1>1, <1>3, <1>5, <1>6, PlainLine

LEMMA TagLineInv ==
  ASSUME ParserInv, NEW k, TagLine(k)
  PROVE  ParserInv'
<1>1. PICK h : h = Here
  OBVIOUS
<1>2. k \in Kinds \ {"row", "step"} /\ Line(k) /\ k # "bad step"
  BY DEF TagLine, Kinds
<1>3. \E E \in SUBSET {h} : /\ errors' = errors \cup E /\ continued' \in BOOLEAN
                            /\ continued' => k = "tags," /\ E = {}
  <2>1. \/ errors' = errors \cup {} /\ continued' = (k = "tags,")
        \/ errors' = errors \cup {h} /\ continued' = FALSE
    BY <1>1 DEF TagLine, Error
  <2> QED
    BY <2>1
<1>4. Flush /\ UNCHANGED <<document, sawStep>> /\ lastStep' = 0 /\ section' = section
  BY DEF TagLine
<1> QED
  BY <1>1, <1>2, <1>3, <1>4, PlainLine

LEMMA ScenarioHeadingInv ==
  ASSUME ParserInv, ScenarioHeading
  PROVE  ParserInv'
<1>1. PICK h : h = Here
  OBVIOUS
<1>2. PICK k : k = "h2"
  OBVIOUS
<1>3. k \in Kinds \ {"row", "step"} /\ Line(k) /\ k # "bad step" /\ k # "step"
  BY <1>2 DEF ScenarioHeading, Kinds
<1>4. Flush /\ UNCHANGED <<contexts, teardowns, sawStep>> /\ lastStep' = 0 /\ continued' = FALSE
  BY DEF ScenarioHeading
<1>5. CASE section \in {"before", "teardown"}
  <2>1. PICK E \in SUBSET {h} : E = {h}
    OBVIOUS
  <2>2. errors' = errors \cup E /\ section' = section /\ UNCHANGED <<document, sawStep>>
    BY <1>1, <1>5, <2>1 DEF ScenarioHeading, Error, document
  <2> QED
    BY <1>1, <1>3, <1>4, <2>2, PlainLine
<1>6. CASE section \notin {"before", "teardown"}
  <2>1. section' = "scenario" /\ scenarios' = Append(scenarios, <<>>) /\ errors' = errors
    BY <1>6 DEF ScenarioHeading
  <2>2. teardowns = <<>> /\ section # "before"
    BY <1>6 DEF ParserInv, SectionsFilled
  <2>3. Steps' = Steps /\ Ordered'
    BY <1>4, <2>1, <2>2, NewScenario DEF ParserInv
  <2>4. contexts' \in Seq(Nat) /\ teardowns' \in Seq(Nat) /\ sawStep' \in BOOLEAN
    BY <1>4, Zenon DEF ParserInv, ParserTypes
  <2>5. scenarios' \in Seq(Seq(Nat)) /\ scenarios' # <<>>
    <3>1. scenarios \in Seq(Seq(Nat))
      BY DEF ParserInv, ParserTypes
    <3>2. <<>> \in Seq(Nat)
      BY EmptySeq
    <3>3. PICK e \in Seq(Nat) : e = <<>>
      BY <3>2
    <3> QED
      BY <2>1, <3>1, <3>3, AppendProperties
  <2>6. SectionsFilled'
    <3>1. LinesOf({"h1"})' = LinesOf({"h1"}) \cup (IF k \in {"h1"} THEN {h} ELSE {})
      BY <1>1, <1>3, LinesOfGrow DEF ParserInv, Line
    <3> QED
      BY <1>4, <2>1, <2>2, <2>5, <3>1 DEF ParserInv, SectionsFilled
  <2>7. PICK N \in SUBSET {h} : N = {}
    OBVIOUS
  <2>8. Steps' = Steps \cup N /\ errors' = errors \cup N /\ N \cap N = {} /\ ~(N # {})
    BY <2>1, <2>3, <2>7
  <2>9. k \in Kinds \ {"row"} /\ k \notin {"step", "bad step"} /\ lastStep' \in {0, h}
        /\ continued' \in BOOLEAN /\ ~continued'
        /\ section' \in {"before", "spec", "scenario", "teardown"}
    BY <1>3, <1>4, <2>1
  <2> QED
    BY <1>1, <1>3, <1>4, <2>3, <2>4, <2>5, <2>6, <2>8, <2>9, FlushLine
<1> QED
  BY <1>5, <1>6

\* A step is the last of its section's part of the document.
LEMMA StepPlaced ==
  ASSUME ParserInv, StepLine, section # "before"
  PROVE  /\ contexts' \in Seq(Nat) /\ scenarios' \in Seq(Seq(Nat)) /\ teardowns' \in Seq(Nat)
         /\ Ordered' /\ Steps' = Steps \cup {Here}
         /\ section \in {"before", "spec"} => scenarios' = <<>>
         /\ section # "teardown" => teardowns' = <<>>
         /\ section = "scenario" => scenarios' # <<>>
         /\ section # "spec" => contexts' = contexts
<1>0. PICK n : n = Len(scenarios)
  OBVIOUS
<1>1. /\ ParserTypes /\ SectionsFilled /\ Ordered
      /\ contexts \in Seq(Nat) /\ scenarios \in Seq(Seq(Nat)) /\ teardowns \in Seq(Nat)
      /\ n \in Nat /\ Here \in Nat
  <2>1. ParserTypes /\ SectionsFilled /\ Ordered
    BY DEF ParserInv
  <2>2. contexts \in Seq(Nat) /\ scenarios \in Seq(Seq(Nat)) /\ teardowns \in Seq(Nat)
    BY <2>1 DEF ParserTypes
  <2>3. Here \in Nat
    BY <2>1, LinesAre
  <2> QED
    BY <1>0, <2>1, <2>2, <2>3
<1>2. Steps \subseteq 1..Len(lines)
  <2>1. Steps \subseteq LinesOf({"step"})
    BY DEF ParserInv, StepsReal
  <2> QED
    BY <1>1, <2>1, LinesAre DEF LinesOf
<1>3. section \in {"spec", "scenario", "teardown"}
  BY <1>1 DEF ParserTypes
<1>4. CASE section = "spec"
  <2>1. contexts' = Append(contexts, Here) /\ scenarios' = scenarios /\ teardowns' = teardowns
    BY <1>4 DEF StepLine
  <2>2. scenarios = <<>> /\ teardowns = <<>>
    BY <1>1, <1>4 DEF SectionsFilled
  <2>3. Places' = Places /\ 0 \in Places /\ \A p \in Places : p = 0 \/ p = 1
    BY <2>1, <2>2 DEF Places
  <2>4. \A q \in Places : q # 0 => Part(q)' = Part(q) /\ Part(q) = <<>>
    <3>1. Len(scenarios) = 0 /\ 1 # 0 /\ ~(1 <= 0)
      BY <2>2
    <3> QED
      BY <2>1, <2>2, <2>3, <3>1 DEF Part
  <2>5. Ordered' /\ Steps' = Steps \cup {Here}
    <3>1. PICK P \in Places : P = 0
      BY <2>3
    <3>2. \A q \in Places : q # P => Part(q)' = Part(q)
      BY <2>4, <3>1
    <3>3. \A q \in Places : q > P => Part(q) = <<>>
      BY <2>3, <2>4, <3>1
    <3>4. Part(P)' = Append(Part(P), Here)
      BY <2>1, <3>1 DEF Part
    <3> QED
      BY <1>1, <1>2, <2>3, <3>2, <3>3, <3>4, StepAppended
  <2>6. contexts' \in Seq(Nat)
    BY <1>1, <2>1, AppendProperties
  <2> QED
    BY <1>1, <1>4, <2>1, <2>2, <2>5, <2>6
<1>5. CASE section = "scenario"
  <2>1. contexts' = contexts /\ teardowns' = teardowns
        /\ scenarios' = [scenarios EXCEPT ![Len(scenarios)] = Append(@, Here)]
    BY <1>5 DEF StepLine
  <2>2. scenarios # <<>> /\ teardowns = <<>>
    BY <1>1, <1>5 DEF SectionsFilled
  <2>3. n \in 1..n /\ DOMAIN scenarios = 1..n /\ scenarios[n] \in Seq(Nat)
    BY <1>0, <1>1, <2>2
  <2>4. Append(scenarios[n], Here) \in Seq(Nat)
    BY <1>1, <2>3, AppendProperties
  <2>5. /\ scenarios' \in Seq(Seq(Nat)) /\ Len(scenarios') = n /\ scenarios' # <<>>
        /\ scenarios'[n] = Append(scenarios[n], Here)
        /\ \A q \in 1..n : q # n => scenarios'[q] = scenarios[q]
    <3>1. PICK e \in Seq(Nat) : e = Append(scenarios[n], Here)
      BY <2>4
    <3>2. scenarios' = [scenarios EXCEPT ![n] = e]
      BY <1>0, <2>1, <3>1
    <3>3. scenarios' \in Seq(Seq(Nat)) /\ Len(scenarios') = n
      BY <1>0, <1>1, <2>3, <3>2, ExceptSeq
    <3> QED
      BY <1>0, <1>1, <2>3, <3>1, <3>2, <3>3
  <2>6. Places' = Places /\ n \in Places /\ Places = 0..(n + 1)
    BY <1>0, <1>1, <2>5 DEF Places
  <2>7. \A q \in 0..(n + 1) : q # n => Part(q)' = Part(q)
    <3>1. \A q \in 0..(n + 1) : q = 0 \/ q \in 1..n \/ ~(q <= n)
      BY <1>1
    <3>2. \A q \in 1..n : q # 0 /\ q <= n
      BY <1>1
    <3> QED
      BY <1>0, <2>1, <2>5, <3>1, <3>2 DEF Part
  <2>8. Part(n)' = Append(Part(n), Here)
    BY <1>0, <1>1, <2>3, <2>5 DEF Part
  <2>9. \A q \in 0..(n + 1) : q > n => Part(q) = <<>>
    BY <1>0, <1>1, <2>2 DEF Part
  <2>10. Ordered' /\ Steps' = Steps \cup {Here}
    BY <1>1, <1>2, <2>6, <2>7, <2>8, <2>9, StepAppended
  <2> QED
    BY <1>1, <1>5, <2>1, <2>2, <2>5, <2>10
<1>6. CASE section = "teardown"
  <2>1. contexts' = contexts /\ scenarios' = scenarios /\ teardowns' = Append(teardowns, Here)
    BY <1>6 DEF StepLine
  <2>2. Places' = Places /\ Places = 0..(n + 1)
    BY <1>0, <2>1 DEF Places
  <2>3. PICK P \in Places : P = n + 1
    BY <1>1, <2>2
  <2>4. P # 0 /\ ~(P <= n) /\ \A q \in Places : q # P => q <= n /\ ~(q > P)
    BY <1>1, <2>2, <2>3
  <2>5. \A q \in Places : q # P => Part(q)' = Part(q)
    BY <1>0, <2>1, <2>4 DEF Part
  <2>6. Part(P)' = Append(Part(P), Here)
    BY <1>0, <2>1, <2>4 DEF Part
  <2>7. \A q \in Places : q > P => Part(q) = <<>>
    <3>1. ~(P > P)
      BY <1>1, <2>3
    <3> QED
      BY <2>4, <3>1
  <2>8. Ordered' /\ Steps' = Steps \cup {Here}
    BY <1>1, <1>2, <2>2, <2>5, <2>6, <2>7, StepAppended
  <2>9. teardowns' \in Seq(Nat)
    BY <1>1, <2>1, AppendProperties
  <2> QED
    BY <1>1, <1>6, <2>1, <2>8, <2>9
<1> QED
  BY <1>3, <1>4, <1>5, <1>6

LEMMA StepLineInv ==
  ASSUME ParserInv, StepLine
  PROVE  ParserInv'
<1>1. PICK h : h = Here
  OBVIOUS
<1>2. PICK k : k = "step"
  OBVIOUS
<1>3. k \in Kinds \ {"row"} /\ Line(k) /\ k # "bad step"
  BY <1>2 DEF StepLine, Kinds
<1>4. Flush /\ continued' = FALSE /\ section' = section
  BY DEF StepLine
<1>5. PICK A \in SUBSET {h} : A = {}
  OBVIOUS
<1>6. PICK B \in SUBSET {h} : B = {h}
  OBVIOUS
<1>7. A \cap B = {} /\ B \cap A = {} /\ ~(A # {}) /\ h \in A \cup B /\ h \in B \cup A
  BY <1>5, <1>6
<1>8. /\ section' \in {"before", "spec", "scenario", "teardown"}
      /\ continued' \in BOOLEAN /\ ~continued'
  BY <1>4 DEF ParserInv, ParserTypes
<1>9. LinesOf({"h1"}) \subseteq LinesOf({"h1"})'
  <2>1. k \in Kinds /\ lines' = Append(lines, k)
    BY <1>3 DEF Line
  <2>2. LinesOf({"h1"})' = LinesOf({"h1"}) \cup (IF k \in {"h1"} THEN {Here} ELSE {})
    BY <2>1, LinesOfGrow DEF ParserInv
  <2> QED
    BY <2>2
<1>10. CASE section = "before"
  <2>1. errors' = errors \cup B /\ lastStep' \in {0, h}
    BY <1>1, <1>6, <1>10 DEF StepLine, Error
  <2>2. UNCHANGED document /\ sawStep' = sawStep
    <3>1. contexts' = contexts /\ scenarios' = scenarios /\ teardowns' = teardowns
      BY <1>10 DEF StepLine
    <3>2. sawStep' = (sawStep \/ FALSE) /\ sawStep \in BOOLEAN
      BY <1>10 DEF StepLine, ParserInv, ParserTypes
    <3> QED
      BY <3>1, <3>2 DEF document
  <2>3. Steps' = Steps \cup A /\ Ordered'
    BY <1>5, <2>2, SameDocument DEF ParserInv
  <2>4. SectionsFilled'
    BY <1>4, <1>10, <2>2, SectionsStay DEF ParserInv, document
  <2>5. contexts' \in Seq(Nat) /\ scenarios' \in Seq(Seq(Nat)) /\ teardowns' \in Seq(Nat)
        /\ sawStep' \in BOOLEAN
    BY <2>2, Zenon DEF ParserInv, ParserTypes, document
  <2> QED
    BY <1>1, <1>3, <1>4, <1>7, <1>8, <2>1, <2>3, <2>4, <2>5, FlushLine
<1>11. CASE section # "before"
  <2>1. errors' = errors \cup A /\ lastStep' \in {0, h}
    BY <1>1, <1>5, <1>11 DEF StepLine
  <2>2. /\ contexts' \in Seq(Nat) /\ scenarios' \in Seq(Seq(Nat)) /\ teardowns' \in Seq(Nat)
        /\ Ordered' /\ Steps' = Steps \cup B
    BY <1>1, <1>6, <1>11, StepPlaced
  <2>3. sawStep' \in BOOLEAN
    BY DEF StepLine, ParserInv, ParserTypes
  <2>4. SectionsFilled'
    <3>1. /\ section \in {"before", "spec"} => scenarios' = <<>>
          /\ section # "teardown" => teardowns' = <<>>
          /\ section = "scenario" => scenarios' # <<>>
          /\ section # "spec" => contexts' = contexts
      BY <1>11, StepPlaced
    <3>2. ~sawStep' => contexts' = <<>>
      <4>1. sawStep' = (sawStep \/ section = "spec")
        BY DEF StepLine
      <4>2. ~sawStep => contexts = <<>>
        BY DEF ParserInv, SectionsFilled
      <4> QED
        BY <3>1, <4>1, <4>2
    <3>3. LinesOf({"h1"})' # {}
      BY <1>9, <1>11 DEF ParserInv, SectionsFilled
    <3> QED
      BY <1>4, <1>11, <3>1, <3>2, <3>3 DEF SectionsFilled
  <2>5. k = "step"
    BY <1>2
  <2> QED
    BY <1>1, <1>3, <1>4, <1>7, <1>8, <2>1, <2>2, <2>3, <2>4, <2>5, FlushLine
<1> QED
  BY <1>10, <1>11

\* Tables that are finished stay in their places.
LEMMA TablesStay ==
  ASSUME ParserTypes, TablesRead, TablesWhereWritten, tables' = tables,
         DOMAIN lines \subseteq DOMAIN lines', Len(lines) <= Len(lines'), Len(lines') \in Nat,
         \A i \in DOMAIN lines : lines'[i] = lines[i],
         Steps' = Steps
  PROVE  TablesRead' /\ TablesWhereWritten'
<1>1. tables \in Seq(TableSet)
  BY DEF ParserTypes, TableSet
<1>2. \A n \in DOMAIN tables : tables[n] \in TableSet /\ Placed(tables[n]) /\ tables[n].rows[1] <= Len(lines)
  BY <1>1, TablesPlaced DEF TablesRead
<1>3. \A n \in DOMAIN tables : /\ tables[n].rows[1] <= Len(lines')
                               /\ \A t : t = tables[n] => Placed(t)'
  <2> SUFFICES ASSUME NEW n \in DOMAIN tables, NEW t, t = tables[n]
               PROVE  t.rows[1] <= Len(lines') /\ Placed(t)'
    OBVIOUS
  <2>1. t \in TableSet /\ Placed(t) /\ t.rows[1] <= Len(lines)
    BY <1>2
  <2>2. t.owner \in Nat /\ t.rows[1] \in Nat
    BY <2>1, TableFields
  <2>3. Placed(t)'
    BY <2>1, <2>2, PlacedKept
  <2>4. Len(lines) \in Nat
    BY LinesAre
  <2> QED
    BY <2>1, <2>2, <2>3, <2>4
<1>4. TablesRead'
  BY <1>3 DEF TablesRead
<1>5. \A n \in DOMAIN tables' : \A t : t = tables'[n] => Placed(t)'
  BY <1>3
<1>6. \A n \in DOMAIN tables' : Placed(tables[n])'
  BY <1>5 DEF Placed
<1> QED
  BY <1>4, <1>6 DEF TablesWhereWritten, Placed

\* A line that is not read for what it is, but as tags.
LEMMA ContinueTagsInv ==
  ASSUME ParserInv, NEW k \in Kinds, ContinueTags(k)
  PROVE  ParserInv'
<1>a. PICK h : h = Here
  OBVIOUS
<1>0. PICK n \in Nat : n = Len(lines) /\ h = n + 1
  BY <1>a, LinesAre DEF ParserInv
<1>b. /\ h \in Nat /\ n <= h /\ h # 0 /\ h \in 1..h /\ h \notin 0..n /\ h \notin 1..n
      /\ 0..n \subseteq 0..h /\ h \in 0..h /\ 1..n \subseteq 1..h /\ (h + 1)..h = {} /\ h <= h
      /\ \A i \in Nat : i <= n => i <= h
  BY <1>0, NextNumber, Zenon
<1>e. h - 1 = n /\ 0 <= h
  BY <1>0, NextNumber, Zenon
<1>f. \A i, m : i \in 1..n => /\ i < h
                             /\ (m \in (i + 1)..n => m \in 1..n)
                             /\ (m \in (i + 1)..h => m = h \/ m \in (i + 1)..n)
  BY <1>0, NumbersBelow, Zenon
<1>c. /\ lines' = Append(lines, k) /\ tagLines' = tagLines \cup {h} /\ continued' = (k = "tags,")
      /\ UNCHANGED <<section, document, lastStep, sawStep, errors, warnings, ended>>
      /\ UNCHANGED <<tables, inTable, tableRows>>
      /\ ~ended /\ continued
  BY <1>a DEF ContinueTags, MoreLines, table
<1>d. UNCHANGED <<contexts, scenarios, teardowns>>
  BY <1>c DEF document
<1>1. /\ Len(lines') = h /\ lines'[h] = k
      /\ DOMAIN lines = 1..n /\ DOMAIN lines' = 1..h
      /\ \A i \in 1..n : lines'[i] = lines[i]
      /\ lines' \in Seq(Kinds)
  BY <1>a, <1>0, <1>c, LinesAre, LinesGrow DEF ParserInv
<1>2. \A S : LinesOf(S)' = LinesOf(S) \cup (IF k \in S THEN {h} ELSE {})
  <2> SUFFICES ASSUME NEW S PROVE LinesOf(S)' = LinesOf(S) \cup (IF k \in S THEN {h} ELSE {})
    OBVIOUS
  <2> QED
    BY <1>a, <1>c, LinesOfGrow DEF ParserInv
<1>3. ParserTypes'
  <2>1. ParserTypes
    BY DEF ParserInv
  <2>2. continued' \in BOOLEAN
    BY <1>c
  <2> QED
    BY <1>1, <1>c, <1>d, <2>1, <2>2, Zenon DEF ParserTypes
<1>4. SectionsFilled'
  <2>1. section' # "before" => LinesOf({"h1"})' # {}
    BY <1>2, <1>c DEF ParserInv, SectionsFilled
  <2> QED
    BY <1>c, <1>d, <2>1, SectionsStay DEF ParserInv
<1>5. Steps' = Steps /\ Ordered'
  BY <1>c, SameDocument DEF ParserInv
<1>6. PICK j \in LinesOf({"tags,"}) \ errors : \A m \in (j + 1)..n : lines[m] = "tags,"
  BY <1>0, <1>c DEF ParserInv, CommaAbove
<1>7. j \in 1..n /\ j \in LinesOf({"tags,"})' /\ j \notin errors' /\ h - 1 = n /\ j < h
  <2>1. j \in 1..n /\ j \in LinesOf({"tags,"})' /\ j \notin errors'
    BY <1>1, <1>2, <1>6, <1>c DEF LinesOf
  <2> QED
    BY <1>e, <1>f, <2>1, Zenon
<1>8. \A m \in (j + 1)..n : lines'[m] = "tags,"
  <2>1. \A m \in (j + 1)..n : m \in 1..n
    BY <1>7, <1>f, Zenon
  <2> QED
    BY <1>1, <1>6, <2>1
<1>9. h \in Taken'
  <2>1. h \in LinesOf(Kinds)'
    BY <1>2
  <2>2. \A m \in (j + 1)..(h - 1) : lines'[m] = "tags,"
    BY <1>7, <1>8
  <2> QED
    BY <1>7, <2>1, <2>2 DEF Taken
<1>10. ErrorsRead' /\ StepsFound' /\ StepsReal'
  <2>1. PICK N \in SUBSET {h} : N = {}
    OBVIOUS
  <2>2. Steps' = Steps \cup N /\ errors' = errors \cup N /\ N \cap N = {} /\ ~(N # {})
    BY <1>5, <1>c, <2>1
  <2> QED
    BY <1>9, <1>a, <1>c, <2>2, StepsKept DEF ParserInv
<1>11. StepAbove'
  <2>1. lastStep' = 0
    BY <1>c DEF ParserInv, StepAbove
  <2> QED
    BY <1>1, <1>e, <2>1 DEF StepAbove
<1>12. OpenTable'
  <2>1. LinesOf({"h1"}) \subseteq LinesOf({"h1"})'
    BY <1>2
  <2>2. tableRows # <<>> => tableRows[1] \in Nat /\ tableRows[1] <= n
    <3>1. tableRows \in Seq(Nat)
      BY DEF ParserInv, ParserTypes
    <3>2. tableRows # <<>> => tableRows[1] \in Nat
      BY <3>1, FirstNumber, Zenon
    <3>3. tableRows # <<>> => tableRows[1] <= n
      BY <1>0, Zenon DEF ParserInv, OpenTable
    <3> QED
      BY <3>2, <3>3, Zenon
  <2>3. tableRows' # <<>> => tableRows'[1] <= Len(lines')
    BY <1>1, <1>b, <1>c, <2>2, Zenon
  <2>4. sawStep' = sawStep
    BY <1>c
  <2>5. ~sawStep => ~sawStep'
    BY <2>4
  <2> QED
    BY <1>c, <2>1, <2>3, <2>5 DEF ParserInv, OpenTable
<1>13. TablesRead' /\ TablesWhereWritten'
  <2>1. DOMAIN lines \subseteq DOMAIN lines' /\ Len(lines) <= Len(lines') /\ Len(lines') \in Nat
        /\ \A i \in DOMAIN lines : lines'[i] = lines[i]
    BY <1>b, <1>0, <1>1, Zenon
  <2> QED
    BY <1>5, <1>c, <2>1, TablesStay DEF ParserInv
<1>14. CommaAbove'
  <2> SUFFICES ASSUME continued'
               PROVE  \A m \in (j + 1)..h : lines'[m] = "tags,"
    BY <1>1, <1>7 DEF CommaAbove
  <2>1. k = "tags,"
    BY <1>c
  <2>2. \A m \in (j + 1)..h : m = h \/ m \in (j + 1)..n
    BY <1>7, <1>f, Zenon
  <2> QED
    BY <1>1, <1>8, <2>1, <2>2
<1>15. RowsKept'
  <2>1. LinesOf({"row"})' \subseteq LinesOf({"row"}) \cup {h}
    BY <1>2
  <2>2. TableRows' = TableRows /\ OpenRows' = OpenRows
    <3>1. tables' = tables
      BY <1>c
    <3>2. tableRows' = tableRows
      BY <1>c
    <3>3. TableRows' = TableRows
      BY <3>1, SameTables
    <3>4. OpenRows' = OpenRows
      BY <3>2 DEF OpenRows
    <3> QED
      BY <3>3, <3>4
  <2> QED
    BY <1>c, <2>1, <2>2 DEF ParserInv, RowsKept
<1>16. EndedFlushed'
  BY <1>c DEF EndedFlushed
<1> QED
  BY <1>3, <1>4, <1>5, <1>10, <1>11, <1>12, <1>13, <1>14, <1>15, <1>16 DEF ParserInv

\* A row or a separator.
LEMMA TableLineInv ==
  ASSUME ParserInv, NEW k, TableLine(k)
  PROVE  ParserInv'
<1>a. PICK h : h = Here
  OBVIOUS
<1>0. PICK n \in Nat : n = Len(lines) /\ h = n + 1
  BY <1>a, LinesAre DEF ParserInv
<1>b. /\ h \in Nat /\ n <= h /\ h # 0 /\ h \in 1..h /\ h \notin 0..n /\ h \notin 1..n
      /\ 0..n \subseteq 0..h /\ h \in 0..h /\ 1..n \subseteq 1..h /\ (h + 1)..h = {} /\ h <= h
      /\ \A i \in Nat : i <= n => i <= h
  BY <1>0, NextNumber, Zenon
<1>f. \A l, i : l \in Nat /\ i \in (l + 1)..h /\ i # h => i \in (l + 1)..n /\ i \in 1..n
  BY <1>0, NumbersAbove, Zenon
<1>c. /\ k \in {"row", "separator"} /\ k \in Kinds /\ lines' = Append(lines, k)
      /\ UNCHANGED <<tagLines, ended>> /\ ~ended /\ continued' = FALSE
      /\ UNCHANGED <<section, document, tables, lastStep, sawStep, errors>>
  BY DEF TableLine, Line, MoreLines, Kinds
<1>d. UNCHANGED <<contexts, scenarios, teardowns>>
  BY <1>c DEF document
<1>e. PICK whose :
        /\ whose = IF inTable # "no" THEN inTable
                   ELSE IF lastStep # 0 THEN "step"
                   ELSE IF section = "spec" /\ ~sawStep THEN "data" ELSE "no"
        /\ inTable' = whose
        /\ tableRows' = IF whose # "no" /\ k = "row" THEN Append(tableRows, h) ELSE tableRows
        /\ warnings' = IF whose = "no" THEN warnings \cup {h} ELSE warnings
  BY <1>a DEF TableLine
<1>1. /\ Len(lines') = h /\ lines'[h] = k
      /\ DOMAIN lines = 1..n /\ DOMAIN lines' = 1..h
      /\ \A i \in 1..n : lines'[i] = lines[i]
      /\ lines' \in Seq(Kinds)
  BY <1>a, <1>0, <1>c, LinesAre, LinesGrow DEF ParserInv
<1>2. \A S : LinesOf(S)' = LinesOf(S) \cup (IF k \in S THEN {h} ELSE {})
  <2> SUFFICES ASSUME NEW S PROVE LinesOf(S)' = LinesOf(S) \cup (IF k \in S THEN {h} ELSE {})
    OBVIOUS
  <2> QED
    BY <1>a, <1>c, LinesOfGrow DEF ParserInv
<1>3. inTable \in {"no", "step", "data"} /\ tableRows \in Seq(Nat) /\ lastStep \in Nat /\ OpenTable
  BY DEF ParserInv, ParserTypes
<1>4. /\ inTable' \in {"no", "step", "data"}
      /\ inTable' = "step" => lastStep # 0
      /\ inTable' = "data" => section = "spec" /\ ~sawStep
      /\ inTable' = "no" => tableRows = <<>>
      /\ inTable # "no" => inTable' = inTable
  BY <1>3, <1>e DEF OpenTable
<1>5. /\ tableRows' \in Seq(Nat)
      /\ tableRows' # <<>> => /\ inTable' # "no"
                              /\ (tableRows'[1] = tableRows[1] /\ tableRows # <<>>) \/ tableRows'[1] = h
      /\ \A i \in DOMAIN tableRows : i \in DOMAIN tableRows' /\ tableRows'[i] = tableRows[i]
      /\ k = "row" /\ inTable' # "no" => \E i \in DOMAIN tableRows' : tableRows'[i] = h
  <2>1. CASE inTable' # "no" /\ k = "row"
    <3>1. tableRows' = Append(tableRows, h)
      BY <1>e, <2>1
    <3>2. /\ tableRows' \in Seq(Nat) /\ DOMAIN tableRows' = 1..(Len(tableRows) + 1)
          /\ tableRows'[Len(tableRows) + 1] = h /\ Len(tableRows) \in Nat
          /\ DOMAIN tableRows = 1..Len(tableRows)
          /\ \A i \in 1..Len(tableRows) : tableRows'[i] = tableRows[i]
      BY <1>3, <1>b, <3>1
    <3>3. tableRows = <<>> \/ 1 \in DOMAIN tableRows
      BY <1>3
    <3>4. tableRows = <<>> => tableRows'[1] = h
      BY <3>2
    <3> QED
      BY <2>1, <3>2, <3>3, <3>4
  <2>2. CASE ~(inTable' # "no" /\ k = "row")
    <3>1. tableRows' = tableRows
      BY <1>e, <2>2
    <3> QED
      BY <1>3, <1>4, <2>2, <3>1
  <2> QED
    BY <2>1, <2>2
<1>6. ParserTypes'
  <2>1. ParserTypes
    BY DEF ParserInv
  <2>2. continued' \in BOOLEAN
    BY <1>c
  <2> QED
    BY <1>1, <1>4, <1>5, <1>c, <1>d, <2>1, <2>2, Zenon DEF ParserTypes
<1>7. SectionsFilled'
  <2>1. section' # "before" => LinesOf({"h1"})' # {}
    BY <1>2, <1>c DEF ParserInv, SectionsFilled
  <2> QED
    BY <1>c, <1>d, <2>1, SectionsStay DEF ParserInv
<1>8. Steps' = Steps /\ Ordered'
  BY <1>c, SameDocument DEF ParserInv
<1>9. ErrorsRead' /\ StepsFound' /\ StepsReal'
  <2>1. PICK N \in SUBSET {h} : N = {}
    OBVIOUS
  <2>2. Steps' = Steps \cup N /\ errors' = errors \cup N /\ N \cap N = {} /\ ~(N # {})
        /\ k \notin {"step", "bad step"}
    BY <1>8, <1>c, <2>1
  <2> QED
    BY <1>a, <1>c, <2>2, StepsKept DEF ParserInv
<1>10. StepAbove'
  <2>1. lastStep' = lastStep /\ lastStep <= h /\ ~continued'
    <3>1. lastStep <= n
      BY <1>0 DEF ParserInv, StepAbove
    <3> QED
      BY <1>3, <1>b, <1>c, <3>1
  <2>2. ASSUME lastStep # 0, NEW i \in (lastStep + 1)..h
        PROVE  lines'[i] \in {"blank", "row", "separator"}
    <3>1. CASE i = h
      BY <1>1, <1>c, <3>1
    <3>2. CASE i # h
      <4>1. i \in (lastStep + 1)..n /\ i \in 1..n
        BY <1>3, <1>f, <2>2, <3>2, Zenon
      <4> QED
        BY <1>0, <1>1, <2>2, <4>1 DEF ParserInv, StepAbove
    <3> QED
      BY <3>1, <3>2
  <2> QED
    BY <1>1, <2>1, <2>2 DEF StepAbove
<1>11. OpenTable'
  <2>1. LinesOf({"h1"}) \subseteq LinesOf({"h1"})'
    BY <1>2
  <2>2. tableRows # <<>> => tableRows[1] \in Nat /\ tableRows[1] <= n
    BY <1>0, <1>3 DEF OpenTable
  <2>3. tableRows' # <<>> => tableRows'[1] <= Len(lines')
    BY <1>1, <1>5, <1>b, <2>2, Zenon
  <2>4. (inTable' = "step" => lastStep' # 0) /\ (inTable' = "data" => section' = "spec")
    BY <1>4, <1>c
  <2>5. inTable' = "data" => ~sawStep'
    <3>1. sawStep' = sawStep
      BY <1>c
    <3>2. ~sawStep => ~sawStep'
      BY <3>1
    <3> QED
      BY <1>4, <3>2
  <2>6. inTable' = "data" /\ tableRows' # <<>> => \E i \in LinesOf({"h1"})' : i < tableRows'[1]
    <3> SUFFICES ASSUME inTable' = "data", tableRows' # <<>>
                 PROVE  \E i \in LinesOf({"h1"}) : i < tableRows'[1]
      BY <2>1
    <3>1. CASE tableRows # <<>> /\ tableRows'[1] = tableRows[1]
      BY <1>3, <1>4, <3>1 DEF OpenTable
    <3>2. CASE tableRows'[1] = h
      <4>1. PICK i : i \in LinesOf({"h1"})
        BY <1>4 DEF ParserInv, SectionsFilled
      <4>2. i \in 1..n
        BY <1>1, <4>1 DEF LinesOf
      <4>3. i < h
        BY <1>0, <4>2
      <4> QED
        BY <3>2, <4>1, <4>3
    <3> QED
      BY <1>5, <3>1, <3>2
  <2> QED
    BY <1>5, <2>3, <2>4, <2>5, <2>6 DEF OpenTable
<1>12. TablesRead' /\ TablesWhereWritten'
  <2>1. DOMAIN lines \subseteq DOMAIN lines' /\ Len(lines) <= Len(lines') /\ Len(lines') \in Nat
        /\ \A i \in DOMAIN lines : lines'[i] = lines[i]
    BY <1>b, <1>0, <1>1, Zenon
  <2> QED
    BY <1>8, <1>c, <2>1, TablesStay DEF ParserInv
<1>13. CommaAbove' /\ EndedFlushed'
  BY <1>c DEF CommaAbove, EndedFlushed
<1>14. RowsKept'
  <2>1. LinesOf({"row"})' \subseteq LinesOf({"row"}) \cup (IF k = "row" THEN {h} ELSE {})
    BY <1>2
  <2>2. TableRows' = TableRows
    BY <1>c DEF TableRows
  <2>3. OpenRows \subseteq OpenRows' /\ (k = "row" /\ inTable' # "no" => h \in OpenRows')
    BY <1>5 DEF OpenRows
  <2>4. warnings \subseteq warnings' /\ (inTable' = "no" => h \in warnings')
    BY <1>e
  <2> QED
    BY <1>c, <2>1, <2>2, <2>3, <2>4 DEF ParserInv, RowsKept
<1> QED
  BY <1>6, <1>7, <1>8, <1>9, <1>10, <1>11, <1>12, <1>13, <1>14 DEF ParserInv

\* The end of the file ends the last table, and tells of a missing heading.
LEMMA EndOfFileInv ==
  ASSUME ParserInv, EndOfFile
  PROVE  ParserInv'
<1>1. /\ lines' = lines /\ section' = section /\ lastStep' = lastStep /\ sawStep' = sawStep
      /\ continued' = continued /\ tagLines' = tagLines /\ document' = document
      /\ errors' = (IF section = "before" THEN errors \cup {0} ELSE errors)
      /\ ended' = TRUE /\ Flush
  BY DEF EndOfFile
<1>2. UNCHANGED <<contexts, scenarios, teardowns>>
  BY <1>1 DEF document
<1>3. Steps' = Steps /\ Ordered'
  BY <1>1, SameDocument DEF ParserInv
<1>4. Len(lines) \in Nat /\ DOMAIN lines = 1..Len(lines) /\ Len(lines) <= Len(lines)
      /\ 0 \in 0..Len(lines) /\ 0 \notin DOMAIN lines
  <2>1. Len(lines) \in Nat /\ DOMAIN lines = 1..Len(lines)
    BY LinesAre DEF ParserInv
  <2> QED
    BY <2>1
<1>5. inTable' = "no" /\ tableRows' = <<>> /\ warnings \subseteq warnings'
  BY <1>1 DEF Flush
<1>6. /\ tables' \in Seq(TableSet)
      /\ TablesRead' /\ TablesWhereWritten'
      /\ 0 \in warnings' \/ TableRows \cup OpenRows \subseteq TableRows'
  BY <1>1, <1>3, <1>4, FlushKeeps DEF ParserInv
<1>7. ParserTypes'
  <2>1. tableRows' \in Seq(Nat) /\ inTable' \in {"no", "step", "data"}
    BY <1>5, EmptySeq
  <2>2. ended' \in BOOLEAN
    BY <1>1
  <2>3. tables' \in Seq([owner : Nat, rows : Seq(Nat) \ {<<>>}])
    BY <1>6 DEF TableSet
  <2>4. ParserTypes
    BY DEF ParserInv
  <2> QED
    BY <1>1, <1>2, <2>1, <2>2, <2>3, <2>4, Zenon DEF ParserTypes
<1>8. \A S : LinesOf(S)' = LinesOf(S)
  BY <1>1 DEF LinesOf
<1>9. SectionsFilled'
  <2>1. section' # "before" => LinesOf({"h1"})' # {}
    BY <1>1, <1>8 DEF ParserInv, SectionsFilled
  <2> QED
    BY <1>1, <1>2, <2>1, SectionsStay DEF ParserInv
<1>10. errors' \subseteq errors \cup {0} /\ errors \subseteq errors' /\ \A S : 0 \notin LinesOf(S)
  BY <1>1, <1>4 DEF LinesOf
<1>11. ErrorsRead'
  BY <1>1, <1>4, <1>10 DEF ParserInv, ErrorsRead
<1>12. Taken' = Taken /\ \A S : LinesOf(S)' \ errors' = LinesOf(S) \ errors
  <2>1. \A S : LinesOf(S)' \ errors' = LinesOf(S) \ errors
    BY <1>8, <1>10
  <2> QED
    BY <1>1, <1>8, <2>1 DEF Taken
<1>13. StepsFound' /\ StepsReal'
  <2>1. StepsFound'
    BY <1>3, <1>8, <1>10, <1>12 DEF ParserInv, StepsFound
  <2>2. StepsReal'
    BY <1>3, <1>12 DEF ParserInv, StepsReal
  <2> QED
    BY <2>1, <2>2
<1>14. StepAbove'
  <2>1. StepAbove
    BY DEF ParserInv
  <2> QED
    BY <1>1, <2>1, Zenon DEF StepAbove
<1>15. OpenTable' /\ EndedFlushed'
  BY <1>5 DEF OpenTable, EndedFlushed
<1>16. CommaAbove'
  <2> SUFFICES ASSUME continued'
               PROVE  \E j \in LinesOf({"tags,"}) \ errors : \A m \in (j + 1)..Len(lines) : lines[m] = "tags,"
    BY <1>1, <1>12 DEF CommaAbove
  <2>1. continued
    BY <1>1
  <2> QED
    BY <2>1 DEF ParserInv, CommaAbove
<1>17. RowsKept'
  BY <1>1, <1>5, <1>6, <1>8 DEF ParserInv, RowsKept
<1> QED
  BY <1>3, <1>6, <1>7, <1>9, <1>11, <1>13, <1>14, <1>15, <1>16, <1>17 DEF ParserInv

LEMMA ParserStutter ==
  ASSUME ParserInv, UNCHANGED parseVars
  PROVE  ParserInv'
<1>1. /\ UNCHANGED <<lines, section, lastStep, sawStep, continued, tagLines, errors, warnings, ended>>
      /\ UNCHANGED <<contexts, scenarios, teardowns>>
      /\ UNCHANGED <<tables, inTable, tableRows>>
  BY DEF parseVars, document, table
<1>2. Places' = Places /\ \A p : Part(p)' = Part(p)
  BY <1>1 DEF Places, Part
<1>3. Steps' = Steps /\ \A S : LinesOf(S)' = LinesOf(S)
  BY <1>1, <1>2 DEF Steps, LinesOf
<1>4. Taken' = Taken
  BY <1>1, <1>3 DEF Taken
<1>5. ParserTypes' /\ SectionsFilled' /\ ErrorsRead' /\ StepAbove' /\ OpenTable'
  BY <1>1, <1>3, Zenon DEF ParserInv, ParserTypes, SectionsFilled, ErrorsRead, StepAbove, OpenTable
<1>6. TablesRead' /\ TablesWhereWritten'
  BY <1>1, <1>3, Zenon DEF ParserInv, TablesRead, TablesWhereWritten
<1>7. CommaAbove'
  BY <1>1, <1>3, Zenon DEF ParserInv, CommaAbove
<1>8. RowsKept' /\ EndedFlushed'
  <2>1. TableRows' = TableRows
    BY <1>1, SameTables
  <2>2. tableRows' = tableRows
    BY <1>1
  <2>3. OpenRows' = OpenRows
    BY <2>2 DEF OpenRows
  <2> QED
    BY <1>1, <1>3, <2>1, <2>3, Zenon DEF ParserInv, RowsKept, EndedFlushed
<1>9. Ordered'
  BY SameDocument DEF ParserInv, parseVars
<1>10. StepsFound' /\ StepsReal'
  BY <1>1, <1>3, <1>4, Zenon DEF ParserInv, StepsFound, StepsReal
<1> QED
  BY <1>5, <1>6, <1>7, <1>8, <1>9, <1>10 DEF ParserInv

LEMMA ParserInitInv == ParseInit => ParserInv
<1> SUFFICES ASSUME ParseInit PROVE ParserInv
  OBVIOUS
<1>1. Len(lines) = 0 /\ DOMAIN lines = {} /\ lines = <<>> /\ tables = <<>> /\ tableRows = <<>>
      /\ contexts = <<>> /\ scenarios = <<>> /\ teardowns = <<>>
  BY DEF ParseInit
<1>2. ParserTypes
  <2>1. \A S : <<>> \in Seq(S)
    BY EmptySeq
  <2> QED
    BY <1>1, <2>1 DEF ParseInit, ParserTypes
<1>3. \A p \in Places : DOMAIN Part(p) = {}
  BY <1>1 DEF Places, Part
<1>4. Steps = {} /\ Ordered
  BY <1>3 DEF Steps, Ordered
<1>5. \A S : LinesOf(S) = {}
  BY <1>1 DEF LinesOf
<1>6. SectionsFilled /\ ErrorsRead /\ StepAbove /\ OpenTable /\ CommaAbove
  <2>1. section = "before" /\ inTable = "no" /\ lastStep = 0 /\ sawStep = FALSE /\ continued = FALSE
        /\ errors = {}
    BY DEF ParseInit
  <2>2. SectionsFilled /\ OpenTable
    BY <1>1, <2>1 DEF SectionsFilled, OpenTable
  <2>3. ErrorsRead /\ CommaAbove
    BY <2>1 DEF ErrorsRead, CommaAbove
  <2>4. StepAbove
    BY <1>1, <2>1 DEF StepAbove
  <2> QED
    BY <2>2, <2>3, <2>4
<1>7. TablesRead /\ TablesWhereWritten /\ RowsKept /\ EndedFlushed
  BY <1>1, <1>5 DEF ParseInit, TablesRead, TablesWhereWritten, RowsKept, EndedFlushed
<1>8. StepsFound /\ StepsReal
  BY <1>4, <1>5 DEF StepsFound, StepsReal
<1> QED
  BY <1>2, <1>4, <1>6, <1>7, <1>8 DEF ParserInv

LEMMA ParserNextInv == ParserInv /\ [ParseNext]_parseVars => ParserInv'
<1> SUFFICES ASSUME ParserInv, [ParseNext]_parseVars PROVE ParserInv'
  OBVIOUS
<1>1. CASE Heading
  BY <1>1, HeadingInv
<1>2. CASE ScenarioHeading
  BY <1>2, ScenarioHeadingInv
<1>3. CASE Blank
  BY <1>3, BlankInv
<1>4. CASE TeardownMarker
  BY <1>4, TeardownInv
<1>5. CASE StepLine
  BY <1>5, StepLineInv
<1>6. CASE BadStep
  BY <1>6, BadStepInv
<1>7. CASE Text
  BY <1>7, TextInv
<1>8. ASSUME NEW k \in Kinds, ContinueTags(k) PROVE ParserInv'
  BY <1>8, ContinueTagsInv
<1>9. ASSUME NEW k \in Kinds, TagLine(k) PROVE ParserInv'
  BY <1>9, TagLineInv
<1>10. ASSUME NEW k \in Kinds, TableLine(k) PROVE ParserInv'
  BY <1>10, TableLineInv
<1>11. CASE EndOfFile
  BY <1>11, EndOfFileInv
<1>12. CASE UNCHANGED parseVars
  BY <1>12, ParserStutter
<1> QED
  BY <1>1, <1>2, <1>3, <1>4, <1>5, <1>6, <1>7, <1>8, <1>9, <1>10, <1>11, <1>12 DEF ParseNext

LEMMA ParserInvMeans == ParserInv => SpecReadAsWritten
<1> SUFFICES ASSUME ParserInv PROVE SpecReadAsWritten
  OBVIOUS
<1>1. EveryStepOnce
  BY DEF ParserInv, Ordered, StepsFound, StepsReal, Taken, EveryStepOnce
<1>2. TablesWhereWritten
  BY DEF ParserInv
<1>3. EveryRowAccounted
  <2> SUFFICES ASSUME ended
               PROVE  0 \in warnings \/ LinesOf({"row"}) \subseteq TableRows \cup warnings \cup tagLines
    BY DEF EveryRowAccounted, TableRows
  <2>1. tableRows = <<>>
    BY DEF ParserInv, EndedFlushed
  <2>2. OpenRows = {}
    BY <2>1 DEF OpenRows
  <2> QED
    BY <2>2 DEF ParserInv, RowsKept
<1> QED
  BY <1>1, <1>2, <1>3 DEF SpecReadAsWritten

\* SpecParser::parse reads every file as it is written, of any length and with
\* its lines in any order: every step of it is in the document once and in
\* the order of the file, or its line has an error; every table is with the step
\* right above it or is the data table; no row is lost without a warning.
THEOREM ParserReadsAsWritten == ParseSpec => []SpecReadAsWritten
<1>1. ParseSpec => []ParserInv
  BY ParserInitInv, ParserNextInv, PTL DEF ParseSpec
<1> QED
  BY <1>1, ParserInvMeans, PTL

=============================================================================
