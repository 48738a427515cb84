----------------------------- MODULE SpecCatalog -----------------------------
(***************************************************************************)
(* The specification files on disk and who keeps up with them: the         *)
(* repository with its concepts (src/src/spec/spec_repository.cpp), the    *)
(* watcher that polls for changes (src/src/spec/spec_watcher.cpp), the API *)
(* calls that write, delete and reload files (src/src/server/              *)
(* api_routes.cpp) and TestHub::selectProject, which makes another         *)
(* directory current unless tests are active.  Every change of a file has  *)
(* a number; two contents of a file are told apart by it, as by their      *)
(* time and size.  Contents, paths and the texts of events are left out.   *)
(***************************************************************************)
EXTENDS Naturals, FiniteSets

CONSTANTS
  Files,         \* specification and concept files, of all projects
  ConceptFiles,  \* those that isConceptFile
  Projects,      \* configured projects
  ProjectOf,     \* project whose directory a file lies in
  Api, Watcher,  \* API threads and the watcher's thread
  Tests,         \* tests that may be submitted
  Present,       \* files that are there at the start
  Lives          \* bounds, one of which each behaviour keeps: see life

ASSUME SpecCatalogAssumption ==
  /\ ConceptFiles \subseteq Files /\ ProjectOf \in [Files -> Projects]
  /\ Watcher \notin Api /\ IsFiniteSet(Files) /\ Present \subseteq Files /\ Projects # {}
  /\ \A l \in Lives : l.tests \subseteq Tests /\ {l.edits, l.calls} \subseteq Nat

VARIABLES
  disk,      \* per file: [here, change: its latest change]
  fresh,     \* files written less than settleMs ago
  dir,       \* project of specsDir_ and currentProjectId
  switching, \* projectMutex_ is held
  loaded,    \* concepts_: [project, sigs: what was read of each concept file]
  snapshot,  \* snapshot_: signature of every file in the directory
  at,        \* per thread: [pc, op, target]
  tests,     \* per test: [state, project, crossed, concepts]
  edits,     \* changes made so far
  calls,     \* API calls made so far
  foreign,   \* changes not made through the API
  swallowed, \* foreign changes of concept files that no scan can see any more
  life       \* bounds of this behaviour: [edits: changes by others, calls: API
             \* calls, tests: tests that are submitted]

catalogVars == <<disk, fresh, edits, foreign>>
watchVars   == <<snapshot, swallowed>>
vars == <<catalogVars, watchVars, dir, switching, loaded, at, tests, calls, life>>

Threads == Api \cup {Watcher}
NoProject == CHOOSE p \in Projects : TRUE    \* of a call that needs none
Gone == 0    \* signature of a file that is not there
Sig(f) == IF disk[f].here THEN disk[f].change ELSE Gone
Idle(pc) == [pc |-> pc, op |-> "none", target |-> NoProject]
Goto(t, pc) == at' = [at EXCEPT ![t].pc = pc]

Load(p) ==
  loaded' = [project |-> p, sigs |-> [f \in ConceptFiles |-> IF ProjectOf[f] = p THEN Sig(f) ELSE Gone]]

\* takeSnapshot without a list for the unsettled.
Whole(p) == [f \in Files |-> IF ProjectOf[f] = p THEN Sig(f) ELSE Gone]

\* One change of f, by t or by somebody else.
ChangeFile(f, here) ==
  /\ disk[f].here \/ here
  /\ edits' = edits + 1
  /\ disk' = [disk EXCEPT ![f] = [here |-> here, change |-> edits + 2]]
  /\ fresh' = IF here THEN fresh \cup {f} ELSE fresh \ {f}

\* A project is current, its concepts are loaded and the watcher has started.
Init ==
  /\ dir \in Projects
  /\ disk = [f \in Files |-> [here |-> f \in Present, change |-> 1]]
  /\ fresh = {}
  /\ switching = FALSE
  /\ loaded = [project |-> dir,
               sigs |-> [f \in ConceptFiles |-> IF ProjectOf[f] = dir THEN Sig(f) ELSE Gone]]
  /\ snapshot = Whole(dir)
  /\ at = [t \in Threads |-> Idle("idle")]
  /\ tests = [i \in Tests |-> [state |-> "none", project |-> dir, crossed |-> FALSE, concepts |-> dir]]
  /\ edits = 0 /\ calls = 0 /\ foreign = {}
  /\ swallowed = {}
  /\ life \in Lives

-----------------------------------------------------------------------------
(* Others: editors and the clock (external).                               *)

\* A file that goes before a scan has seen it come, but not before it was read.
GoesUnseen(f) == f \in ConceptFiles /\ snapshot[f] = Gone /\ loaded.sigs[f] # Gone

Edit(f) ==
  /\ Cardinality(foreign) < life.edits
  /\ \E here \in BOOLEAN :
       /\ ChangeFile(f, here)
       /\ swallowed' = IF ~here /\ GoesUnseen(f) THEN swallowed \cup {edits + 2} ELSE swallowed
  /\ foreign' = foreign \cup {edits + 2}
  /\ UNCHANGED <<life, snapshot, dir, switching, loaded, at, tests, calls>>

Settle(f) ==
  /\ f \in fresh
  /\ fresh' = fresh \ {f}
  /\ UNCHANGED <<life, disk, edits, foreign, watchVars, dir, switching, loaded, at, tests, calls>>

-----------------------------------------------------------------------------
(* SpecWatcher.                                                            *)

\* Mutant: a file that is gone is not noticed.
Noticed_NoDeleted == {f \in Files : f \notin fresh /\ Whole(dir)[f] \notin {snapshot[f], Gone}}

\* Files that changed since the snapshot and have settled.
Noticed == {f \in Files : /\ f \notin fresh \/ ProjectOf[f] # dir
                          /\ Whole(dir)[f] # snapshot[f]}

After == [f \in Files |-> IF f \in Noticed THEN Whole(dir)[f] ELSE snapshot[f]]

\* scan, under mutex_: a file that is still being written stays as it was.  A
\* scan in the middle of a change of project takes the files of both for changed.
ScanLook(t) ==
  /\ at[t].pc \in IF t = Watcher THEN {"idle"} ELSE {"scan"}
  /\ snapshot' = After
  /\ Goto(t, IF Noticed = {} THEN IF t = Watcher THEN "idle" ELSE "publish"
             ELSE IF Noticed \cap ConceptFiles # {} THEN "scanReload" ELSE "scanPublish")
  /\ UNCHANGED <<life, catalogVars, swallowed, dir, switching, loaded, tests, calls>>

ScanReload(t) ==
  /\ at[t].pc = "scanReload"
  /\ Load(dir)
  /\ Goto(t, "scanPublish")
  /\ UNCHANGED <<life, catalogVars, watchVars, dir, switching, tests, calls>>

ScanPublish(t) ==
  /\ at[t].pc = "scanPublish"
  /\ Goto(t, IF t = Watcher THEN "idle" ELSE "publish")
  /\ UNCHANGED <<life, catalogVars, watchVars, dir, switching, loaded, tests, calls>>

Scan(t) == ScanLook(t) \/ ScanReload(t) \/ ScanPublish(t)

-----------------------------------------------------------------------------
(* API calls.                                                              *)

Call(t, op, pc) ==
  /\ at[t].pc = "idle" /\ t \in Api
  /\ calls < life.calls /\ calls' = calls + 1
  /\ at' = [at EXCEPT ![t] = [Idle(pc) EXCEPT !.op = op]]

\* PUT and DELETE of a file: the file is changed, concepts are read again if it
\* is a concept file, the snapshot is taken anew and the event is published.
WriteFile(t, f) ==
  /\ ProjectOf[f] = dir
  /\ \E here \in BOOLEAN : ChangeFile(f, here)
  /\ calls < life.calls /\ calls' = calls + 1
  /\ at[t].pc = "idle" /\ t \in Api
  /\ at' = [at EXCEPT ![t] = [Idle(IF f \in ConceptFiles THEN "reload" ELSE "ack")
                              EXCEPT !.op = "write"]]
  /\ UNCHANGED <<life, foreign, watchVars, dir, switching, loaded, tests>>

\* POST reload: the concepts, then a scan.
ReloadSpecs(t) ==
  /\ Call(t, "reload", "reload")
  /\ UNCHANGED <<life, catalogVars, watchVars, dir, switching, loaded, tests>>

Reload(t) ==
  /\ at[t].pc = "reload"
  /\ Load(dir)
  /\ Goto(t, IF at[t].op = "reload" THEN "scan" ELSE "ack")
  /\ UNCHANGED <<life, catalogVars, watchVars, dir, switching, tests, calls>>

\* Changes of concept files by others that were not read and nobody is about to
\* read.
Unread ==
  {f \in ConceptFiles : /\ ProjectOf[f] = dir /\ disk[f].change \in foreign
                        /\ loaded.sigs[f] # Sig(f)
                        /\ \A t \in Threads : at[t].pc \notin {"reload", "scanReload"}}

\* acknowledge: the snapshot takes in whatever changed, by whomever.
Acknowledge(t) ==
  /\ at[t].pc = "ack"
  /\ snapshot' = Whole(dir)
  /\ swallowed' = swallowed \cup {disk[f].change : f \in Unread}
  /\ Goto(t, "publish")
  /\ UNCHANGED <<life, catalogVars, dir, switching, loaded, tests, calls>>

Publish(t) ==
  /\ at[t].pc = "publish"
  /\ switching' = (switching /\ at[t].op # "select")
  /\ at' = [at EXCEPT ![t] = Idle("idle")]
  /\ UNCHANGED <<life, catalogVars, watchVars, dir, loaded, tests, calls>>

-----------------------------------------------------------------------------
(* selectProject.                                                          *)

\* Mutant: a test that waits in the queue is not active.
Active_RunningOnly == {i \in Tests : tests[i].state = "parsed"}

Active == {i \in Tests : tests[i].state \in {"queued", "parsed"}}

\* The check, with projectMutex_ held: from here on the project is changed,
\* whatever is submitted.
SelectProject(t, p) ==
  /\ ~switching /\ p # dir
  /\ Active = {}
  /\ at[t].pc = "idle" /\ t \in Api
  /\ calls < life.calls /\ calls' = calls + 1
  /\ switching' = TRUE
  /\ at' = [at EXCEPT ![t] = [Idle("configure") EXCEPT !.op = "select", !.target = p]]
  /\ UNCHANGED <<life, catalogVars, watchVars, dir, loaded, tests>>

\* The repository's directory is another one; the concepts follow.
Configure(t) ==
  /\ at[t].pc = "configure"
  /\ dir' = at[t].target
  /\ Goto(t, "reload")
  /\ UNCHANGED <<life, catalogVars, watchVars, switching, loaded, tests, calls>>

-----------------------------------------------------------------------------
(* Tests, as far as they use the repository.                               *)

\* submit resolves the paths, then places the record.
Resolve(i) ==
  /\ tests[i].state = "none" /\ i \in life.tests
  /\ tests' = [tests EXCEPT ![i].state = "resolved", ![i].project = dir]
  /\ UNCHANGED <<life, catalogVars, watchVars, dir, switching, loaded, at, calls>>

\* A test is crossed by a change of project that looked before it was there.
Enqueue(i) ==
  /\ tests[i].state = "resolved"
  /\ tests' = [tests EXCEPT ![i].state = "queued",
                            ![i].crossed = \/ dir # tests[i].project
                                           \/ \E t \in Api : at[t].op = "select" /\ at[t].pc \in {"configure", "reload"}]
  /\ UNCHANGED <<life, catalogVars, watchVars, dir, switching, loaded, at, calls>>

\* A worker loads the resolved files and expands the concepts in them.
Parse(i) ==
  /\ tests[i].state = "queued"
  /\ tests' = [tests EXCEPT ![i].state = "parsed", ![i].concepts = loaded.project]
  /\ UNCHANGED <<life, catalogVars, watchVars, dir, switching, loaded, at, calls>>

EndTest(i) ==
  /\ tests[i].state = "parsed"
  /\ tests' = [tests EXCEPT ![i].state = "ended"]
  /\ UNCHANGED <<life, catalogVars, watchVars, dir, switching, loaded, at, calls>>

-----------------------------------------------------------------------------
ThreadStep(t) == Scan(t) \/ Reload(t) \/ Acknowledge(t) \/ Publish(t) \/ Configure(t)

Next ==
  \/ \E t \in Threads : ThreadStep(t)
  \/ \E f \in Files : Edit(f) \/ Settle(f)
  \/ \E t \in Api : \/ ReloadSpecs(t)
                    \/ \E f \in Files : WriteFile(t, f)
                    \/ \E p \in Projects : SelectProject(t, p)
  \/ \E i \in Tests : Resolve(i) \/ Enqueue(i) \/ Parse(i) \/ EndTest(i)

Spec == Init /\ [][Next]_vars

\* The watcher polls on, calls that were begun go on and files settle.  Nobody
\* has to call, to edit or to submit.
FairSpec ==
  /\ Spec
  /\ \A t \in Threads : WF_vars(ThreadStep(t))
  /\ \A f \in Files : WF_vars(Settle(f))

-----------------------------------------------------------------------------
\* A test is run with the concepts of the project its files were resolved in,
\* unless a change of project had looked for active tests before the test was
\* among them.
OneProjectPerTest ==
  \A i \in Tests : tests[i].state \in {"parsed", "ended"} /\ ~tests[i].crossed
                     => tests[i].concepts = tests[i].project

\* The concepts are what the concept files say.
ConceptsCurrent ==
  /\ loaded.project = dir
  /\ \A f \in ConceptFiles : ProjectOf[f] = dir => loaded.sigs[f] = Sig(f)

\* The concepts catch up with every change of a concept file, of others as of
\* the API, unless an acknowledge took the change into the snapshot unseen, or a
\* file that was read went again before a scan had seen it come.
ConceptsCatchUp == []<>(ConceptsCurrent \/ swallowed # {})

=============================================================================
