-------------------------- MODULE ScenarioRunProofs --------------------------
(***************************************************************************)
(* Proofs about ScenarioRun, for every plan, any number of streams and any *)
(* interleaving of them: what a client polls never goes backwards,         *)
(* fail_fast lets at most one scenario fail on every stream, every         *)
(* scenario is accounted for at the verdict, and the verdict is earned.    *)
(*                                                                         *)
(* Most steps change one stream and none of the counters: LocalStep says   *)
(* what such a step may do, each of them is shown to be one, and only the  *)
(* counting and the publishing of an outcome are looked at on their own.   *)
(***************************************************************************)
EXTENDS ScenarioRun, FiniteSetTheorems, WellFoundedInduction, TLAPS

-----------------------------------------------------------------------------
(* The lay-out of a run: what follows from the request alone.              *)

LEMMA LeastIn ==
  ASSUME NEW S, S \subseteq Nat, S # {}
  PROVE  Least(S) \in S
<1>1. PICK n \in S : \A m \in S : ~(<<m, n>> \in OpToRel(<, Nat))
  BY NatLessThanWellFounded, WFMin
<1>2. ASSUME NEW m \in S PROVE n <= m
  <2>1. <<m, n>> \in Nat \X Nat /\ <<m, n>>[1] = m /\ <<m, n>>[2] = n
    OBVIOUS
  <2>2. ~(m < n)
    BY <1>1, <2>1 DEF OpToRel
  <2> QED
    BY <2>2
<1> QED
  BY <1>2 DEF Least

LEMMA Element ==
  ASSUME NEW R, NEW p \in Seq(R), NEW i \in 1..Len(p)
  PROVE  p[i] \in R
OBVIOUS

LEMMA SpecType ==
  ASSUME IsPlan(Plan), NEW s \in Specs
  PROVE  Plan[s] \in [ok: BOOLEAN, contexts: Seq(Nat), items: Seq(Seq(Nat)), teardowns: Seq(Nat)]
<1>1. s \in 1..Len(Plan)
  BY DEF IsPlan, Specs
<1> QED
  BY <1>1, Element DEF IsPlan

LEMMA ItemsFinite ==
  ASSUME IsPlan(Plan)
  PROVE  IsFiniteSet(Items)
<1> DEFINE Of(s)  == {s} \X DOMAIN Plan[s].items
           All    == {Of(s) : s \in Specs}
           f      == [s \in Specs |-> Of(s)]
<1>1. Specs = 1..Len(Plan) /\ Len(Plan) \in Nat
  BY DEF IsPlan, Specs
<1>2. IsFiniteSet(Specs)
  BY <1>1, FS_Interval
<1>3. f \in Surjection(Specs, All)
  BY DEF Surjection
<1>4. IsFiniteSet(All)
  BY <1>2, <1>3, FS_Surjection
<1>5. \A s \in Specs : IsFiniteSet(Of(s))
  <2> TAKE s \in Specs
  <2>1. Plan[s].items \in Seq(Seq(Nat))
    BY SpecType
  <2>2. DOMAIN Plan[s].items = 1..Len(Plan[s].items) /\ Len(Plan[s].items) \in Nat
    BY <2>1
  <2>3. IsFiniteSet(DOMAIN Plan[s].items)
    BY <2>2, FS_Interval
  <2> QED
    BY <2>3, FS_Singleton, FS_Product
<1> QED
  BY <1>4, <1>5, FS_UNION DEF Items

LEMMA StreamCountType ==
  ASSUME request \in Requests
  PROVE  StreamCount \in Nat
<1>1. IsPlan(Plan) /\ request.streams \in Nat
  BY RunAssumption DEF Plan
<1> QED
  BY <1>1, ItemsFinite, FS_CardinalityType DEF StreamCount

LEMMA Fixed ==
  ASSUME request' = request
  PROVE  /\ Plan' = Plan /\ Specs' = Specs /\ Items' = Items /\ Streams' = Streams
         /\ Sequential' = Sequential /\ StreamCount' = StreamCount
         /\ \A s, k : Bucket(s, k)' = Bucket(s, k)
<1>1. Plan' = Plan
  BY DEF Plan
<1>2. Specs' = Specs
  BY <1>1 DEF Specs
<1>3. Items' = Items
  BY <1>1, <1>2 DEF Items
<1>4. StreamCount' = StreamCount
  BY <1>3 DEF StreamCount
<1>5. FirstOrder' = FirstOrder
  BY <1>2, <1>3 DEF FirstOrder
<1> QED
  BY <1>1, <1>2, <1>3, <1>4, <1>5 DEF Streams, Sequential, Bucket

-----------------------------------------------------------------------------
(* The inductive invariant.                                                *)

\* A stream at one of these has an item in hand.
WithItem == Running \cup {"item", "apply", "publish"}

Pcs == WithItem \cup {"before_suite", "spec", "before_spec", "after_spec", "done"}

States == {"PASSED", "FAILED", "TEST_ERROR", "SKIPPED", "CANCELLED"}

Counters == [executed: Nat, passed: Nat, failed: Nat, skipped: Nat]

Row == [pc: Pcs, suiteOk: BOOLEAN, specOk: BOOLEAN, late: BOOLEAN, spec: Nat, item: Nat,
        step: Nat, inner: Nat, attempts: Nat, state: States, stepState: States,
        stop: BOOLEAN, innerStop: BOOLEAN, anySkipped: BOOLEAN, snap: Counters]

TypeOK ==
  /\ request \in Requests
  /\ stream \in [Streams -> Row]
  /\ status \in Counters /\ polled \in Counters
  /\ runMutex \in Nat
  /\ failFastTriggered \in BOOLEAN
  /\ results \in [Items -> States \cup {"none"}]

NoLess(a, b) ==
  /\ a.executed >= b.executed /\ a.passed >= b.passed
  /\ a.failed >= b.failed /\ a.skipped >= b.skipped

\* The lock is with the stream that publishes, whose copy is the present count.
Locked ==
  /\ \A j \in Streams : stream[j].pc = "publish" => runMutex = j /\ stream[j].snap = status
  /\ NoLess(status, polled)

\* What a stream works at is its own: the item in its hands comes from its bucket.
PlacedRow(j, r) ==
  /\ r.pc \in {"before_spec", "after_spec"} => r.spec \in Specs
  /\ r.pc \in WithItem => /\ <<r.spec, r.item>> \in Items
                          /\ r.spec \in Specs /\ r.item \in DOMAIN Plan[r.spec].items
                          /\ Bucket(r.spec, r.item) = j

Placed == \A j \in Streams : PlacedRow(j, stream[j])

Home(i) == Bucket(i[1], i[2])

\* A counted failure has raised the flag.
Flagged == request.failFast /\ status.failed > 0 => failFastTriggered

Inv == TypeOK /\ Locked /\ Placed /\ Flagged

-----------------------------------------------------------------------------
(* Steps that touch one stream.                                            *)

\* A row n that may follow r without raising a flag or publishing a result.
GoodRow(j, r, n) ==
  /\ n \in Row
  /\ n.pc = "publish" <=> r.pc = "publish"
  /\ n.pc = "publish" => n.state = r.state /\ n.snap = r.snap
  /\ PlacedRow(j, n)
  /\ n.pc \in Running => \/ r.pc \in Running /\ n.spec = r.spec /\ n.item = r.item
                         \/ ~failFastTriggered

LocalStep(j) ==
  /\ UNCHANGED <<request, failFastTriggered, status, runMutex, results>>
  /\ polled' \in {polled, status}
  /\ \E n : GoodRow(j, stream[j], n) /\ stream' = [stream EXCEPT ![j] = n]

NothingStarts == request.failFast /\ status.failed > 0 => Underway' \subseteq Underway

Keeps == Inv' /\ NoLess(polled', polled) /\ NothingStarts

LEMMA LocalStepKeeps ==
  ASSUME Inv, NEW j \in Streams, LocalStep(j)
  PROVE  Keeps
<1>1. PICK n : GoodRow(j, stream[j], n) /\ stream' = [stream EXCEPT ![j] = n]
  BY DEF LocalStep
<1>2. /\ Streams' = Streams /\ Items' = Items /\ Specs' = Specs /\ Plan' = Plan
      /\ \A s, k : Bucket(s, k)' = Bucket(s, k)
  BY Fixed DEF LocalStep
<1>3. /\ stream \in [Streams -> Row] /\ n \in Row
      /\ stream' \in [Streams -> Row] /\ stream'[j] = n
      /\ \A i \in Streams : i # j => stream'[i] = stream[i]
  BY <1>1 DEF Inv, TypeOK, GoodRow
<1>4. TypeOK'
  BY <1>2, <1>3 DEF Inv, TypeOK, LocalStep
<1>5. Locked'
  BY <1>1, <1>2, <1>3 DEF Inv, Locked, LocalStep, GoodRow, NoLess, TypeOK, Counters
<1>6. Placed'
  <2> SUFFICES ASSUME NEW i \in Streams PROVE PlacedRow(i, stream[i])'
    BY <1>2 DEF Placed
  <2>1. PlacedRow(i, stream'[i])
    BY <1>1, <1>3 DEF Inv, Placed, GoodRow
  <2> QED
    BY <2>1, <1>2 DEF PlacedRow
<1>7. Flagged'
  BY DEF Inv, Flagged, LocalStep
<1>8. NoLess(polled', polled)
  BY DEF Inv, Locked, TypeOK, Counters, NoLess, LocalStep
<1>9. NothingStarts
  <2> SUFFICES ASSUME failFastTriggered, NEW i \in Streams, stream'[i].pc \in Running
               PROVE  /\ stream[i].pc \in Running
                      /\ stream[i].spec = stream'[i].spec /\ stream[i].item = stream'[i].item
    BY <1>2 DEF Inv, Flagged, NothingStarts, Underway
  <2> QED
    BY <1>1, <1>3 DEF GoodRow
<1> QED
  BY <1>4, <1>5, <1>6, <1>7, <1>8, <1>9 DEF Inv, Keeps

LEMMA RowType ==
  ASSUME Inv, NEW j \in Streams
  PROVE  stream[j] \in Row /\ PlacedRow(j, stream[j])
BY DEF Inv, TypeOK, Placed

LEMMA Plans == ASSUME Inv PROVE IsPlan(Plan)
BY RunAssumption DEF Inv, TypeOK, Plan

\* The next specification and the next item of a stream are its own.
LEMMA NextSpec ==
  ASSUME Inv, NEW j \in Streams, NEW s, SpecsAfter(j, s) # {}
  PROVE  /\ Least(SpecsAfter(j, s)) \in Specs
         /\ Least(SpecsAfter(j, s)) \in Nat
         /\ ~Sequential => ItemsAfter(j, Least(SpecsAfter(j, s)), 0) # {}
<1>1. Specs = 1..Len(Plan) /\ Len(Plan) \in Nat
  BY Plans DEF IsPlan, Specs
<1>2. SpecsAfter(j, s) \subseteq Nat
  BY <1>1 DEF SpecsAfter
<1>3. Least(SpecsAfter(j, s)) \in SpecsAfter(j, s)
  BY <1>2, LeastIn
<1>4. PICK t : t = Least(SpecsAfter(j, s))
  OBVIOUS
<1>5. t \in Specs /\ (Sequential \/ ItemsAfter(j, t, 0) # {})
  BY <1>3, <1>4, Zenon DEF SpecsAfter
<1>6. t \in Nat
  BY <1>1, <1>5
<1> QED
  BY <1>4, <1>5, <1>6

LEMMA NextItem ==
  ASSUME Inv, NEW j \in Streams, NEW s \in Specs, NEW k, ItemsAfter(j, s, k) # {}
  PROVE  LET i == Least(ItemsAfter(j, s, k)) IN
         /\ i \in Nat /\ i \in DOMAIN Plan[s].items /\ <<s, i>> \in Items /\ Bucket(s, i) = j
<1>1. Plan[s].items \in Seq(Seq(Nat))
  BY Plans, SpecType
<1>2. DOMAIN Plan[s].items \subseteq Nat
  BY <1>1
<1>3. ItemsAfter(j, s, k) \subseteq Nat
  BY <1>2 DEF ItemsAfter
<1>4. Least(ItemsAfter(j, s, k)) \in ItemsAfter(j, s, k)
  BY <1>3, LeastIn
<1>5. PICK i : i = Least(ItemsAfter(j, s, k))
  OBVIOUS
<1>6. i \in Nat /\ i \in DOMAIN Plan[s].items /\ Bucket(s, i) = j
  BY <1>2, <1>4, <1>5 DEF ItemsAfter
<1>7. <<s, i>> \in {s} \X DOMAIN Plan[s].items
  BY <1>6
<1>8. <<s, i>> \in Items
  BY <1>7 DEF Items
<1> QED
  BY <1>5, <1>6, <1>8

LEMMA SeesDeadlineLocal ==
  ASSUME Inv, NEW j \in Streams, SeesDeadline(j)
  PROVE  LocalStep(j)
<1> DEFINE r == stream[j]
           n == [r EXCEPT !.late = TRUE]
<1>1. r \in Row /\ PlacedRow(j, r)
  BY RowType
<1>2. stream' = [stream EXCEPT ![j] = n]
  BY DEF SeesDeadline
<1>3. GoodRow(j, r, n)
  BY <1>1 DEF SeesDeadline, At, GoodRow, Row, PlacedRow, Pcs, WithItem, Running, ChecksTimeout
<1>4. /\ UNCHANGED <<request, failFastTriggered, status, runMutex, results>>
      /\ polled' \in {polled, status}
  BY DEF SeesDeadline, shared, counts, record
<1> QED
  BY <1>2, <1>3, <1>4 DEF LocalStep

LEMMA RecordTimeoutLocal ==
  ASSUME Inv, NEW j \in Streams, RecordTimeout(j)
  PROVE  LocalStep(j)
<1> DEFINE r == stream[j]
           n == [r EXCEPT !.late = FALSE]
<1>1. r \in Row /\ PlacedRow(j, r)
  BY RowType
<1>2. stream' = [stream EXCEPT ![j] = n]
  BY DEF RecordTimeout
<1>3. GoodRow(j, r, n)
  BY <1>1 DEF RecordTimeout, At, GoodRow, Row, PlacedRow, Pcs, WithItem, Running
<1>4. /\ UNCHANGED <<request, failFastTriggered, status, runMutex, results>>
      /\ polled' \in {polled, status}
  BY DEF RecordTimeout, shared, counts, record
<1> QED
  BY <1>2, <1>3, <1>4 DEF LocalStep

LEMMA BeforeSuiteLocal ==
  ASSUME Inv, NEW j \in Streams, NEW ok \in BOOLEAN, BeforeSuite(j, ok)
  PROVE  LocalStep(j)
<1> DEFINE r == stream[j]
           n == [r EXCEPT !.pc = "spec", !.suiteOk = ok]
<1>1. r \in Row /\ PlacedRow(j, r)
  BY RowType
<1>2. stream' = [stream EXCEPT ![j] = n]
  BY DEF BeforeSuite
<1>3. GoodRow(j, r, n)
  BY <1>1 DEF BeforeSuite, At, GoodRow, Row, PlacedRow, Pcs, WithItem, Running
<1>4. /\ UNCHANGED <<request, failFastTriggered, status, runMutex, results>>
      /\ polled' \in {polled, status}
  BY DEF BeforeSuite, shared, counts, record
<1> QED
  BY <1>2, <1>3, <1>4 DEF LocalStep

LEMMA SkipSpecLocal ==
  ASSUME Inv, NEW j \in Streams, SkipSpec(j)
  PROVE  LocalStep(j)
<1> DEFINE r == stream[j]
           n == [r EXCEPT !.spec = Least(SpecsAfter(j, r.spec))]
<1>1. r \in Row /\ PlacedRow(j, r)
  BY RowType
<1>2. stream' = [stream EXCEPT ![j] = n]
  BY DEF SkipSpec
<1>3. GoodRow(j, r, n)
  BY <1>1, NextSpec DEF SkipSpec, At, GoodRow, Row, PlacedRow, Pcs, WithItem, Running
<1>4. /\ UNCHANGED <<request, failFastTriggered, status, runMutex, results>>
      /\ polled' \in {polled, status}
  BY DEF SkipSpec, shared, counts, record
<1> QED
  BY <1>2, <1>3, <1>4 DEF LocalStep

LEMMA LoadErrorLocal ==
  ASSUME Inv, NEW j \in Streams, LoadError(j)
  PROVE  LocalStep(j)
<1> DEFINE r == stream[j]
           n == [r EXCEPT !.spec = Least(SpecsAfter(j, r.spec))]
<1>1. r \in Row /\ PlacedRow(j, r)
  BY RowType
<1>2. stream' = [stream EXCEPT ![j] = n]
  BY DEF LoadError
<1>3. GoodRow(j, r, n)
  BY <1>1, NextSpec DEF LoadError, At, GoodRow, Row, PlacedRow, Pcs, WithItem, Running
<1>4. /\ UNCHANGED <<request, failFastTriggered, status, runMutex, results>>
      /\ polled' \in {polled, status}
  BY DEF LoadError, shared, counts, record
<1> QED
  BY <1>2, <1>3, <1>4 DEF LocalStep

LEMMA SkipItemLocal ==
  ASSUME Inv, NEW j \in Streams, SkipItem(j)
  PROVE  LocalStep(j)
<1> DEFINE r == stream[j]
           n == [r EXCEPT !.pc = "apply", !.state = IF r.suiteOk /\ cancelled THEN "CANCELLED" ELSE "SKIPPED"]
<1>1. r \in Row /\ PlacedRow(j, r)
  BY RowType
<1>2. stream' = [stream EXCEPT ![j] = n]
  BY DEF SkipItem
<1>3. GoodRow(j, r, n)
  BY <1>1 DEF SkipItem, At, GoodRow, Row, PlacedRow, Pcs, WithItem, Running, States, Failure
<1>4. /\ UNCHANGED <<request, failFastTriggered, status, runMutex, results>>
      /\ polled' \in {polled, status}
  BY DEF SkipItem, shared, counts, record
<1> QED
  BY <1>2, <1>3, <1>4 DEF LocalStep

LEMMA StartScenarioLocal ==
  ASSUME Inv, NEW j \in Streams, StartScenario(j)
  PROVE  LocalStep(j)
<1> DEFINE r == stream[j]
           n == [r EXCEPT !.pc = "before_scenario"]
<1>1. r \in Row /\ PlacedRow(j, r)
  BY RowType
<1>2. stream' = [stream EXCEPT ![j] = n]
  BY DEF StartScenario
<1>3. GoodRow(j, r, n)
  BY <1>1 DEF StartScenario, At, GoodRow, Row, PlacedRow, Pcs, WithItem, Running, ShouldStop
<1>4. /\ UNCHANGED <<request, failFastTriggered, status, runMutex, results>>
      /\ polled' \in {polled, status}
  BY DEF StartScenario, shared, counts, record
<1> QED
  BY <1>2, <1>3, <1>4 DEF LocalStep

LEMMA BeginInnerLocal ==
  ASSUME Inv, NEW j \in Streams, BeginInner(j)
  PROVE  LocalStep(j)
<1> DEFINE r == stream[j]
           n == [r EXCEPT !.pc = "attempt"]
<1>1. r \in Row /\ PlacedRow(j, r)
  BY RowType
<1>2. stream' = [stream EXCEPT ![j] = n]
  BY DEF BeginInner
<1>3. GoodRow(j, r, n)
  BY <1>1 DEF BeginInner, At, GoodRow, Row, PlacedRow, Pcs, WithItem, Running
<1>4. /\ UNCHANGED <<request, failFastTriggered, status, runMutex, results>>
      /\ polled' \in {polled, status}
  BY DEF BeginInner, shared, counts, record
<1> QED
  BY <1>2, <1>3, <1>4 DEF LocalStep

LEMMA AttemptLocal ==
  ASSUME Inv, NEW j \in Streams, Attempt(j)
  PROVE  LocalStep(j)
<1> DEFINE r == stream[j]
<1>1. r \in Row /\ PlacedRow(j, r)
  BY RowType
<1>2. PICK a \in Nat : a = r.attempts + 1
  BY <1>1 DEF Row
<1> DEFINE n == [r EXCEPT !.pc = "call", !.attempts = a]
<1>3. stream' = [stream EXCEPT ![j] = n]
  BY <1>1, <1>2 DEF Attempt, Row
<1>4. GoodRow(j, r, n)
  BY <1>1 DEF Attempt, At, GoodRow, Row, PlacedRow, Pcs, WithItem, Running
<1> QED
  BY <1>3, <1>4 DEF LocalStep, Attempt, shared, counts, record

LEMMA AfterSpecLocal ==
  ASSUME Inv, NEW j \in Streams, NEW ok \in BOOLEAN, AfterSpec(j, ok)
  PROVE  LocalStep(j)
<1> DEFINE r == stream[j]
           n == [r EXCEPT !.pc = "spec", !.specOk = TRUE]
<1>1. r \in Row /\ PlacedRow(j, r)
  BY RowType
<1>2. stream' = [stream EXCEPT ![j] = n]
  BY DEF AfterSpec
<1>3. GoodRow(j, r, n)
  BY <1>1 DEF AfterSpec, At, GoodRow, Row, PlacedRow, Pcs, WithItem, Running
<1>4. /\ UNCHANGED <<request, failFastTriggered, status, runMutex, results>>
      /\ polled' \in {polled, status}
  BY DEF AfterSpec, shared, counts, record
<1> QED
  BY <1>2, <1>3, <1>4 DEF LocalStep

LEMMA AfterSuiteLocal ==
  ASSUME Inv, NEW j \in Streams, NEW ok \in BOOLEAN, AfterSuite(j, ok)
  PROVE  LocalStep(j)
<1> DEFINE r == stream[j]
           n == [r EXCEPT !.pc = "done"]
<1>1. r \in Row /\ PlacedRow(j, r)
  BY RowType
<1>2. stream' = [stream EXCEPT ![j] = n]
  BY DEF AfterSuite
<1>3. GoodRow(j, r, n)
  BY <1>1 DEF AfterSuite, At, GoodRow, Row, PlacedRow, Pcs, WithItem, Running
<1>4. /\ UNCHANGED <<request, failFastTriggered, status, runMutex, results>>
      /\ polled' \in {polled, status}
  BY DEF AfterSuite, shared, counts, record
<1> QED
  BY <1>2, <1>3, <1>4 DEF LocalStep

LEMMA BeginStepLocal ==
  ASSUME Inv, NEW j \in Streams, BeginStep(j)
  PROVE  LocalStep(j)
<1> DEFINE r == stream[j]
           n == [r EXCEPT !.pc = IF ThisStep(j).inner = 0 THEN "attempt" ELSE "inner", !.inner = IF ThisStep(j).inner = 0 THEN 0 ELSE 1]
<1>1. r \in Row /\ PlacedRow(j, r)
  BY RowType
<1>2. stream' = [stream EXCEPT ![j] = n]
  BY DEF BeginStep
<1>3. GoodRow(j, r, n)
  BY <1>1 DEF BeginStep, At, GoodRow, Row, PlacedRow, Pcs, WithItem, Running
<1>4. /\ UNCHANGED <<request, failFastTriggered, status, runMutex, results>>
      /\ polled' \in {polled, status}
  BY DEF BeginStep, shared, counts, record
<1> QED
  BY <1>2, <1>3, <1>4 DEF LocalStep

LEMMA BeforeSpecLocal ==
  ASSUME Inv, NEW j \in Streams, NEW ok \in BOOLEAN, BeforeSpec(j, ok)
  PROVE  LocalStep(j)
<1> DEFINE r == stream[j]
           items == ItemsAfter(j, r.spec, 0)
           n == [r EXCEPT !.specOk = ok, !.pc = IF items = {} THEN "after_spec" ELSE "item",
                          !.item = IF items = {} THEN 0 ELSE Least(items)]
<1>1. r \in Row /\ r.spec \in Specs
  BY RowType DEF PlacedRow, BeforeSpec, At
<1>2. stream' = [stream EXCEPT ![j] = n]
  BY DEF BeforeSpec
<1>3. GoodRow(j, r, n)
  <2>1. CASE items = {}
    BY <1>1, <2>1 DEF BeforeSpec, At, GoodRow, Row, PlacedRow, Pcs, WithItem, Running
  <2>2. CASE items # {}
    <3> DEFINE i == Least(items)
    <3>1. i \in Nat /\ i \in DOMAIN Plan[r.spec].items /\ <<r.spec, i>> \in Items
            /\ Bucket(r.spec, i) = j
      BY <1>1, <2>2, NextItem
    <3> HIDE DEF i
    <3>2. n = [r EXCEPT !.specOk = ok, !.pc = "item", !.item = i]
      BY <2>2 DEF i
    <3> QED
      BY <1>1, <3>1, <3>2 DEF BeforeSpec, At, GoodRow, Row, PlacedRow, Pcs, WithItem, Running
  <2> QED
    BY <2>1, <2>2
<1> QED
  BY <1>2, <1>3 DEF LocalStep, BeforeSpec, shared, counts, record

LEMMA EnterSpecLocal ==
  ASSUME Inv, NEW j \in Streams, EnterSpec(j)
  PROVE  LocalStep(j)
<1> DEFINE r == stream[j]
<1>1. r \in Row
  BY RowType
<1>2. PICK s \in Specs : /\ s = Least(SpecsAfter(j, r.spec)) /\ s \in Nat
                         /\ ~Sequential => ItemsAfter(j, s, 0) # {}
  BY NextSpec DEF EnterSpec
<1>3. CASE r.suiteOk
  <2> DEFINE n == [r EXCEPT !.spec = s, !.pc = "before_spec", !.item = 0]
  <2>1. stream' = [stream EXCEPT ![j] = n]
    BY <1>2, <1>3 DEF EnterSpec
  <2>2. GoodRow(j, r, n)
    BY <1>1, <1>2 DEF EnterSpec, At, GoodRow, Row, PlacedRow, Pcs, WithItem, Running
  <2> QED
    BY <2>1, <2>2 DEF LocalStep, EnterSpec, shared, record
<1>4. CASE ~r.suiteOk
  <2>1. ItemsAfter(j, s, 0) # {}
    BY <1>2, <1>4 DEF EnterSpec
  <2>2. PICK i : i = Least(ItemsAfter(j, s, 0))
    OBVIOUS
  <2>3. i \in Nat /\ i \in DOMAIN Plan[s].items /\ <<s, i>> \in Items /\ Bucket(s, i) = j
    BY <2>1, <2>2, NextItem
  <2> DEFINE n == [r EXCEPT !.spec = s, !.pc = "item", !.item = i]
  <2>4. stream' = [stream EXCEPT ![j] = n]
    BY <1>2, <1>4, <2>2 DEF EnterSpec
  <2>5. GoodRow(j, r, n)
    BY <1>1, <1>2, <2>3 DEF EnterSpec, At, GoodRow, Row, PlacedRow, Pcs, WithItem, Running
  <2> QED
    BY <2>4, <2>5 DEF LocalStep, EnterSpec, shared, record
<1> QED
  BY <1>3, <1>4

-----------------------------------------------------------------------------
(* Steps inside a scenario.                                                *)

\* The stream goes on with the scenario it has.
RunsOn(j) ==
  \E n \in Row : /\ stream' = [stream EXCEPT ![j] = n]
                 /\ n.pc \in Running
                 /\ n.spec = stream[j].spec /\ n.item = stream[j].item
                 /\ n.suiteOk = stream[j].suiteOk /\ n.specOk = stream[j].specOk
                 /\ n.state \in {stream[j].state, "PASSED"} \cup Failure

LEMMA EndStepRuns ==
  ASSUME Inv, NEW j \in Streams, NEW res, NEW halt \in BOOLEAN, EndStep(j, res, halt)
  PROVE  RunsOn(j)
<1> DEFINE r == stream[j]
<1>1. r \in Row
  BY RowType
<1>2. PICK a \in Nat : a = r.step + 1
  BY <1>1 DEF Row
<1>3. PICK b \in BOOLEAN : b = StopAt(r.spec, r.item, a, r.stop \/ halt)
  BY DEF StopAt
<1>4. PICK c \in BOOLEAN : c = (r.anySkipped \/ (res = "SKIPPED" /\ ThisStep(j).part = "step"))
  OBVIOUS
<1>5. PICK t \in States : /\ t = IF ~halt THEN r.state
                                 ELSE IF "TEST_ERROR" \in {res, r.state} THEN "TEST_ERROR" ELSE "FAILED"
                          /\ t \in {r.state, "PASSED"} \cup Failure
  BY <1>1 DEF Row, States, Failure
<1> DEFINE m == [r EXCEPT !.pc = "step", !.step = a, !.stop = b, !.state = t, !.anySkipped = c]
           n == [m EXCEPT !.inner = 0, !.attempts = 0, !.innerStop = FALSE, !.stepState = "PASSED"]
<1>6. /\ m \in Row /\ m.pc = "step" /\ m.spec = r.spec /\ m.item = r.item
      /\ m.suiteOk = r.suiteOk /\ m.specOk = r.specOk /\ m.state = t
  BY <1>1 DEF Row, Pcs, WithItem, Running
<1>7. /\ n \in Row /\ n.pc \in Running /\ n.spec = r.spec /\ n.item = r.item
      /\ n.suiteOk = r.suiteOk /\ n.specOk = r.specOk /\ n.state = t
  <2> HIDE DEF m
  <2>1. /\ n \in Row /\ n.pc = m.pc /\ n.spec = m.spec /\ n.item = m.item
        /\ n.suiteOk = m.suiteOk /\ n.specOk = m.specOk /\ n.state = m.state
    BY <1>6 DEF Row, States
  <2> QED
    BY <1>6, <2>1 DEF Running
<1>8. stream' = [stream EXCEPT ![j] = n]
  <2>1. stream \in [Streams -> Row]
    BY DEF Inv, TypeOK
  <2>2. stream' = [stream EXCEPT ![j] =
                     [r EXCEPT !.pc = "step", !.step = r.step + 1,
                        !.stop = StopAt(r.spec, r.item, r.step + 1, r.stop \/ halt),
                        !.state = IF ~halt THEN r.state
                                  ELSE IF "TEST_ERROR" \in {res, r.state} THEN "TEST_ERROR"
                                       ELSE "FAILED",
                        !.anySkipped = r.anySkipped \/ (res = "SKIPPED" /\ ThisStep(j).part = "step"),
                        !.inner = 0, !.attempts = 0, !.innerStop = FALSE, !.stepState = "PASSED"]]
    BY <1>1, <2>1, SMTT(60) DEF EndStep, Row
  <2> QED
    BY <1>1, <1>2, <1>3, <1>4, <1>5, <2>2 DEF Row
<1> QED
  BY <1>5, <1>7, <1>8 DEF RunsOn

LEMMA EndInnerRuns ==
  ASSUME Inv, NEW j \in Streams, NEW res \in States, NEW halt \in BOOLEAN, EndInner(j, res, halt)
  PROVE  RunsOn(j)
<1> DEFINE r == stream[j]
<1>1. r \in Row
  BY RowType
<1>2. CASE ThisStep(j).inner = 0
  BY <1>2, EndStepRuns DEF EndInner
<1>3. CASE ThisStep(j).inner # 0 /\ r.inner = ThisStep(j).inner
  <2>1. PICK b \in BOOLEAN : b = (halt \/ r.innerStop)
    OBVIOUS
  <2>2. EndStep(j, IF halt THEN res ELSE r.stepState, b)
    BY <1>3, <2>1 DEF EndInner
  <2> QED
    BY <2>2, EndStepRuns
<1>4. CASE ThisStep(j).inner # 0 /\ r.inner # ThisStep(j).inner
  <2>1. PICK a \in Nat : a = r.inner + 1
    BY <1>1 DEF Row
  <2>2. PICK b \in BOOLEAN : b = (r.innerStop \/ halt)
    OBVIOUS
  <2>3. PICK t \in States : t = IF halt THEN res ELSE r.stepState
    BY <1>1 DEF Row
  <2> DEFINE n == [r EXCEPT !.pc = "inner", !.inner = a, !.attempts = 0, !.innerStop = b,
                            !.stepState = t]
  <2>4. stream' = [stream EXCEPT ![j] = n]
    BY <1>1, <1>4, <2>1, <2>2, <2>3 DEF EndInner, Row
  <2>5. /\ n \in Row /\ n.pc \in Running /\ n.spec = r.spec /\ n.item = r.item
        /\ n.suiteOk = r.suiteOk /\ n.specOk = r.specOk /\ n.state = r.state
    BY <1>1 DEF Row, Pcs, WithItem, Running
  <2> QED
    BY <2>4, <2>5 DEF RunsOn
<1> QED
  BY <1>2, <1>3, <1>4

\* A step of the scenario the stream has in hand, which changes its row only.
ScenarioStep(j) ==
  /\ stream[j].pc \in Running
  /\ RunsOn(j)
  /\ UNCHANGED <<request, shared, counts, record>>

LEMMA ScenarioStepLocal ==
  ASSUME Inv, NEW j \in Streams, ScenarioStep(j)
  PROVE  LocalStep(j)
<1>1. PICK n \in Row : /\ stream' = [stream EXCEPT ![j] = n]
                       /\ n.pc \in Running
                       /\ n.spec = stream[j].spec /\ n.item = stream[j].item
  BY DEF ScenarioStep, RunsOn
<1>2. GoodRow(j, stream[j], n)
  BY <1>1, RowType DEF ScenarioStep, GoodRow, PlacedRow, Running, WithItem
<1> QED
  BY <1>1, <1>2 DEF ScenarioStep, LocalStep, shared, counts, record

LEMMA SkipStepRuns ==
  ASSUME Inv, NEW j \in Streams, SkipStep(j)
  PROVE  ScenarioStep(j)
BY EndStepRuns DEF SkipStep, At, Running, ScenarioStep

LEMMA SkipInnerRuns ==
  ASSUME Inv, NEW j \in Streams, SkipInner(j)
  PROVE  ScenarioStep(j)
<1>1. stream[j].stepState \in States
  BY RowType DEF Row
<1> QED
  BY <1>1, EndInnerRuns DEF SkipInner, At, Running, ScenarioStep

LEMMA GiveUpRuns ==
  ASSUME Inv, NEW j \in Streams, GiveUp(j)
  PROVE  ScenarioStep(j)
<1>1. PICK res \in States : EndInner(j, res, TRUE)
  BY DEF GiveUp, States
<1> QED
  BY <1>1, EndInnerRuns DEF GiveUp, At, Running, ScenarioStep

LEMMA StepReturnsRuns ==
  ASSUME Inv, NEW j \in Streams, NEW res \in Outcomes, StepReturns(j, res)
  PROVE  ScenarioStep(j)
<1>1. res \in States
  BY RunAssumption DEF States
<1>2. RunsOn(j)
  <2>1. CASE CanRetry(j, res)
    <3> DEFINE n == [stream[j] EXCEPT !.pc = "attempt"]
    <3>1. stream' = [stream EXCEPT ![j] = n]
      BY <2>1 DEF StepReturns
    <3>2. /\ n \in Row /\ n.pc \in Running /\ n.spec = stream[j].spec /\ n.item = stream[j].item
          /\ n.suiteOk = stream[j].suiteOk /\ n.specOk = stream[j].specOk
          /\ n.state = stream[j].state
      BY RowType DEF Row, Pcs, WithItem, Running
    <3> QED
      BY <3>1, <3>2 DEF RunsOn
  <2>2. CASE ~CanRetry(j, res)
    <3>1. EndInner(j, res, res \in {"FAILED", "TEST_ERROR"})
      BY <2>2 DEF StepReturns
    <3>2. \E halt \in BOOLEAN : EndInner(j, res, halt)
      <4> WITNESS (res \in {"FAILED", "TEST_ERROR"}) \in BOOLEAN
      <4> QED
        BY <3>1
    <3> QED
      BY <1>1, <3>2, EndInnerRuns
  <2> QED
    BY <2>1, <2>2
<1> QED
  BY <1>2 DEF StepReturns, At, Running, ScenarioStep

LEMMA BeforeScenarioRuns ==
  ASSUME Inv, NEW j \in Streams, NEW ok \in BOOLEAN, BeforeScenario(j, ok)
  PROVE  ScenarioStep(j)
<1> DEFINE r == stream[j]
<1>1. r \in Row
  BY RowType
<1>2. PICK b \in BOOLEAN : b = StopAt(r.spec, r.item, 1, ~ok)
  BY DEF StopAt
<1>3. PICK t \in States : t = IF ok THEN "PASSED" ELSE "TEST_ERROR"
  BY DEF States
<1> DEFINE n == [r EXCEPT !.pc = "step", !.step = 1, !.state = t, !.stop = b, !.anySkipped = FALSE]
<1>4. stream' = [stream EXCEPT ![j] = n]
  BY <1>2, <1>3 DEF BeforeScenario
<1>5. /\ n \in Row /\ n.pc \in Running /\ n.spec = r.spec /\ n.item = r.item
      /\ n.suiteOk = r.suiteOk /\ n.specOk = r.specOk /\ n.state = t
  BY <1>1 DEF Row, Pcs, WithItem, Running
<1>6. RunsOn(j)
  BY <1>3, <1>4, <1>5 DEF RunsOn, Failure
<1> QED
  BY <1>6 DEF BeforeScenario, At, Running, ScenarioStep

LEMMA AfterScenarioLocal ==
  ASSUME Inv, NEW j \in Streams, NEW ok \in BOOLEAN, AfterScenario(j, ok)
  PROVE  LocalStep(j)
<1> DEFINE r == stream[j]
<1>1. r \in Row /\ PlacedRow(j, r)
  BY RowType
<1>2. PICK t \in States :
        stream' = [stream EXCEPT ![j] = [r EXCEPT !.pc = "apply", !.step = 0, !.stop = FALSE,
                                                  !.state = t, !.anySkipped = FALSE]]
  BY <1>1 DEF AfterScenario, Row, States
<1> DEFINE n == [r EXCEPT !.pc = "apply", !.step = 0, !.stop = FALSE, !.state = t,
                          !.anySkipped = FALSE]
<1>3. GoodRow(j, r, n)
  BY <1>1 DEF AfterScenario, At, GoodRow, Row, PlacedRow, Pcs, WithItem, Running
<1> QED
  BY <1>2, <1>3 DEF LocalStep, AfterScenario, shared, counts, record

-----------------------------------------------------------------------------
(* Counting and publishing.                                                *)

LEMMA CountedMore ==
  ASSUME NEW c \in Counters, NEW state
  PROVE  /\ Counted(c, state) \in Counters /\ NoLess(Counted(c, state), c)
         /\ Counted(c, state).failed > 0 => c.failed > 0 \/ state \in Failure
BY DEF Counted, Counters, NoLess

LEMMA ApplyOutcomeKeeps ==
  ASSUME Inv, NEW j \in Streams, ApplyOutcome(j)
  PROVE  Keeps
<1> DEFINE r == stream[j]
<1>1. r \in Row /\ PlacedRow(j, r) /\ r.pc = "apply"
  BY RowType DEF ApplyOutcome, At
<1>2. PICK c \in Counters : /\ c = Counted(status, r.state)
                           /\ NoLess(c, status)
                           /\ (c.failed > 0 => status.failed > 0 \/ r.state \in Failure)
  BY CountedMore DEF Inv, TypeOK
<1> DEFINE n == [r EXCEPT !.pc = "publish", !.snap = c]
<1>3. /\ stream' = [stream EXCEPT ![j] = n] /\ status' = c
      /\ UNCHANGED <<request, polled, results>> /\ runMutex = 0 /\ runMutex' = j
  BY <1>2 DEF ApplyOutcome, record
<1>4. n \in Row /\ n.pc = "publish" /\ n.state = r.state /\ n.snap = c /\ PlacedRow(j, n)
  BY <1>1 DEF Row, Pcs, WithItem, Running, PlacedRow
<1>5. /\ Streams' = Streams /\ Items' = Items /\ Specs' = Specs /\ Plan' = Plan
      /\ \A s, k : Bucket(s, k)' = Bucket(s, k)
  BY <1>3, Fixed
<1>6. /\ stream \in [Streams -> Row] /\ stream' \in [Streams -> Row] /\ stream'[j] = n
      /\ \A i \in Streams : i # j => stream'[i] = stream[i]
  BY <1>3, <1>4 DEF Inv, TypeOK
<1>7. Streams \subseteq Nat \ {0}
  BY StreamCountType DEF Inv, TypeOK, Streams
<1>8. failFastTriggered \in BOOLEAN /\ failFastTriggered' \in BOOLEAN
  BY DEF ApplyOutcome, Inv, TypeOK
<1>9. TypeOK'
  BY <1>2, <1>3, <1>5, <1>6, <1>7, <1>8 DEF Inv, TypeOK
<1>10. Locked'
  <2>1. \A i \in Streams : stream[i].pc # "publish"
    BY <1>3, <1>7 DEF Inv, Locked
  <2>2. NoLess(status', polled')
    BY <1>2, <1>3 DEF Inv, Locked, TypeOK, NoLess, Counters
  <2> QED
    BY <1>3, <1>4, <1>5, <1>6, <2>1, <2>2 DEF Locked
<1>11. Placed'
  <2> SUFFICES ASSUME NEW i \in Streams PROVE PlacedRow(i, stream[i])'
    BY <1>5 DEF Placed
  <2>1. PlacedRow(i, stream'[i])
    BY <1>4, <1>6 DEF Inv, Placed
  <2> QED
    BY <2>1, <1>5 DEF PlacedRow
<1>12. Flagged'
  BY <1>2, <1>3 DEF ApplyOutcome, Inv, Flagged
<1>13. NoLess(polled', polled)
  BY <1>3 DEF Inv, TypeOK, Counters, NoLess
<1>14. Underway' \subseteq Underway
  <2>1. \A i \in Streams : stream'[i].pc \in Running => i # j
    BY <1>4, <1>6 DEF Running
  <2> QED
    BY <1>5, <1>6, <2>1 DEF Underway
<1> QED
  BY <1>9, <1>10, <1>11, <1>12, <1>13, <1>14 DEF Inv, Keeps, NothingStarts

LEMMA PublishKeeps ==
  ASSUME Inv, NEW j \in Streams, Publish(j)
  PROVE  Keeps
<1> DEFINE r     == stream[j]
           here  == <<r.spec, r.item>>
           items == ItemsAfter(j, r.spec, r.item)
<1>1. /\ r \in Row /\ r.pc = "publish" /\ here \in Items /\ r.spec \in Specs
      /\ Bucket(r.spec, r.item) = j
  BY RowType DEF Publish, At, PlacedRow, WithItem
<1>2. PICK n \in Row : /\ stream' = [stream EXCEPT ![j] = n]
                       /\ n.pc \in {"item", "after_spec", "spec"}
                       /\ PlacedRow(j, n)
  <2>1. CASE items = {}
    <3> DEFINE n == [r EXCEPT !.snap = NoCounts, !.state = "PASSED", !.item = 0,
                              !.pc = IF r.suiteOk THEN "after_spec" ELSE "spec"]
    <3>1. stream' = [stream EXCEPT ![j] = n]
      BY <2>1 DEF Publish
    <3>2. n \in Row /\ n.pc \in {"after_spec", "spec"} /\ PlacedRow(j, n)
      BY <1>1 DEF Row, Pcs, WithItem, Running, States, Counters, NoCounts, PlacedRow
    <3> QED
      BY <3>1, <3>2
  <2>2. CASE items # {}
    <3>1. PICK i : i = Least(items)
      OBVIOUS
    <3>2. i \in Nat /\ i \in DOMAIN Plan[r.spec].items /\ <<r.spec, i>> \in Items
            /\ Bucket(r.spec, i) = j
      BY <1>1, <2>2, <3>1, NextItem
    <3> DEFINE n == [r EXCEPT !.snap = NoCounts, !.state = "PASSED", !.item = i, !.pc = "item"]
    <3>3. stream' = [stream EXCEPT ![j] = n]
      BY <2>2, <3>1 DEF Publish
    <3>4. n \in Row /\ n.pc = "item" /\ PlacedRow(j, n)
      BY <1>1, <3>2 DEF Row, Pcs, WithItem, Running, States, Counters, NoCounts, PlacedRow
    <3> QED
      BY <3>3, <3>4
  <2> QED
    BY <2>1, <2>2
<1>3. /\ UNCHANGED <<request, status, failFastTriggered>> /\ runMutex' = 0 /\ polled' = r.snap
      /\ results' = [results EXCEPT ![here] = r.state]
  BY DEF Publish, shared
<1>4. r.snap = status /\ \A i \in Streams : i # j => stream[i].pc # "publish"
  BY <1>1 DEF Inv, Locked
<1>5. /\ Streams' = Streams /\ Items' = Items /\ Specs' = Specs /\ Plan' = Plan
      /\ \A s, k : Bucket(s, k)' = Bucket(s, k)
  BY <1>3, Fixed
<1>6. /\ stream \in [Streams -> Row] /\ stream' \in [Streams -> Row] /\ stream'[j] = n
      /\ \A i \in Streams : i # j => stream'[i] = stream[i]
  BY <1>2 DEF Inv, TypeOK
<1>7. TypeOK'
  BY <1>1, <1>3, <1>4, <1>5, <1>6 DEF Inv, TypeOK, Row
<1>8. Locked'
  BY <1>2, <1>3, <1>4, <1>5, <1>6 DEF Inv, Locked, TypeOK, Counters, NoLess
<1>9. Placed'
  <2> SUFFICES ASSUME NEW i \in Streams PROVE PlacedRow(i, stream[i])'
    BY <1>5 DEF Placed
  <2>1. PlacedRow(i, stream'[i])
    BY <1>2, <1>6 DEF Inv, Placed
  <2> QED
    BY <2>1, <1>5 DEF PlacedRow
<1>10. Flagged'
  BY <1>3 DEF Inv, Flagged
<1>11. NoLess(polled', polled)
  BY <1>3, <1>4 DEF Inv, Locked
<1>12. Underway' \subseteq Underway
  <2>1. \A i \in Streams : stream'[i].pc \in Running => i # j
    BY <1>2, <1>6 DEF Running
  <2> QED
    BY <1>5, <1>6, <2>1 DEF Underway
<1> QED
  BY <1>7, <1>8, <1>9, <1>10, <1>11, <1>12 DEF Inv, Keeps, NothingStarts

\* The steps of no stream: what the streams rest on stays as it is.
LEMMA StillKeeps ==
  ASSUME Inv, UNCHANGED <<request, failFastTriggered, status, runMutex, results, stream>>,
         polled' \in {polled, status}
  PROVE  Keeps
<1>1. /\ Streams' = Streams /\ Items' = Items /\ Specs' = Specs /\ Plan' = Plan
      /\ \A s, k : Bucket(s, k)' = Bucket(s, k)
  BY Fixed
<1>2. Underway' = Underway
  BY <1>1 DEF Underway
<1>3. TypeOK'
  BY <1>1 DEF Inv, TypeOK
<1>4. Locked'
  BY <1>1 DEF Inv, Locked, TypeOK, Counters, NoLess
<1>5. Placed'
  BY <1>1 DEF Inv, Placed, PlacedRow
<1>6. Flagged'
  BY DEF Inv, Flagged
<1>7. NoLess(polled', polled)
  BY DEF Inv, Locked, TypeOK, Counters, NoLess
<1> QED
  BY <1>2, <1>3, <1>4, <1>5, <1>6, <1>7 DEF Inv, Keeps, NothingStarts

-----------------------------------------------------------------------------
(* The specification.                                                      *)

LEMMA InitInv == Init => Inv
<1> SUFFICES ASSUME Init PROVE Inv
  OBVIOUS
<1>1. NoCounts \in Counters /\ Idle \in Row
  BY DEF NoCounts, Counters, Idle, Row, Pcs, WithItem, Running, States
<1>2. TypeOK
  BY <1>1 DEF Init, TypeOK
<1>3. \A j \in Streams : stream[j].pc = "before_suite"
  BY DEF Init, Idle
<1>4. Locked
  BY <1>3 DEF Init, Locked, NoLess, NoCounts
<1>5. Placed
  BY <1>3 DEF Placed, PlacedRow, WithItem, Running
<1>6. Flagged
  BY DEF Flagged, Init, NoCounts
<1> QED
  BY <1>2, <1>4, <1>5, <1>6 DEF Inv

LEMMA StreamStepKeeps ==
  ASSUME Inv, NEW j \in Streams, StreamStep(j)
  PROVE  Keeps
<1>1. CASE ApplyOutcome(j)
  BY <1>1, ApplyOutcomeKeeps
<1>2. CASE Publish(j)
  BY <1>2, PublishKeeps
<1>3. ASSUME NEW res \in Outcomes, StepReturns(j, res) PROVE LocalStep(j)
  BY <1>3, StepReturnsRuns, ScenarioStepLocal
<1>4. ASSUME NEW ok \in BOOLEAN,
             \/ BeforeSuite(j, ok) \/ BeforeSpec(j, ok) \/ BeforeScenario(j, ok)
             \/ AfterScenario(j, ok) \/ AfterSpec(j, ok) \/ AfterSuite(j, ok)
      PROVE  LocalStep(j)
  BY <1>4, BeforeSuiteLocal, BeforeSpecLocal, BeforeScenarioRuns, ScenarioStepLocal,
     AfterScenarioLocal, AfterSpecLocal, AfterSuiteLocal
<1>5. CASE \/ SeesDeadline(j) \/ RecordTimeout(j)
           \/ SkipSpec(j) \/ LoadError(j) \/ EnterSpec(j) \/ SkipItem(j) \/ StartScenario(j)
           \/ SkipStep(j) \/ BeginStep(j) \/ SkipInner(j) \/ BeginInner(j) \/ Attempt(j) \/ GiveUp(j)
  <2>1. LocalStep(j)
    BY <1>5, SeesDeadlineLocal, RecordTimeoutLocal, SkipSpecLocal, LoadErrorLocal, EnterSpecLocal,
       SkipItemLocal, StartScenarioLocal, SkipStepRuns, BeginStepLocal, SkipInnerRuns,
       BeginInnerLocal, AttemptLocal, GiveUpRuns, ScenarioStepLocal
  <2> QED
    BY <2>1, LocalStepKeeps
<1> QED
  BY <1>1, <1>2, <1>3, <1>4, <1>5, LocalStepKeeps DEF StreamStep

LEMMA NextInv == Inv /\ [Next]_vars => Keeps
<1> SUFFICES ASSUME Inv, [Next]_vars PROVE Keeps
  OBVIOUS
<1>1. CASE Cancel \/ DeadlinePasses
  BY <1>1, StillKeeps DEF Cancel, DeadlinePasses, counts, record
<1>2. ASSUME NEW j \in Streams, StreamStep(j) PROVE Keeps
  BY <1>2, StreamStepKeeps
<1>3. CASE CloseSpec
  BY <1>3, StillKeeps DEF CloseSpec, shared
<1>4. CASE Finish
  BY <1>4, StillKeeps DEF Finish, shared, counts
<1>5. CASE UNCHANGED vars
  BY <1>5, StillKeeps DEF vars, shared, counts, record
<1> QED
  BY <1>1, <1>2, <1>3, <1>4, <1>5 DEF Next

LEMMA RunInvariant == Spec => []Inv
<1>1. Init => Inv
  BY InitInv
<1>2. Inv /\ [Next]_vars => Inv'
  BY NextInv DEF Keeps
<1> QED
  BY <1>1, <1>2, PTL DEF Spec

\* What a client polls of a running test never goes backwards, for any number of
\* streams: applyScenarioOutcome copies the counters and publishes them under one lock.
THEOREM RunPolledNeverBack == Spec => PolledNeverBack
<1>1. Inv /\ [Next]_vars =>
        [/\ polled'.executed >= polled.executed
         /\ polled'.passed >= polled.passed
         /\ polled'.failed >= polled.failed
         /\ polled'.skipped >= polled.skipped]_polled
  BY NextInv DEF Keeps, NoLess
<1> QED
  BY <1>1, RunInvariant, PTL DEF Spec, PolledNeverBack

\* With fail_fast no stream starts a scenario once a failure was counted in any of
\* them, for any plan and any number of streams: applyScenarioOutcome raises the flag
\* all streams read under the lock it counts under.
THEOREM RunFailFastBounds == Spec => FailFastBounds
<1>1. Inv /\ [Next]_vars =>
        [request.failFast /\ status.failed > 0 => Underway' \subseteq Underway]_vars
  BY NextInv DEF Keeps, NothingStarts
<1> QED
  BY <1>1, RunInvariant, PTL DEF Spec, FailFastBounds

-----------------------------------------------------------------------------
(* Every scenario accounted for, and the verdict: the inductive invariant. *)

Skips == {"SKIPPED", "CANCELLED"}

\* Why a scenario of specification s may have been skipped ...
Stopped   == cancelled \/ timedOut \/ failFastTriggered \/ errors["before_suite"] > 0
Reason(s) == Stopped \/ "before_spec" \in hookErrors[s]

\* ... and why a whole specification.
Excused == Sequential /\ Stopped

\* A stream with row r has left item i, or specification s, behind.
Behind(r, i) ==
  \/ r.pc = "done"
  \/ i[1] < r.spec
  \/ i[1] = r.spec /\ (r.pc \in {"before_suite", "spec", "after_spec"} \/ (r.pc \in WithItem /\ i[2] < r.item))

Working(r, s) ==
  IF Sequential THEN r.spec < s \/ (r.spec = s /\ r.pc \notin {"before_suite", "spec", "done"})
  ELSE r.pc # "done"

AccountTypes ==
  /\ errors \in [ErrorKinds -> Nat]
  /\ cancelled \in BOOLEAN /\ timedOut \in BOOLEAN
  /\ specState \in [Specs -> States \cup {"none"}]
  /\ hookErrors \in [Specs -> SUBSET {"before_spec", "after_spec"}]
  /\ final \in States \cup {"none"}

\* What a row says of its hooks and of the reason to skip.
RowSays(r) ==
  /\ ~r.suiteOk => errors["before_suite"] > 0
  /\ r.pc = "before_spec" => r.suiteOk
  /\ ~r.specOk => /\ r.suiteOk
                  /\ r.pc \in WithItem \cup {"after_spec"}
                  /\ "before_spec" \in hookErrors[r.spec]
  /\ r.state \in Skips => r.pc \in {"apply", "publish"} /\ Reason(r.spec)

Reasons ==
  /\ \A j \in Streams : RowSays(stream[j])
  /\ \A i \in Items : results[i] \in Skips => Reason(i[1])

\* The item of the stream that publishes is counted and not yet collected.
Publishes(j, i, S) ==
  /\ stream[j].pc = "publish" /\ stream[j].state \in S
  /\ i = <<stream[j].spec, stream[j].item>>

Booked(S) == {i \in Items : results[i] \in S \/ \E j \in Streams : Publishes(j, i, S)}

Tallied ==
  /\ status.passed = Cardinality(Booked({"PASSED"}))
  /\ status.failed = Cardinality(Booked(Failure))
  /\ status.skipped = Cardinality(Booked(Skips))
  /\ status.executed = status.passed + status.failed

\* A stream collects the results of its items one after the other.
Walked ==
  \A i \in Items :
    /\ Home(i) \in Streams
    /\ ~Behind(stream[Home(i)], i) => results[i] = "none"
    /\ Behind(stream[Home(i)], i) => results[i] # "none" \/ Excused

FlagEarned == failFastTriggered => Booked(Failure) # {}

PolledFresh == (\A j \in Streams : stream[j].pc # "publish") => polled = status

\* A specification is closed when its scenarios are done, and tells of them.
FailedOf(s) == {k \in DOMAIN Plan[s].items : results[<<s, k>>] \in Failure}

Tells(s, state) ==
  /\ FailedOf(s) # {} => state \in Failure
  /\ state = "FAILED" => FailedOf(s) # {}
  /\ "before_spec" \in hookErrors[s] /\ Plan[s].items # <<>> => state \in Failure

Closing ==
  \A s \in Specs :
    /\ \A j \in Streams : Working(stream[j], s) => specState[s] = "none"
    /\ \A j \in Streams : Sequential /\ stream[j].spec < s => "before_spec" \notin hookErrors[s]
    /\ specState[s] # "none" => Tells(s, specState[s])

Final ==
  /\ errors["timeout"] = IF timedOut THEN 1 ELSE 0
  /\ final # "none" => Joined
  /\ VerdictSound

Account == AccountTypes /\ Reasons /\ Tallied /\ Walked /\ FlagEarned /\ PolledFresh /\ Closing /\ Final

-----------------------------------------------------------------------------
(* A step of one stream that counts and collects nothing.                  *)

FlagsGrow ==
  /\ cancelled => cancelled'
  /\ timedOut => timedOut'
  /\ errors["before_suite"] > 0 => errors'["before_suite"] > 0
  /\ \A s \in Specs : "before_spec" \in hookErrors[s] => "before_spec" \in hookErrors'[s]

\* What a step may do to specification s: nothing, something while it is open, or,
\* in the sequential run, close it.
SpecStep(s, n) ==
  \/ /\ specState'[s] = specState[s]
     /\ "before_spec" \in hookErrors'[s] => "before_spec" \in hookErrors[s]
  \/ specState[s] = "none" /\ specState'[s] = "none"
  \/ Sequential /\ ~Working(n, s) /\ Tells(s, specState[s])'

\* Row n follows r = stream[j]: the stream leaves no item behind without a result
\* but with an excuse, and does not turn back.
Follows(j, r, n) ==
  /\ n \in Row
  /\ n.pc = "publish" <=> r.pc = "publish"
  /\ n.pc = "publish" => n.state = r.state /\ n.spec = r.spec /\ n.item = r.item
  /\ RowSays(n)'
  /\ \A i \in Items : Home(i) = j =>
       /\ Behind(r, i) => Behind(n, i)
       /\ Behind(n, i) => Behind(r, i) \/ Excused'
  /\ r.pc = "done" => n.pc = "done"
  /\ \A s \in Specs :
       /\ Working(n, s) => Working(r, s)
       /\ Sequential /\ n.spec < s =>
            r.spec < s /\ ("before_spec" \in hookErrors'[s] => "before_spec" \in hookErrors[s])
       /\ SpecStep(s, n)

Moves(j) ==
  /\ UNCHANGED <<request, failFastTriggered, status, results, final>>
  /\ polled' \in {polled, status}
  /\ AccountTypes' /\ FlagsGrow
  /\ errors'["timeout"] = IF timedOut' THEN 1 ELSE 0
  /\ \E n : Follows(j, stream[j], n) /\ stream' = [stream EXCEPT ![j] = n]

LEMMA FixedHere ==
  ASSUME request' = request
  PROVE  /\ Plan' = Plan /\ Specs' = Specs /\ Items' = Items /\ Streams' = Streams
         /\ Sequential' = Sequential
         /\ \A i : Home(i)' = Home(i)
         /\ \A r, s : Working(r, s)' = Working(r, s)
BY Fixed DEF Home, Working

LEMMA ReasonsGrow ==
  ASSUME FlagsGrow, request' = request, failFastTriggered => failFastTriggered'
  PROVE  /\ \A s \in Specs : Reason(s) => Reason(s)'
         /\ Excused => Excused'
BY Fixed DEF FlagsGrow, Reason, Excused, Stopped

LEMMA ItemType ==
  ASSUME IsPlan(Plan), NEW i \in Items
  PROVE  /\ i = <<i[1], i[2]>> /\ i[1] \in Specs /\ i[1] \in Nat
         /\ i[2] \in DOMAIN Plan[i[1]].items /\ i[2] \in Nat \ {0}
<1>1. PICK s \in Specs : i \in {s} \X DOMAIN Plan[s].items
  BY DEF Items
<1>2. i = <<i[1], i[2]>> /\ i[1] = s /\ i[2] \in DOMAIN Plan[s].items
  BY <1>1
<1>3. s \in Nat
  BY DEF IsPlan, Specs
<1>4. Plan[s].items \in Seq(Seq(Nat))
  BY SpecType
<1>5. DOMAIN Plan[s].items \subseteq Nat \ {0}
  BY <1>4
<1> QED
  BY <1>2, <1>3, <1>5

\* RowSays of a row that stays survives when the flags only grow.
LEMMA RowSaysGrows ==
  ASSUME Inv, FlagsGrow, request' = request, failFastTriggered => failFastTriggered',
         NEW j \in Streams, RowSays(stream[j])
  PROVE  RowSays(stream[j])'  \/ stream'[j] # stream[j]
<1>1. stream[j] \in Row /\ PlacedRow(j, stream[j])
  BY RowType
<1>2. \A s \in Specs : Reason(s) => Reason(s)'
  BY ReasonsGrow
<1>3. stream[j].pc \in WithItem \cup {"after_spec"} => stream[j].spec \in Specs
  BY <1>1 DEF PlacedRow
<1> QED
  BY <1>1, <1>2, <1>3 DEF RowSays, FlagsGrow, WithItem

LEMMA MovesKeeps ==
  ASSUME Inv, Account, NEW j \in Streams, Moves(j)
  PROVE  Account'
<1> DEFINE r == stream[j]
<1>1. PICK n : Follows(j, r, n) /\ stream' = [stream EXCEPT ![j] = n]
  BY DEF Moves
<1>2. /\ stream \in [Streams -> Row] /\ n \in Row
      /\ stream' \in [Streams -> Row] /\ stream'[j] = n
      /\ \A i \in Streams : i # j => stream'[i] = stream[i]
  BY <1>1 DEF Inv, TypeOK, Follows
<1>3. /\ Plan' = Plan /\ Specs' = Specs /\ Items' = Items /\ Streams' = Streams
      /\ Sequential' = Sequential
      /\ \A i : Home(i)' = Home(i)
      /\ \A x, s : Working(x, s)' = Working(x, s)
  BY FixedHere DEF Moves
<1>4. (\A s \in Specs : Reason(s) => Reason(s)') /\ (Excused => Excused')
  BY ReasonsGrow DEF Moves
<1>5. AccountTypes'
  BY DEF Moves
<1>6. Reasons'
  <2>1. ASSUME NEW i \in Streams PROVE RowSays(stream[i])'
    <3>1. CASE i = j
      BY <1>1, <1>2, <3>1 DEF Follows, RowSays, Reason, Stopped
    <3>2. CASE i # j
      BY <1>2, <3>2, RowSaysGrows DEF Account, Reasons, Moves
    <3> QED
      BY <3>1, <3>2
  <2>2. ASSUME NEW i \in Items, results'[i] \in Skips PROVE Reason(i[1])'
    BY <1>4, <2>2, ItemType, Plans DEF Account, Reasons, Moves
  <2> QED
    BY <1>3, <2>1, <2>2 DEF Reasons
<1>7. \A i, S : \A k \in Streams : Publishes(k, i, S)' <=> Publishes(k, i, S)
  BY <1>1, <1>2 DEF Publishes, Follows
<1>8. \A S : Booked(S)' = Booked(S)
  BY <1>3, <1>7 DEF Booked, Moves
<1>9. Tallied'
  BY <1>8 DEF Tallied, Account, Moves, Failure, Skips
<1>10. Walked'
  <2> SUFFICES ASSUME NEW i \in Items
               PROVE  /\ Home(i) \in Streams
                      /\ ~Behind(stream'[Home(i)], i) => results[i] = "none"
                      /\ Behind(stream'[Home(i)], i) => results[i] # "none" \/ Excused'
    BY <1>3 DEF Walked, Behind, Moves
  <2>1. /\ Home(i) \in Streams
        /\ ~Behind(stream[Home(i)], i) => results[i] = "none"
        /\ Behind(stream[Home(i)], i) => results[i] # "none" \/ Excused
    BY DEF Account, Walked
  <2>2. CASE Home(i) = j
    <3>1. /\ Behind(r, i) => Behind(n, i)
          /\ Behind(n, i) => Behind(r, i) \/ Excused'
      BY <1>1, <2>2 DEF Follows
    <3> QED
      BY <1>2, <1>4, <2>1, <2>2, <3>1
  <2>3. CASE Home(i) # j
    BY <1>2, <1>4, <2>1, <2>3
  <2> QED
    BY <2>2, <2>3
<1>11. FlagEarned'
  BY <1>8 DEF FlagEarned, Account, Moves
<1>12. PolledFresh'
  <2> SUFFICES ASSUME \A i \in Streams : stream'[i].pc # "publish" PROVE polled' = status
    BY <1>3 DEF PolledFresh, Moves
  <2>1. \A i \in Streams : stream[i].pc # "publish"
    BY <1>1, <1>2 DEF Follows
  <2> QED
    BY <2>1 DEF Account, PolledFresh, Moves
<1>13. Closing'
  <2> SUFFICES ASSUME NEW s \in Specs
               PROVE  /\ \A i \in Streams : Working(stream'[i], s) => specState'[s] = "none"
                      /\ \A i \in Streams : Sequential /\ stream'[i].spec < s =>
                           "before_spec" \notin hookErrors'[s]
                      /\ specState'[s] # "none" => Tells(s, specState[s])'
    BY <1>3 DEF Closing
  <2>1. /\ \A i \in Streams : Working(stream[i], s) => specState[s] = "none"
        /\ \A i \in Streams : Sequential /\ stream[i].spec < s => "before_spec" \notin hookErrors[s]
        /\ specState[s] # "none" => Tells(s, specState[s])
    BY DEF Account, Closing
  <2>2. \A i \in Streams : Working(stream'[i], s) => Working(stream[i], s)
    BY <1>1, <1>2 DEF Follows
  <2>3. SpecStep(s, n)
    BY <1>1 DEF Follows
  <2>7. \A i \in Streams : Sequential /\ stream'[i].spec < s => "before_spec" \notin hookErrors'[s]
    <3> SUFFICES ASSUME NEW i \in Streams, Sequential, stream'[i].spec < s
                 PROVE  "before_spec" \notin hookErrors'[s]
      OBVIOUS
    <3>1. i = j
      BY DEF Streams, Sequential
    <3> QED
      BY <1>1, <1>2, <2>1, <3>1 DEF Follows
  <2>4. CASE /\ specState'[s] = specState[s]
             /\ "before_spec" \in hookErrors'[s] => "before_spec" \in hookErrors[s]
    <3>1. FailedOf(s)' = FailedOf(s)
      BY <1>3 DEF FailedOf, Moves
    <3>2. Tells(s, specState[s]) => Tells(s, specState[s])'
      BY <1>3, <2>4, <3>1 DEF Tells
    <3> QED
      BY <2>1, <2>2, <2>4, <2>7, <3>2
  <2>5. CASE specState[s] = "none" /\ specState'[s] = "none"
    BY <2>5, <2>7
  <2>6. CASE Sequential /\ ~Working(n, s) /\ Tells(s, specState[s])'
    <3>1. Streams = {j}
      BY <2>6 DEF Streams, Sequential
    <3> QED
      BY <1>2, <2>6, <2>7, <3>1
  <2> QED
    BY <2>3, <2>4, <2>5, <2>6 DEF SpecStep
<1>14. Final'
  <2>1. Joined => Joined'
    BY <1>1, <1>2, <1>3 DEF Joined, Follows
  <2>2. \A S : ItemsIn(S)' = ItemsIn(S)
    BY <1>3 DEF ItemsIn, Moves
  <2>3. errors'["timeout"] <= 1
    BY DEF Moves
  <2>4. VerdictSound'
    BY <1>3, <2>2, <2>3 DEF Account, Final, VerdictSound, Moves, Failure
  <2> QED
    BY <2>1, <2>4 DEF Account, Final, Moves
<1> QED
  BY <1>5, <1>6, <1>9, <1>10, <1>11, <1>12, <1>13, <1>14 DEF Account

\* The stream stays where it is in the plan.
Stays(r, n) ==
  /\ n \in Row
  /\ n.spec = r.spec /\ n.item = r.item /\ n.suiteOk = r.suiteOk /\ n.specOk = r.specOk
  /\ \/ n.pc = r.pc
     \/ r.pc \in WithItem \ {"publish"} /\ n.pc \in WithItem \ {"publish"}
  /\ \/ n.state = r.state /\ (n.state \in Skips => n.pc = r.pc)
     \/ r.pc # "publish" /\ n.state \notin Skips
     \/ n.pc = "apply" /\ Reason(r.spec)

LEMMA StaysMoves ==
  ASSUME Inv, Account, NEW j \in Streams, NEW n, Stays(stream[j], n),
         stream' = [stream EXCEPT ![j] = n],
         UNCHANGED <<request, cancelled, failFastTriggered, counts, record>>,
         FlagsGrow, AccountTypes', errors'["timeout"] = IF timedOut' THEN 1 ELSE 0
  PROVE  Moves(j)
<1> DEFINE r == stream[j]
<1>1. r \in Row /\ PlacedRow(j, r)
  BY RowType
<1>2. RowSays(r)
  BY DEF Account, Reasons
<1>3. \A s \in Specs : Reason(s) => Reason(s)'
  BY ReasonsGrow
<1>4. \A i \in Items : Behind(r, i) <=> Behind(n, i)
  BY DEF Behind, Stays, WithItem, Running
<1>5. \A s : Working(n, s) => Working(r, s)
  BY DEF Working, Stays, WithItem, Running
<1>6. \A s \in Specs : SpecStep(s, n)
  BY DEF SpecStep, record
<1>7. RowSays(n)'
  <2>1. r.pc \in WithItem \cup {"after_spec"} => r.spec \in Specs
    BY <1>1 DEF PlacedRow
  <2>2. /\ ~n.suiteOk => errors'["before_suite"] > 0
        /\ n.pc = "before_spec" => n.suiteOk
    BY <1>2 DEF RowSays, Stays, FlagsGrow, WithItem, Running
  <2>3. ~n.specOk => /\ n.suiteOk
                     /\ n.pc \in WithItem \cup {"after_spec"}
                     /\ "before_spec" \in hookErrors'[n.spec]
    BY <1>2, <2>1 DEF RowSays, Stays, FlagsGrow
  <2>4. n.state \in Skips => n.pc \in {"apply", "publish"} /\ Reason(n.spec)'
    BY <1>2, <1>3, <2>1 DEF RowSays, Stays, WithItem
  <2> QED
    BY <2>2, <2>3, <2>4 DEF RowSays, Reason, Stopped
<1>8. Follows(j, r, n)
  <2>1. n.pc = "publish" <=> r.pc = "publish"
    BY DEF Stays
  <2>2. n.pc = "publish" => n.state = r.state /\ n.spec = r.spec /\ n.item = r.item
    BY DEF Stays
  <2>3. r.pc = "done" => n.pc = "done"
    BY DEF Stays, WithItem, Running
  <2>4. n \in Row
    BY DEF Stays
  <2> QED
    BY <1>4, <1>5, <1>6, <1>7, <2>1, <2>2, <2>3, <2>4 DEF Follows, Stays, record
<1> QED
  BY <1>8 DEF Moves, counts, record

LEMMA FlagsStay ==
  ASSUME Account, UNCHANGED <<request, shared, record>>
  PROVE  FlagsGrow /\ AccountTypes' /\ errors'["timeout"] = IF timedOut' THEN 1 ELSE 0
<1>1. Specs' = Specs
  BY Fixed
<1> QED
  BY <1>1 DEF Account, AccountTypes, Final, FlagsGrow, shared, record

LEMMA ScenarioStepMoves ==
  ASSUME Inv, Account, NEW j \in Streams, ScenarioStep(j)
  PROVE  Moves(j)
<1> DEFINE r == stream[j]
<1>1. PICK n \in Row : /\ stream' = [stream EXCEPT ![j] = n]
                       /\ n.pc \in Running
                       /\ n.spec = r.spec /\ n.item = r.item
                       /\ n.suiteOk = r.suiteOk /\ n.specOk = r.specOk
                       /\ n.state \in {r.state, "PASSED"} \cup Failure
  BY DEF ScenarioStep, RunsOn
<1>2. r.pc \in Running /\ r.state \notin Skips
  BY DEF ScenarioStep, Account, Reasons, RowSays, Running
<1>3. Stays(r, n)
  BY <1>1, <1>2 DEF Stays, Running, WithItem, Skips, Failure
<1> QED
  BY <1>1, <1>3, FlagsStay, StaysMoves DEF ScenarioStep, shared

LEMMA SeesDeadlineMoves ==
  ASSUME Inv, Account, NEW j \in Streams, SeesDeadline(j)
  PROVE  Moves(j)
<1> DEFINE r == stream[j]
           n == [r EXCEPT !.late = TRUE]
<1>1. r \in Row
  BY RowType
<1>2. stream' = [stream EXCEPT ![j] = n]
  BY DEF SeesDeadline
<1>3. Stays(r, n)
  BY <1>1 DEF Stays, Row
<1> QED
  BY <1>2, <1>3, FlagsStay, StaysMoves DEF SeesDeadline, shared

LEMMA RecordTimeoutMoves ==
  ASSUME Inv, Account, NEW j \in Streams, RecordTimeout(j)
  PROVE  Moves(j)
<1> DEFINE r == stream[j]
           n == [r EXCEPT !.late = FALSE]
<1>1. r \in Row
  BY RowType
<1>2. stream' = [stream EXCEPT ![j] = n]
  BY DEF RecordTimeout
<1>3. Stays(r, n)
  BY <1>1 DEF Stays, Row
<1>4. /\ errors \in [ErrorKinds -> Nat] /\ timedOut \in BOOLEAN
      /\ errors["timeout"] = IF timedOut THEN 1 ELSE 0
  BY DEF Account, AccountTypes, Final
<1>5. PICK e \in Nat : e = IF timedOut THEN errors["timeout"] ELSE errors["timeout"] + 1
  BY <1>4 DEF ErrorKinds
<1>6. errors' = [errors EXCEPT !["timeout"] = e]
  BY <1>5 DEF RecordTimeout
<1>7. errors' \in [ErrorKinds -> Nat] /\ errors'["timeout"] = e
      /\ errors'["before_suite"] = errors["before_suite"]
  BY <1>4, <1>6 DEF ErrorKinds
<1>8. e = 1
  BY <1>4, <1>5
<1>9. Specs' = Specs
  BY Fixed DEF RecordTimeout
<1>10. AccountTypes' /\ FlagsGrow
  BY <1>7, <1>9 DEF Account, AccountTypes, FlagsGrow, RecordTimeout, record
<1> QED
  BY <1>2, <1>3, <1>7, <1>8, <1>10, StaysMoves DEF RecordTimeout

LEMMA SkipItemMoves ==
  ASSUME Inv, Account, NEW j \in Streams, SkipItem(j)
  PROVE  Moves(j)
<1> DEFINE r == stream[j]
<1>1. r \in Row /\ PlacedRow(j, r) /\ RowSays(r) /\ r.pc = "item"
  BY RowType DEF SkipItem, At, Account, Reasons
<1>2. PICK t \in States : t = IF r.suiteOk /\ cancelled THEN "CANCELLED" ELSE "SKIPPED"
  BY DEF States
<1> DEFINE n == [r EXCEPT !.pc = "apply", !.state = t]
<1>3. stream' = [stream EXCEPT ![j] = n]
  BY <1>2 DEF SkipItem
<1>4. Reason(r.spec)
  BY <1>1 DEF SkipItem, RowSays, Reason, Stopped, ShouldStop
<1>5. /\ n \in Row /\ n.pc = "apply"
      /\ n.spec = r.spec /\ n.item = r.item /\ n.suiteOk = r.suiteOk /\ n.specOk = r.specOk
  BY <1>1 DEF Row, Pcs, WithItem, Running
<1>6. Stays(r, n)
  BY <1>1, <1>4, <1>5 DEF Stays, WithItem, Running
<1> QED
  BY <1>3, <1>6, FlagsStay, StaysMoves DEF SkipItem, shared

LEMMA StartScenarioMoves ==
  ASSUME Inv, Account, NEW j \in Streams, StartScenario(j)
  PROVE  Moves(j)
<1> DEFINE r == stream[j]
           n == [r EXCEPT !.pc = "before_scenario"]
<1>1. r \in Row /\ RowSays(r) /\ r.pc = "item"
  BY RowType DEF StartScenario, At, Account, Reasons
<1>2. stream' = [stream EXCEPT ![j] = n]
  BY DEF StartScenario
<1>3. Stays(r, n)
  BY <1>1 DEF Stays, Row, Pcs, WithItem, Running, RowSays
<1> QED
  BY <1>2, <1>3, FlagsStay, StaysMoves DEF StartScenario, shared

LEMMA BeginStepMoves ==
  ASSUME Inv, Account, NEW j \in Streams, BeginStep(j)
  PROVE  Moves(j)
<1> DEFINE r == stream[j]
<1>1. r \in Row /\ RowSays(r) /\ r.pc = "step"
  BY RowType DEF BeginStep, At, Account, Reasons
<1>2. PICK pc \in {"attempt", "inner"}, k \in {0, 1} :
        stream' = [stream EXCEPT ![j] = [r EXCEPT !.pc = pc, !.inner = k]]
  BY DEF BeginStep
<1> DEFINE n == [r EXCEPT !.pc = pc, !.inner = k]
<1>3. /\ n \in Row /\ n.pc = pc /\ n.state = r.state
      /\ n.spec = r.spec /\ n.item = r.item /\ n.suiteOk = r.suiteOk /\ n.specOk = r.specOk
  <2>1. pc \in Pcs /\ k \in Nat
    BY DEF Pcs, WithItem, Running
  <2> QED
    BY <1>1, <2>1 DEF Row
<1>4. Stays(r, n)
  BY <1>1, <1>3 DEF Stays, WithItem, Running, RowSays
<1> QED
  BY <1>2, <1>4, FlagsStay, StaysMoves DEF BeginStep, shared

LEMMA BeginInnerMoves ==
  ASSUME Inv, Account, NEW j \in Streams, BeginInner(j)
  PROVE  Moves(j)
<1> DEFINE r == stream[j]
           n == [r EXCEPT !.pc = "attempt"]
<1>1. r \in Row /\ RowSays(r) /\ r.pc = "inner"
  BY RowType DEF BeginInner, At, Account, Reasons
<1>2. stream' = [stream EXCEPT ![j] = n]
  BY DEF BeginInner
<1>3. Stays(r, n)
  BY <1>1 DEF Stays, Row, Pcs, WithItem, Running, RowSays
<1> QED
  BY <1>2, <1>3, FlagsStay, StaysMoves DEF BeginInner, shared

LEMMA AttemptMoves ==
  ASSUME Inv, Account, NEW j \in Streams, Attempt(j)
  PROVE  Moves(j)
<1> DEFINE r == stream[j]
<1>1. r \in Row /\ RowSays(r) /\ r.pc = "attempt"
  BY RowType DEF Attempt, At, Account, Reasons
<1>2. PICK a \in Nat : a = r.attempts + 1
  BY <1>1 DEF Row
<1> DEFINE n == [r EXCEPT !.pc = "call", !.attempts = a]
<1>3. stream' = [stream EXCEPT ![j] = n]
  BY <1>1, <1>2 DEF Attempt, Row
<1>4. Stays(r, n)
  BY <1>1 DEF Stays, Row, Pcs, WithItem, Running, RowSays
<1> QED
  BY <1>3, <1>4, FlagsStay, StaysMoves DEF Attempt, shared

LEMMA AfterScenarioMoves ==
  ASSUME Inv, Account, NEW j \in Streams, NEW ok \in BOOLEAN, AfterScenario(j, ok)
  PROVE  Moves(j)
<1> DEFINE r == stream[j]
<1>1. r \in Row /\ RowSays(r) /\ r.pc = "step"
  BY RowType DEF AfterScenario, At, Account, Reasons
<1>2. PICK t \in States :
        /\ stream' = [stream EXCEPT ![j] = [r EXCEPT !.pc = "apply", !.step = 0, !.stop = FALSE,
                                                     !.state = t, !.anySkipped = FALSE]]
        /\ t \in Skips => cancelled
  BY <1>1 DEF AfterScenario, Row, States, Skips, RowSays
<1> DEFINE n == [r EXCEPT !.pc = "apply", !.step = 0, !.stop = FALSE, !.state = t,
                          !.anySkipped = FALSE]
<1>3. /\ n \in Row /\ n.pc = "apply" /\ n.state = t
      /\ n.spec = r.spec /\ n.item = r.item /\ n.suiteOk = r.suiteOk /\ n.specOk = r.specOk
  BY <1>1 DEF Row, Pcs, WithItem, Running
<1>4. t \in Skips => Reason(r.spec)
  BY <1>2 DEF Reason, Stopped
<1>5. Stays(r, n)
  BY <1>1, <1>3, <1>4 DEF Stays, WithItem, Running
<1> QED
  BY <1>2, <1>5, FlagsStay, StaysMoves DEF AfterScenario, shared

-----------------------------------------------------------------------------
(* The steps from specification to specification.                          *)

LEMMA LeastBelow ==
  ASSUME NEW S, S \subseteq Nat, NEW x \in S
  PROVE  Least(S) \in S /\ Least(S) \in Nat /\ Least(S) <= x
<1>1. PICK n \in S : \A m \in S : ~(<<m, n>> \in OpToRel(<, Nat))
  BY NatLessThanWellFounded, WFMin
<1>2. ASSUME NEW m \in S PROVE n <= m
  <2>1. <<m, n>> \in Nat \X Nat /\ <<m, n>>[1] = m /\ <<m, n>>[2] = n
    OBVIOUS
  <2>2. ~(m < n)
    BY <1>1, <2>1 DEF OpToRel
  <2> QED
    BY <2>2
<1>3. \E i \in S : \A k \in S : i <= k
  BY <1>2
<1> QED
  BY <1>3 DEF Least

\* The items and specifications ahead of a stream, and the nearest of them.
LEMMA ItemAhead ==
  ASSUME Inv, NEW j \in Streams, NEW i \in Items, Home(i) = j, NEW k \in Nat, i[2] > k
  PROVE  i[2] \in ItemsAfter(j, i[1], k) /\ Least(ItemsAfter(j, i[1], k)) <= i[2]
<1>1. /\ i[1] \in Specs /\ i[2] \in DOMAIN Plan[i[1]].items /\ i[2] \in Nat
  BY Plans, ItemType
<1>2. i[2] \in ItemsAfter(j, i[1], k)
  BY <1>1 DEF ItemsAfter, Home
<1>3. ItemsAfter(j, i[1], k) \subseteq Nat
  <2>1. Plan[i[1]].items \in Seq(Seq(Nat))
    BY <1>1, Plans, SpecType
  <2>2. DOMAIN Plan[i[1]].items \subseteq Nat
    BY <2>1
  <2> QED
    BY <2>2 DEF ItemsAfter
<1> QED
  BY <1>2, <1>3, LeastBelow

LEMMA SpecAhead ==
  ASSUME Inv, NEW j \in Streams, NEW k \in Nat
  PROVE  /\ SpecsAfter(j, k) \subseteq Specs /\ Specs \subseteq Nat
         /\ \A s \in SpecsAfter(j, k) : s > k /\ Least(SpecsAfter(j, k)) <= s
         /\ \A i \in Items : Home(i) = j /\ i[1] > k => i[1] \in SpecsAfter(j, k)
         /\ Sequential => \A s \in Specs : s > k => s \in SpecsAfter(j, k)
<1>1. Specs \subseteq Nat
  BY Plans DEF IsPlan, Specs
<1>2. SpecsAfter(j, k) \subseteq Specs /\ \A s \in SpecsAfter(j, k) : s > k
  BY DEF SpecsAfter
<1>3. \A s \in SpecsAfter(j, k) : Least(SpecsAfter(j, k)) <= s
  BY <1>1, <1>2, LeastBelow
<1>4. ASSUME NEW i \in Items, Home(i) = j, i[1] > k PROVE i[1] \in SpecsAfter(j, k)
  <2>1. i[1] \in Specs /\ i[2] > 0
    BY Plans, ItemType
  <2>2. ItemsAfter(j, i[1], 0) # {}
    BY <1>4, <2>1, ItemAhead
  <2> QED
    BY <1>4, <2>1, <2>2 DEF SpecsAfter
<1>5. Sequential => \A s \in Specs : s > k => s \in SpecsAfter(j, k)
  BY DEF SpecsAfter
<1> QED
  BY <1>1, <1>2, <1>3, <1>4, <1>5

LEMMA BeforeSuiteMoves ==
  ASSUME Inv, Account, NEW j \in Streams, NEW ok \in BOOLEAN, BeforeSuite(j, ok)
  PROVE  Moves(j)
<1> DEFINE r == stream[j]
<1> PICK n : n = [r EXCEPT !.pc = "spec", !.suiteOk = ok]
  OBVIOUS
<1>1. r \in Row /\ PlacedRow(j, r) /\ RowSays(r) /\ r.pc = "before_suite"
  BY RowType DEF BeforeSuite, At, Account, Reasons
<1>2. stream' = [stream EXCEPT ![j] = n]
  BY DEF BeforeSuite
<1>3. /\ n \in Row /\ n.pc = "spec" /\ n.state = r.state /\ n.suiteOk = ok
      /\ n.spec = r.spec /\ n.item = r.item /\ n.specOk = r.specOk
  BY <1>1 DEF Row, Pcs, WithItem, Running
<1>4. errors \in [ErrorKinds -> Nat] /\ errors["timeout"] = IF timedOut THEN 1 ELSE 0
  BY DEF Account, AccountTypes, Final
<1>5. PICK e \in Nat : e = (IF ok THEN errors["before_suite"] ELSE errors["before_suite"] + 1)
                       /\ (errors["before_suite"] > 0 \/ ~ok => e > 0)
  BY <1>4 DEF ErrorKinds
<1>6. errors' = [errors EXCEPT !["before_suite"] = e]
  BY <1>5 DEF BeforeSuite
<1>7. errors' \in [ErrorKinds -> Nat] /\ errors'["before_suite"] = e
      /\ errors'["timeout"] = errors["timeout"]
  BY <1>4, <1>6 DEF ErrorKinds
<1>8. Specs' = Specs
  BY Fixed DEF BeforeSuite
<1>9. AccountTypes' /\ FlagsGrow
  BY <1>5, <1>7, <1>8 DEF Account, AccountTypes, FlagsGrow, BeforeSuite, record
<1>10. RowSays(n)'
  <2>1. r.specOk /\ r.state \notin Skips
    BY <1>1 DEF RowSays, WithItem, Running
  <2>2. ~ok => errors'["before_suite"] > 0
    BY <1>5, <1>7
  <2> QED
    BY <1>3, <2>1, <2>2 DEF RowSays
<1>11. \A i \in Items : Behind(r, i) <=> Behind(n, i)
  BY <1>1, <1>3 DEF Behind, WithItem, Running
<1>12. \A s : Working(n, s) => Working(r, s)
  BY <1>1, <1>3 DEF Working
<1>13. Follows(j, r, n)
  BY <1>1, <1>3, <1>10, <1>11, <1>12 DEF Follows, SpecStep, BeforeSuite, record
<1> QED
  BY <1>2, <1>4, <1>7, <1>9, <1>13 DEF Moves, BeforeSuite, counts, record

LEMMA SkipSpecMoves ==
  ASSUME Inv, Account, NEW j \in Streams, SkipSpec(j)
  PROVE  Moves(j)
<1> DEFINE r == stream[j]
<1>1. r \in Row /\ RowSays(r) /\ r.pc = "spec"
  BY RowType DEF SkipSpec, At, Account, Reasons
<1>2. PICK s : s = Least(SpecsAfter(j, r.spec))
  OBVIOUS
<1>3. s \in Specs /\ s \in Nat /\ r.spec \in Nat
  BY <1>1, <1>2, NextSpec DEF SkipSpec, Row
<1>4. /\ s > r.spec
      /\ \A t \in Specs : t > r.spec => s <= t
      /\ Specs \subseteq Nat
  <2>1. s \in SpecsAfter(j, r.spec)
    BY <1>2, <1>3, SpecAhead, LeastBelow DEF SkipSpec
  <2> QED
    BY <1>2, <1>3, <2>1, SpecAhead DEF SkipSpec
<1> PICK n : n = [r EXCEPT !.spec = s]
  OBVIOUS
<1>5. /\ n \in Row /\ n.pc = "spec" /\ n.state = r.state /\ n.suiteOk = r.suiteOk
      /\ n.spec = s /\ n.item = r.item /\ n.specOk = r.specOk
  BY <1>1, <1>3 DEF Row
<1>6. stream' = [stream EXCEPT ![j] = n]
  BY <1>2 DEF SkipSpec
<1>7. Sequential /\ Stopped
  BY <1>1 DEF SkipSpec, RowSays, Stopped, ShouldStop
<1>8. PICK w \in Skips : specState' = [specState EXCEPT ![s] = w]
  BY <1>2 DEF SkipSpec, Skips
<1>9. Specs' = Specs
  BY Fixed DEF SkipSpec
<1>10. AccountTypes' /\ FlagsGrow
  BY <1>3, <1>8, <1>9 DEF Account, AccountTypes, FlagsGrow, SkipSpec, shared, States, Skips
<1>11. Excused'
  BY <1>7, Fixed DEF Excused, Stopped, SkipSpec, shared
<1>12. RowSays(n)'
  BY <1>1, <1>5 DEF RowSays, SkipSpec, shared, WithItem, Running
<1>13. \A i \in Items : Behind(r, i) => Behind(n, i)
  <2>1. \A i \in Items : i[1] \in Nat
    BY Plans, ItemType
  <2> QED
    BY <1>1, <1>3, <1>4, <1>5, <2>1 DEF Behind, WithItem, Running
<1>14. \A t \in Specs : Working(n, t) => Working(r, t)
  BY <1>1, <1>3, <1>4, <1>5 DEF Working
<1>15. FailedOf(s) = {}
  <2> SUFFICES ASSUME NEW k \in DOMAIN Plan[s].items, results[<<s, k>>] \in Failure PROVE FALSE
    BY DEF FailedOf
  <2>1. <<s, k>> \in Items
    BY <1>3 DEF Items
  <2>2. Home(<<s, k>>) = j
    BY <1>7, <2>1 DEF Account, Walked, Streams, Sequential
  <2>3. ~Behind(r, <<s, k>>)
    BY <1>1, <1>3, <1>4 DEF Behind, WithItem, Running
  <2> QED
    BY <2>1, <2>2, <2>3 DEF Account, Walked, Failure
<1>16. ASSUME NEW t \in Specs PROVE SpecStep(t, n)
  <2>1. CASE t # s
    BY <1>8, <2>1 DEF SpecStep, SkipSpec, Account, AccountTypes
  <2>2. CASE t = s
    <3>1. FailedOf(s)' = FailedOf(s)
      BY Fixed DEF FailedOf, SkipSpec
    <3>2. "before_spec" \notin hookErrors'[s]
      BY <1>3, <1>4, <1>7 DEF Account, Closing, SkipSpec
    <3>3. specState'[s] \in Skips
      BY <1>3, <1>8 DEF Account, AccountTypes
    <3>4. Tells(s, specState[s])'
      BY <1>15, <3>1, <3>2, <3>3 DEF Tells, Skips
    <3>5. ~Working(n, s)
      BY <1>3, <1>5, <1>7 DEF Working
    <3> QED
      BY <1>7, <2>2, <3>4, <3>5 DEF SpecStep
  <2> QED
    BY <2>1, <2>2
<1>17. \A t \in Specs : n.spec < t => r.spec < t
  BY <1>3, <1>4, <1>5
<1>18. Follows(j, r, n)
  BY <1>1, <1>5, <1>11, <1>12, <1>13, <1>14, <1>16, <1>17 DEF Follows, SkipSpec
<1> QED
  BY <1>6, <1>10, <1>18 DEF Moves, SkipSpec, counts, shared, Account, Final

LEMMA LoadErrorMoves ==
  ASSUME Inv, Account, NEW j \in Streams, LoadError(j)
  PROVE  Moves(j)
<1> DEFINE r == stream[j]
<1>1. r \in Row /\ RowSays(r) /\ r.pc = "spec"
  BY RowType DEF LoadError, At, Account, Reasons
<1>2. PICK s : s = Least(SpecsAfter(j, r.spec))
  OBVIOUS
<1>3. s \in Specs /\ s \in Nat /\ r.spec \in Nat
  BY <1>1, <1>2, NextSpec DEF LoadError, Row
<1>4. /\ s > r.spec
      /\ \A t \in Specs : t > r.spec => s <= t
      /\ Specs \subseteq Nat
  <2>1. s \in SpecsAfter(j, r.spec)
    BY <1>2, <1>3, SpecAhead, LeastBelow DEF LoadError
  <2> QED
    BY <1>2, <1>3, <2>1, SpecAhead DEF LoadError
<1> PICK n : n = [r EXCEPT !.spec = s]
  OBVIOUS
<1>5. /\ n \in Row /\ n.pc = "spec" /\ n.state = r.state /\ n.suiteOk = r.suiteOk
      /\ n.spec = s /\ n.item = r.item /\ n.specOk = r.specOk
  BY <1>1, <1>3 DEF Row
<1>6. stream' = [stream EXCEPT ![j] = n]
  BY <1>2 DEF LoadError
<1>7. Sequential /\ ~Plan[s].ok
  BY <1>2 DEF LoadError
<1>8. specState' = [specState EXCEPT ![s] = "TEST_ERROR"]
  BY <1>2 DEF LoadError
<1>9. errors \in [ErrorKinds -> Nat] /\ errors["timeout"] = IF timedOut THEN 1 ELSE 0
  BY DEF Account, AccountTypes, Final
<1>10. PICK e \in Nat : e = errors["load"] + 1
  BY <1>9 DEF ErrorKinds
<1>11. /\ errors' \in [ErrorKinds -> Nat] /\ errors'["timeout"] = errors["timeout"]
       /\ errors'["before_suite"] = errors["before_suite"]
  BY <1>9, <1>10 DEF ErrorKinds, LoadError
<1>12. Specs' = Specs
  BY Fixed DEF LoadError
<1>13. AccountTypes' /\ FlagsGrow
  BY <1>3, <1>8, <1>11, <1>12 DEF Account, AccountTypes, FlagsGrow, LoadError, States
<1>14. RowSays(n)'
  BY <1>1, <1>5, <1>11 DEF RowSays, LoadError, WithItem, Running
<1>15. Plan[s].items = <<>>
  BY <1>3, <1>7, Plans DEF IsPlan, Specs
<1>16. \A i \in Items : Behind(r, i) <=> Behind(n, i)
  <2> TAKE i \in Items
  <2>1. i[1] \in Specs /\ i[1] \in Nat /\ i[1] # s
    BY <1>15, Plans, ItemType
  <2> QED
    BY <1>1, <1>3, <1>4, <1>5, <2>1 DEF Behind, WithItem, Running
<1>17. \A t \in Specs : Working(n, t) => Working(r, t)
  BY <1>1, <1>3, <1>4, <1>5 DEF Working
<1>18. ASSUME NEW t \in Specs PROVE SpecStep(t, n)
  <2>1. CASE t # s
    BY <1>8, <2>1 DEF SpecStep, LoadError, Account, AccountTypes
  <2>2. CASE t = s
    <3>1. specState'[s] = "TEST_ERROR"
      BY <1>3, <1>8 DEF Account, AccountTypes
    <3>2. Tells(s, specState[s])'
      BY <3>1 DEF Tells, Failure
    <3>3. ~Working(n, s)
      BY <1>3, <1>5, <1>7 DEF Working
    <3> QED
      BY <1>7, <2>2, <3>2, <3>3 DEF SpecStep
  <2> QED
    BY <2>1, <2>2
<1>19. \A t \in Specs : n.spec < t => r.spec < t
  BY <1>3, <1>4, <1>5
<1>20. Follows(j, r, n)
  BY <1>1, <1>5, <1>14, <1>16, <1>17, <1>18, <1>19 DEF Follows, LoadError
<1> QED
  BY <1>6, <1>9, <1>11, <1>13, <1>20 DEF Moves, LoadError

LEMMA EnterSpecMoves ==
  ASSUME Inv, Account, NEW j \in Streams, EnterSpec(j)
  PROVE  Moves(j)
<1> DEFINE r == stream[j]
<1>1. r \in Row /\ RowSays(r) /\ r.pc = "spec"
  BY RowType DEF EnterSpec, At, Account, Reasons
<1>2. PICK s \in Specs : /\ s = Least(SpecsAfter(j, r.spec)) /\ s \in Nat
                         /\ ~Sequential => ItemsAfter(j, s, 0) # {}
  BY NextSpec DEF EnterSpec
<1>3. /\ s > r.spec /\ r.spec \in Nat /\ Specs \subseteq Nat
      /\ \A i \in Items : Home(i) = j /\ i[1] > r.spec => s <= i[1]
      /\ Sequential => \A t \in Specs : t > r.spec => s <= t
  <2>1. s \in SpecsAfter(j, r.spec) /\ r.spec \in Nat
    BY <1>1, <1>2, SpecAhead, LeastBelow DEF EnterSpec, Row
  <2> QED
    BY <1>2, <2>1, SpecAhead
<1>4. r.specOk /\ r.state \notin Skips
  BY <1>1 DEF RowSays, WithItem, Running
<1>5. PICK n \in Row :
        /\ stream' = [stream EXCEPT ![j] = n]
        /\ n.spec = s /\ n.state = r.state /\ n.suiteOk = r.suiteOk /\ n.specOk = r.specOk
        /\ \/ n.pc = "before_spec" /\ r.suiteOk
           \/ n.pc = "item" /\ \A i \in Items : Home(i) = j /\ i[1] = s => n.item <= i[2]
  <2>1. CASE r.suiteOk
    <3> DEFINE n == [r EXCEPT !.spec = s, !.pc = "before_spec", !.item = 0]
    <3>1. stream' = [stream EXCEPT ![j] = n]
      BY <1>2, <2>1 DEF EnterSpec
    <3>2. /\ n \in Row /\ n.pc = "before_spec"
          /\ n.spec = s /\ n.state = r.state /\ n.suiteOk = r.suiteOk /\ n.specOk = r.specOk
      BY <1>1, <1>2 DEF Row, Pcs, WithItem, Running
    <3> QED
      BY <2>1, <3>1, <3>2
  <2>2. CASE ~r.suiteOk
    <3>1. ItemsAfter(j, s, 0) # {}
      BY <1>2, <2>2 DEF EnterSpec
    <3>2. PICK k : k = Least(ItemsAfter(j, s, 0))
      OBVIOUS
    <3>3. k \in Nat
      BY <3>1, <3>2, NextItem
    <3> DEFINE n == [r EXCEPT !.spec = s, !.pc = "item", !.item = k]
    <3>4. stream' = [stream EXCEPT ![j] = n]
      BY <1>2, <2>2, <3>2 DEF EnterSpec
    <3>5. /\ n \in Row /\ n.pc = "item" /\ n.item = k
          /\ n.spec = s /\ n.state = r.state /\ n.suiteOk = r.suiteOk /\ n.specOk = r.specOk
      BY <1>1, <1>2, <3>3 DEF Row, Pcs, WithItem, Running
    <3>6. \A i \in Items : Home(i) = j /\ i[1] = s => k <= i[2]
      <4> SUFFICES ASSUME NEW i \in Items, Home(i) = j, i[1] = s PROVE k <= i[2]
        OBVIOUS
      <4>1. i[2] > 0
        BY Plans, ItemType
      <4> QED
        BY <3>2, <4>1, ItemAhead
    <3> HIDE DEF n
    <3> QED
      BY <3>4, <3>5, <3>6
  <2> QED
    BY <2>1, <2>2
<1>6. \A i \in Items : Home(i) = j => (Behind(r, i) <=> Behind(n, i))
  <2> SUFFICES ASSUME NEW i \in Items, Home(i) = j PROVE Behind(r, i) <=> Behind(n, i)
    OBVIOUS
  <2>1. i[1] \in Nat /\ i[2] \in Nat /\ n.item \in Nat
    BY Plans, ItemType DEF Row
  <2>2. i[1] > r.spec => s <= i[1]
    BY <1>3
  <2>3. i[1] = s => ~(n.pc \in WithItem /\ i[2] < n.item)
    BY <1>5, <2>1 DEF WithItem, Running
  <2>4. n.pc \notin {"done", "before_suite", "spec", "after_spec"}
    BY <1>5
  <2>5. Behind(n, i) <=> i[1] < s
    BY <1>5, <2>3, <2>4 DEF Behind
  <2>6. Behind(r, i) <=> i[1] <= r.spec
    BY <1>1, <1>3, <2>1 DEF Behind, WithItem, Running
  <2> QED
    BY <1>2, <1>3, <2>1, <2>2, <2>5, <2>6
<1>7. \A t \in Specs : Working(n, t) => Working(r, t)
  BY <1>1, <1>2, <1>3, <1>5 DEF Working
<1>8. RowSays(n)'
  BY <1>1, <1>4, <1>5 DEF RowSays, EnterSpec, shared
<1>9. \A t \in Specs : n.spec < t => r.spec < t
  BY <1>2, <1>3, <1>5
<1>10. \A t \in Specs : SpecStep(t, n)
  BY DEF SpecStep, EnterSpec, record
<1>11. Follows(j, r, n)
  BY <1>1, <1>5, <1>6, <1>7, <1>8, <1>9, <1>10 DEF Follows, EnterSpec, record
<1> QED
  BY <1>5, <1>11, FlagsStay DEF Moves, EnterSpec, shared, record

LEMMA BeforeSpecMoves ==
  ASSUME Inv, Account, NEW j \in Streams, NEW ok \in BOOLEAN, BeforeSpec(j, ok)
  PROVE  Moves(j)
<1> DEFINE r == stream[j]
           s == r.spec
           items == ItemsAfter(j, s, 0)
<1>1. r \in Row /\ RowSays(r) /\ r.pc = "before_spec" /\ s \in Specs /\ s \in Nat
  BY RowType DEF BeforeSpec, At, Account, Reasons, PlacedRow, Row
<1>2. r.suiteOk /\ r.specOk /\ r.state \notin Skips
  BY <1>1 DEF RowSays, WithItem, Running
<1>3. PICK n \in Row :
        /\ stream' = [stream EXCEPT ![j] = n]
        /\ n.spec = s /\ n.state = r.state /\ n.suiteOk = r.suiteOk /\ n.specOk = ok
        /\ \/ n.pc = "after_spec" /\ \A i \in Items : ~(Home(i) = j /\ i[1] = s)
           \/ n.pc = "item" /\ \A i \in Items : Home(i) = j /\ i[1] = s => n.item <= i[2]
  <2>1. \A i \in Items : Home(i) = j /\ i[1] = s => i[2] \in items /\ Least(items) <= i[2]
    <3> SUFFICES ASSUME NEW i \in Items, Home(i) = j, i[1] = s
                 PROVE  i[2] \in items /\ Least(items) <= i[2]
      OBVIOUS
    <3>1. i[2] > 0
      BY Plans, ItemType
    <3> QED
      BY <3>1, ItemAhead
  <2>2. CASE items = {}
    <3> DEFINE n == [r EXCEPT !.specOk = ok, !.pc = "after_spec", !.item = 0]
    <3>1. stream' = [stream EXCEPT ![j] = n]
      BY <2>2 DEF BeforeSpec
    <3>2. /\ n \in Row /\ n.pc = "after_spec"
          /\ n.spec = s /\ n.state = r.state /\ n.suiteOk = r.suiteOk /\ n.specOk = ok
      BY <1>1 DEF Row, Pcs, WithItem, Running
    <3> QED
      BY <2>1, <2>2, <3>1, <3>2
  <2>3. CASE items # {}
    <3>1. PICK k : k = Least(items)
      OBVIOUS
    <3>2. k \in Nat
      BY <1>1, <2>3, <3>1, NextItem
    <3> DEFINE n == [r EXCEPT !.specOk = ok, !.pc = "item", !.item = k]
    <3>3. stream' = [stream EXCEPT ![j] = n]
      BY <2>3, <3>1 DEF BeforeSpec
    <3>4. /\ n \in Row /\ n.pc = "item" /\ n.item = k
          /\ n.spec = s /\ n.state = r.state /\ n.suiteOk = r.suiteOk /\ n.specOk = ok
      BY <1>1, <3>2 DEF Row, Pcs, WithItem, Running
    <3> HIDE DEF n
    <3> QED
      BY <2>1, <3>1, <3>3, <3>4
  <2> QED
    BY <2>2, <2>3
<1>4. hookErrors' = [hookErrors EXCEPT ![s] = IF ok THEN @ ELSE @ \cup {"before_spec"}]
  BY DEF BeforeSpec
<1>5. /\ \A t \in Specs : t # s => hookErrors'[t] = hookErrors[t]
      /\ hookErrors[s] \subseteq hookErrors'[s]
      /\ ~ok => "before_spec" \in hookErrors'[s]
      /\ hookErrors' \in [Specs -> SUBSET {"before_spec", "after_spec"}]
  BY <1>1, <1>4 DEF Account, AccountTypes
<1>6. Specs' = Specs
  BY Fixed DEF BeforeSpec
<1>7. AccountTypes' /\ FlagsGrow
  BY <1>5, <1>6 DEF Account, AccountTypes, FlagsGrow, BeforeSpec, shared
<1>8. \A i \in Items : Home(i) = j => (Behind(r, i) <=> Behind(n, i))
  <2> SUFFICES ASSUME NEW i \in Items, Home(i) = j PROVE Behind(r, i) <=> Behind(n, i)
    OBVIOUS
  <2>1. i[1] \in Nat /\ i[2] \in Nat /\ n.item \in Nat
    BY Plans, ItemType DEF Row
  <2>2. i[1] = s => n.pc = "item" /\ ~(i[2] < n.item)
    BY <1>3, <2>1
  <2>3. Behind(n, i) <=> i[1] < s
    BY <1>3, <2>2 DEF Behind
  <2>4. Behind(r, i) <=> i[1] < s
    BY <1>1 DEF Behind, WithItem, Running
  <2> QED
    BY <2>3, <2>4
<1>9. \A t \in Specs : Working(n, t) => Working(r, t)
  BY <1>1, <1>3 DEF Working
<1>10. RowSays(n)'
  BY <1>2, <1>3, <1>5 DEF RowSays, WithItem
<1>11. ASSUME NEW t \in Specs PROVE SpecStep(t, n)
  <2>1. CASE t # s
    BY <1>5, <2>1 DEF SpecStep, BeforeSpec
  <2>2. CASE t = s
    <3>1. Working(r, s)
      BY <1>1 DEF Working
    <3> QED
      BY <2>2, <3>1 DEF SpecStep, BeforeSpec, Account, Closing
  <2> QED
    BY <2>1, <2>2
<1>12. \A t \in Specs : n.spec < t => hookErrors'[t] = hookErrors[t]
  BY <1>1, <1>3, <1>5
<1>13. Follows(j, r, n)
  BY <1>1, <1>3, <1>8, <1>9, <1>10, <1>11, <1>12 DEF Follows
<1> QED
  BY <1>3, <1>7, <1>13 DEF Moves, BeforeSpec, shared, counts, Account, Final

\* What SpecVerdict says of a specification.
LEMMA SpecVerdictTells ==
  ASSUME Inv, NEW s \in Specs, NEW hooks, NEW v, v = SpecVerdict(s, hooks)
  PROVE  /\ v \in States
         /\ FailedOf(s) # {} => v \in Failure
         /\ v = "FAILED" => FailedOf(s) # {}
         /\ "before_spec" \in hooks /\ Plan[s].items # <<>> => v \in Failure
<1> DEFINE With(S) == Cardinality({k \in DOMAIN Plan[s].items : results[<<s, k>>] \in S})
           total   == Len(Plan[s].items)
<1>1. Plan[s].items \in Seq(Seq(Nat))
  BY Plans, SpecType
<1>2. /\ DOMAIN Plan[s].items = 1..total /\ total \in Nat
      /\ total = 0 <=> Plan[s].items = <<>>
  BY <1>1
<1>3. \A S : /\ With(S) \in Nat
             /\ With(S) = 0 <=> ~\E k \in DOMAIN Plan[s].items : results[<<s, k>>] \in S
  <2> TAKE S
  <2> DEFINE K == {k \in DOMAIN Plan[s].items : results[<<s, k>>] \in S}
  <2>1. IsFiniteSet(DOMAIN Plan[s].items)
    BY <1>2, FS_Interval
  <2>2. IsFiniteSet(K)
    BY <2>1, FS_Subset
  <2> QED
    BY <2>2, FS_CardinalityType, FS_EmptySet
<1>4. PICK f \in Nat, e \in Nat, sk \in Nat, ran \in Nat :
        /\ f = With({"FAILED"}) /\ e = With({"TEST_ERROR"}) /\ sk = With({"SKIPPED", "CANCELLED"})
        /\ ran = With({"PASSED", "FAILED", "TEST_ERROR"})
  BY <1>3
<1> HIDE DEF With, total
<1>5. /\ f > 0 => FailedOf(s) # {}
      /\ FailedOf(s) # {} => (f > 0 \/ e > 0) /\ ran > 0
  <2>1. ASSUME f > 0 PROVE FailedOf(s) # {}
    <3>1. With({"FAILED"}) # 0
      BY <1>4, <2>1
    <3>2. PICK k \in DOMAIN Plan[s].items : results[<<s, k>>] \in {"FAILED"}
      BY <1>3, <3>1
    <3> QED
      BY <3>2 DEF FailedOf, Failure
  <2>2. ASSUME FailedOf(s) # {} PROVE (f > 0 \/ e > 0) /\ ran > 0
    <3>1. PICK k \in DOMAIN Plan[s].items : results[<<s, k>>] \in {"FAILED", "TEST_ERROR"}
      BY <2>2 DEF FailedOf, Failure
    <3>2. With({"PASSED", "FAILED", "TEST_ERROR"}) # 0
      BY <1>3, <3>1
    <3>3. With({"FAILED"}) # 0 \/ With({"TEST_ERROR"}) # 0
      BY <1>3, <3>1
    <3> QED
      BY <1>4, <3>2, <3>3
  <2> QED
    BY <2>1, <2>2
<1>6. total = 0 => FailedOf(s) = {}
  BY <1>2 DEF FailedOf
<1>7. PICK g : g = Aggregate(f, e, sk, total, cancelled /\ ran = 0)
  OBVIOUS
<1>8. /\ g \in States
      /\ g = "FAILED" => f > 0
      /\ ran > 0 /\ (f > 0 \/ e > 0) => g \in Failure
  BY <1>4, <1>7 DEF Aggregate, States, Failure
<1>9. v = IF ~Plan[s].ok THEN "TEST_ERROR"
          ELSE IF Sequential /\ total = 0 THEN "SKIPPED"
          ELSE IF (IF Sequential THEN "before_spec" \in hooks ELSE hooks # {}) THEN "TEST_ERROR"
          ELSE IF total = 0 THEN "SKIPPED"
          ELSE g
  BY <1>4, <1>7 DEF SpecVerdict, With, total
<1>10. ~Plan[s].ok => Plan[s].items = <<>>
  BY Plans DEF IsPlan, Specs
<1>11. v \in {"TEST_ERROR", "SKIPPED", g}
  BY <1>9
<1> QED
  BY <1>2, <1>5, <1>6, <1>8, <1>9, <1>10 DEF States, Failure

LEMMA AfterSpecMoves ==
  ASSUME Inv, Account, NEW j \in Streams, NEW ok \in BOOLEAN, AfterSpec(j, ok)
  PROVE  Moves(j)
<1> DEFINE r == stream[j]
<1> PICK s, n : s = r.spec /\ n = [r EXCEPT !.pc = "spec", !.specOk = TRUE]
  OBVIOUS
<1>1. r \in Row /\ RowSays(r) /\ r.pc = "after_spec" /\ s \in Specs /\ s \in Nat
  BY RowType DEF AfterSpec, At, Account, Reasons, PlacedRow, Row
<1>2. r.state \notin Skips
  BY <1>1 DEF RowSays
<1>3. stream' = [stream EXCEPT ![j] = n]
  BY DEF AfterSpec
<1>4. /\ n \in Row /\ n.pc = "spec" /\ n.state = r.state /\ n.suiteOk = r.suiteOk
      /\ n.spec = s /\ n.item = r.item /\ n.specOk = TRUE
  BY <1>1 DEF Row, Pcs, WithItem, Running
<1>5. PICK hooks : /\ hooks = IF ok THEN hookErrors[s] ELSE hookErrors[s] \cup {"after_spec"}
                   /\ hookErrors' = [hookErrors EXCEPT ![s] = hooks]
  BY DEF AfterSpec
<1>6. /\ hookErrors' \in [Specs -> SUBSET {"before_spec", "after_spec"}]
      /\ hookErrors'[s] = hooks
      /\ \A t \in Specs : "before_spec" \in hookErrors'[t] <=> "before_spec" \in hookErrors[t]
  BY <1>1, <1>5 DEF Account, AccountTypes
<1>7. PICK v : v = SpecVerdict(s, hooks)
  OBVIOUS
<1>8. specState' = IF Sequential THEN [specState EXCEPT ![s] = v] ELSE specState
  BY <1>5, <1>7 DEF AfterSpec
<1>9. /\ v \in States
      /\ FailedOf(s) # {} => v \in Failure
      /\ v = "FAILED" => FailedOf(s) # {}
      /\ "before_spec" \in hooks /\ Plan[s].items # <<>> => v \in Failure
  BY <1>1, <1>7, SpecVerdictTells
<1>10. Specs' = Specs /\ Plan' = Plan
  BY Fixed DEF AfterSpec
<1>11. AccountTypes' /\ FlagsGrow
  BY <1>1, <1>6, <1>8, <1>9, <1>10 DEF Account, AccountTypes, FlagsGrow, AfterSpec, shared
<1>12. \A i \in Items : Behind(r, i) <=> Behind(n, i)
  BY <1>1, <1>4 DEF Behind
<1>13. \A t \in Specs : Working(n, t) => Working(r, t)
  BY <1>1, <1>4 DEF Working
<1>14. RowSays(n)'
  BY <1>1, <1>2, <1>4 DEF RowSays, AfterSpec, shared
<1>15. ASSUME NEW t \in Specs PROVE SpecStep(t, n)
  <2>1. CASE t # s \/ ~Sequential
    <3>1. specState'[t] = specState[t]
      BY <1>8, <2>1 DEF Account, AccountTypes
    <3> QED
      BY <1>6, <3>1 DEF SpecStep
  <2>2. CASE t = s /\ Sequential
    <3>1. specState'[s] = v
      BY <1>1, <1>8, <2>2 DEF Account, AccountTypes
    <3>2. FailedOf(s)' = FailedOf(s)
      BY <1>10 DEF FailedOf, AfterSpec
    <3>3. Tells(s, specState[s])'
      BY <1>6, <1>9, <1>10, <3>1, <3>2 DEF Tells
    <3>4. ~Working(n, s)
      BY <1>1, <1>4, <2>2 DEF Working
    <3> QED
      BY <2>2, <3>3, <3>4 DEF SpecStep
  <2> QED
    BY <2>1, <2>2
<1>16. Follows(j, r, n)
  BY <1>1, <1>4, <1>6, <1>12, <1>13, <1>14, <1>15 DEF Follows
<1> QED
  BY <1>3, <1>11, <1>16 DEF Moves, AfterSpec, shared, Account, Final

LEMMA AfterSuiteMoves ==
  ASSUME Inv, Account, NEW j \in Streams, NEW ok \in BOOLEAN, AfterSuite(j, ok)
  PROVE  Moves(j)
<1> DEFINE r == stream[j]
<1> PICK n : n = [r EXCEPT !.pc = "done"]
  OBVIOUS
<1>1. r \in Row /\ RowSays(r) /\ r.pc = "spec" /\ r.spec \in Nat
  BY RowType DEF AfterSuite, At, Account, Reasons, Row
<1>2. stream' = [stream EXCEPT ![j] = n]
  BY DEF AfterSuite
<1>3. /\ n \in Row /\ n.pc = "done" /\ n.state = r.state /\ n.suiteOk = r.suiteOk
      /\ n.spec = r.spec /\ n.item = r.item /\ n.specOk = r.specOk
  BY <1>1 DEF Row, Pcs, WithItem, Running
<1>4. errors \in [ErrorKinds -> Nat] /\ errors["timeout"] = IF timedOut THEN 1 ELSE 0
  BY DEF Account, AccountTypes, Final
<1>5. PICK e \in Nat : e = IF ok THEN errors["after_suite"] ELSE errors["after_suite"] + 1
  BY <1>4 DEF ErrorKinds
<1>6. errors' = [errors EXCEPT !["after_suite"] = e]
  BY <1>5 DEF AfterSuite
<1>7. /\ errors' \in [ErrorKinds -> Nat]
      /\ errors'["before_suite"] = errors["before_suite"]
      /\ errors'["timeout"] = errors["timeout"]
  BY <1>4, <1>6 DEF ErrorKinds
<1>8. Specs' = Specs
  BY Fixed DEF AfterSuite
<1>9. AccountTypes' /\ FlagsGrow
  BY <1>7, <1>8 DEF Account, AccountTypes, FlagsGrow, AfterSuite, record
<1>10. RowSays(n)'
  <2>1. r.specOk /\ r.state \notin Skips
    BY <1>1 DEF RowSays, WithItem, Running
  <2>2. ~r.suiteOk => errors'["before_suite"] > 0
    BY <1>1, <1>7 DEF RowSays
  <2> QED
    BY <1>3, <2>1, <2>2 DEF RowSays
<1>11. \A i \in Items : Home(i) = j => (Behind(r, i) <=> Behind(n, i))
  <2> SUFFICES ASSUME NEW i \in Items, Home(i) = j PROVE Behind(r, i) <=> Behind(n, i)
    OBVIOUS
  <2>1. ~(i[1] > r.spec)
    BY <1>1, SpecAhead DEF AfterSuite
  <2>2. i[1] \in Nat
    BY Plans, ItemType
  <2> QED
    BY <1>1, <1>3, <2>1, <2>2 DEF Behind
<1>12. \A s \in Specs : Working(n, s) => Working(r, s)
  BY <1>1, <1>3 DEF Working
<1>13. \A s \in Specs : SpecStep(s, n)
  BY DEF SpecStep, AfterSuite, record
<1>14. Follows(j, r, n)
  BY <1>1, <1>3, <1>10, <1>11, <1>12, <1>13 DEF Follows, AfterSuite, record
<1> QED
  BY <1>2, <1>4, <1>7, <1>9, <1>14 DEF Moves, AfterSuite, counts, record

-----------------------------------------------------------------------------
(* Counting, collecting, closing and the verdict.                          *)

LEMMA BookedFinite ==
  ASSUME Inv, NEW S
  PROVE  IsFiniteSet(Booked(S)) /\ Cardinality(Booked(S)) \in Nat
BY Plans, ItemsFinite, FS_Subset, FS_CardinalityType DEF Booked

LEMMA ApplyOutcomeKeepsAccount ==
  ASSUME Inv, Account, NEW j \in Streams, ApplyOutcome(j)
  PROVE  Account'
<1> DEFINE r == stream[j]
<1>1. /\ r \in Row /\ PlacedRow(j, r) /\ RowSays(r) /\ r.pc = "apply"
      /\ r.spec \in Specs /\ <<r.spec, r.item>> \in Items /\ Bucket(r.spec, r.item) = j
  BY RowType DEF ApplyOutcome, At, Account, Reasons, PlacedRow, WithItem
<1>2. PICK c \in Counters : c = Counted(status, r.state)
  BY CountedMore DEF Inv, TypeOK
<1>3. PICK n, here, t : /\ n = [r EXCEPT !.pc = "publish", !.snap = c]
                        /\ here = <<r.spec, r.item>> /\ t = r.state
  OBVIOUS
<1>4. /\ n \in Row /\ n.pc = "publish" /\ n.state = t /\ n.spec = r.spec /\ n.item = r.item
      /\ n.suiteOk = r.suiteOk /\ n.specOk = r.specOk /\ t \in States
  BY <1>1, <1>3 DEF Row, Pcs, WithItem, Running
<1>5. /\ stream' = [stream EXCEPT ![j] = n] /\ status' = c
      /\ UNCHANGED <<request, cancelled, timedOut, errors, polled, record>> /\ runMutex = 0
      /\ failFastTriggered' = (failFastTriggered \/ (request.failFast /\ t \in Failure))
  BY <1>2, <1>3 DEF ApplyOutcome
<1>6. /\ Plan' = Plan /\ Specs' = Specs /\ Items' = Items /\ Streams' = Streams
      /\ Sequential' = Sequential
      /\ \A i : Home(i)' = Home(i)
      /\ \A x, s : Working(x, s)' = Working(x, s)
  BY <1>5, FixedHere
<1>7. /\ stream \in [Streams -> Row] /\ stream' \in [Streams -> Row] /\ stream'[j] = n
      /\ \A i \in Streams : i # j => stream'[i] = stream[i]
  BY <1>4, <1>5 DEF Inv, TypeOK
<1>8. FlagsGrow /\ (failFastTriggered => failFastTriggered')
  BY <1>5 DEF FlagsGrow, record
<1>9. (\A s \in Specs : Reason(s) => Reason(s)') /\ (Excused => Excused')
  BY <1>5, <1>8, ReasonsGrow
<1>10. AccountTypes'
  BY <1>5, <1>6 DEF Account, AccountTypes, record
<1>11. Reasons'
  <2>1. ASSUME NEW i \in Streams PROVE RowSays(stream[i])'
    <3>1. CASE i = j
      <4>1. /\ n.suiteOk = FALSE => errors'["before_suite"] > 0
            /\ n.specOk = FALSE => n.suiteOk /\ "before_spec" \in hookErrors'[n.spec]
            /\ n.state \in Skips => Reason(n.spec)'
        BY <1>1, <1>3, <1>4, <1>5, <1>9 DEF RowSays, record
      <4>2. n.suiteOk \in BOOLEAN /\ n.specOk \in BOOLEAN
        BY <1>4 DEF Row
      <4> QED
        BY <1>4, <1>7, <3>1, <4>1, <4>2 DEF RowSays, WithItem
    <3>2. CASE i # j
      BY <1>5, <1>7, <1>8, <3>2, RowSaysGrows DEF Account, Reasons
    <3> QED
      BY <3>1, <3>2
  <2>2. ASSUME NEW i \in Items, results'[i] \in Skips PROVE Reason(i[1])'
    BY <1>5, <1>9, <2>2, ItemType, Plans DEF Account, Reasons, record
  <2> QED
    BY <1>6, <2>1, <2>2 DEF Reasons
<1>12. \A i \in Streams : stream[i].pc # "publish"
  <2>1. Streams \subseteq Nat \ {0}
    BY StreamCountType DEF Inv, TypeOK, Streams
  <2> QED
    BY <1>5, <2>1 DEF Inv, Locked
<1>13. here \in Items /\ results[here] = "none"
  <2>1. Home(here) = j
    BY <1>1, <1>3 DEF Home
  <2>2. here[1] = r.spec /\ here[2] = r.item
    BY <1>3
  <2>3. r.spec \in Nat /\ r.item \in Nat
    BY <1>1 DEF Row
  <2>4. ~Behind(r, here)
    BY <1>1, <2>2, <2>3 DEF Behind, WithItem, Running
  <2> QED
    BY <1>1, <1>3, <2>1, <2>4 DEF Account, Walked
<1>14. ASSUME NEW S, "none" \notin S
       PROVE  /\ Booked(S)' = IF t \in S THEN Booked(S) \cup {here} ELSE Booked(S)
              /\ here \notin Booked(S)
  <2>1. Booked(S) = {i \in Items : results[i] \in S}
    BY <1>12 DEF Booked, Publishes
  <2>2. \A i : (\E k \in Streams : Publishes(k, i, S)') <=> (t \in S /\ i = here)
    BY <1>3, <1>4, <1>7, <1>12 DEF Publishes
  <2>3. Booked(S)' = {i \in Items : results[i] \in S \/ (t \in S /\ i = here)}
    BY <1>5, <1>6, <2>2 DEF Booked, record
  <2> QED
    BY <1>13, <1>14, <2>1, <2>3
<1>15. ASSUME NEW S, "none" \notin S
       PROVE  Cardinality(Booked(S))' = Cardinality(Booked(S)) + (IF t \in S THEN 1 ELSE 0)
  <2>1. IsFiniteSet(Booked(S)) /\ Cardinality(Booked(S)) \in Nat
    BY BookedFinite
  <2>2. CASE t \in S
    BY <1>14, <1>15, <2>1, <2>2, FS_AddElement
  <2>3. CASE t \notin S
    BY <1>14, <1>15, <2>1, <2>3
  <2> QED
    BY <2>2, <2>3
<1>16. Tallied'
  <2>1. PICK p \in Nat, f \in Nat, k \in Nat :
          /\ p = Cardinality(Booked({"PASSED"})) /\ f = Cardinality(Booked(Failure))
          /\ k = Cardinality(Booked(Skips))
    BY BookedFinite
  <2>2. /\ status.passed = p /\ status.failed = f /\ status.skipped = k /\ status.executed = p + f
    BY <2>1 DEF Account, Tallied
  <2>3. /\ Cardinality(Booked({"PASSED"}))' = p + (IF t \in {"PASSED"} THEN 1 ELSE 0)
        /\ Cardinality(Booked(Failure))' = f + (IF t \in Failure THEN 1 ELSE 0)
        /\ Cardinality(Booked(Skips))' = k + (IF t \in Skips THEN 1 ELSE 0)
    BY <1>15, <2>1 DEF Failure, Skips
  <2>4. /\ c.passed = p + (IF t = "PASSED" THEN 1 ELSE 0)
        /\ c.failed = f + (IF t \in Failure THEN 1 ELSE 0)
        /\ c.skipped = k + (IF t \in Failure \cup {"PASSED"} THEN 0 ELSE 1)
        /\ c.executed = p + f + (IF t \in Failure \cup {"PASSED"} THEN 1 ELSE 0)
    BY <1>2, <1>3, <2>2 DEF Counted
  <2>5. t \in Skips <=> t \notin Failure \cup {"PASSED"}
    BY <1>4 DEF States, Skips, Failure
  <2>6. /\ c.passed = Cardinality(Booked({"PASSED"}))'
        /\ c.failed = Cardinality(Booked(Failure))'
        /\ c.skipped = Cardinality(Booked(Skips))'
        /\ c.executed = c.passed + c.failed
    BY <2>3, <2>4, <2>5 DEF Failure
  <2> QED
    BY <1>5, <2>6 DEF Tallied, Failure, Skips
<1>17. Walked'
  <2> SUFFICES ASSUME NEW i \in Items
               PROVE  /\ Home(i) \in Streams
                      /\ ~Behind(stream'[Home(i)], i) => results[i] = "none"
                      /\ Behind(stream'[Home(i)], i) => results[i] # "none" \/ Excused'
    BY <1>5, <1>6 DEF Walked, Behind, record
  <2>1. Behind(n, i) <=> Behind(r, i)
    BY <1>1, <1>4 DEF Behind, WithItem
  <2> QED
    BY <1>7, <1>9, <2>1 DEF Account, Walked
<1>18. FlagEarned'
  <2>1. Booked(Failure)' = IF t \in Failure THEN Booked(Failure) \cup {here} ELSE Booked(Failure)
    BY <1>14 DEF Failure
  <2> QED
    BY <1>5, <2>1 DEF Account, FlagEarned, Failure
<1>19. PolledFresh'
  BY <1>4, <1>6, <1>7 DEF PolledFresh
<1>20. Closing'
  <2> SUFFICES ASSUME NEW s \in Specs
               PROVE  /\ \A i \in Streams : Working(stream'[i], s) => specState[s] = "none"
                      /\ \A i \in Streams : Sequential /\ stream'[i].spec < s =>
                           "before_spec" \notin hookErrors[s]
                      /\ specState[s] # "none" => Tells(s, specState[s])'
    BY <1>5, <1>6 DEF Closing, record
  <2>1. Working(n, s) <=> Working(r, s)
    BY <1>1, <1>4 DEF Working
  <2>2. Tells(s, specState[s])' <=> Tells(s, specState[s])
    BY <1>5, <1>6 DEF Tells, FailedOf, record
  <2> QED
    BY <1>4, <1>7, <2>1, <2>2 DEF Account, Closing
<1>21. Final'
  <2>1. ~Joined
    BY <1>1 DEF Joined
  <2>2. final' = "none" /\ errors'["timeout"] = (IF timedOut' THEN 1 ELSE 0)
    BY <1>5, <2>1 DEF Account, Final, record
  <2> QED
    BY <2>2 DEF Final, VerdictSound, Failure
<1> QED
  BY <1>10, <1>11, <1>16, <1>17, <1>18, <1>19, <1>20, <1>21 DEF Account

LEMMA PublishKeepsAccount ==
  ASSUME Inv, Account, NEW j \in Streams, Publish(j)
  PROVE  Account'
<1> DEFINE r == stream[j]
<1>1. /\ r \in Row /\ PlacedRow(j, r) /\ RowSays(r) /\ r.pc = "publish"
      /\ r.spec \in Specs /\ <<r.spec, r.item>> \in Items /\ Bucket(r.spec, r.item) = j
  BY RowType DEF Publish, At, Account, Reasons, PlacedRow, WithItem
<1>2. PICK here, s, k, t : here = <<s, k>> /\ s = r.spec /\ k = r.item /\ t = r.state
  OBVIOUS
<1>3. /\ here \in Items /\ Home(here) = j /\ s \in Specs /\ s \in Nat /\ k \in Nat /\ t \in States
      /\ here[1] = s /\ here[2] = k
  BY <1>1, <1>2 DEF Home, Row
<1>4. PICK n \in Row :
        /\ stream' = [stream EXCEPT ![j] = n]
        /\ n.spec = s /\ n.state = "PASSED" /\ n.suiteOk = r.suiteOk /\ n.specOk = r.specOk
        /\ \/ /\ n.pc = "after_spec" \/ (n.pc = "spec" /\ ~r.suiteOk)
              /\ \A i \in Items : ~(Home(i) = j /\ i[1] = s /\ i[2] > k)
           \/ /\ n.pc = "item" /\ n.item > k
              /\ \A i \in Items : Home(i) = j /\ i[1] = s /\ i[2] > k => n.item <= i[2]
  <2> DEFINE items == ItemsAfter(j, s, k)
  <2>1. \A i \in Items : Home(i) = j /\ i[1] = s /\ i[2] > k => i[2] \in items /\ Least(items) <= i[2]
    BY <1>3, ItemAhead
  <2>2. CASE items = {}
    <3> DEFINE n == [r EXCEPT !.snap = NoCounts, !.state = "PASSED", !.item = 0,
                              !.pc = IF r.suiteOk THEN "after_spec" ELSE "spec"]
    <3>1. stream' = [stream EXCEPT ![j] = n]
      BY <1>2, <2>2 DEF Publish
    <3>2. /\ n \in Row /\ n.pc = (IF r.suiteOk THEN "after_spec" ELSE "spec")
          /\ n.spec = s /\ n.state = "PASSED" /\ n.suiteOk = r.suiteOk /\ n.specOk = r.specOk
      BY <1>1, <1>2 DEF Row, Pcs, WithItem, Running, States, Counters, NoCounts
    <3> HIDE DEF n
    <3> QED
      BY <2>1, <2>2, <3>1, <3>2
  <2>3. CASE items # {}
    <3>1. PICK m : m = Least(items)
      OBVIOUS
    <3>2. m \in Nat /\ m > k
      <4>1. items \subseteq Nat
        <5>1. Plan[s].items \in Seq(Seq(Nat))
          BY <1>3, Plans, SpecType
        <5>2. DOMAIN Plan[s].items \subseteq Nat
          BY <5>1
        <5> QED
          BY <5>2 DEF ItemsAfter
      <4>2. m \in items
        BY <2>3, <3>1, <4>1, LeastIn
      <4> QED
        BY <4>1, <4>2 DEF ItemsAfter
    <3> DEFINE n == [r EXCEPT !.snap = NoCounts, !.state = "PASSED", !.item = m, !.pc = "item"]
    <3>3. stream' = [stream EXCEPT ![j] = n]
      BY <1>2, <2>3, <3>1 DEF Publish
    <3>4. /\ n \in Row /\ n.pc = "item" /\ n.item = m
          /\ n.spec = s /\ n.state = "PASSED" /\ n.suiteOk = r.suiteOk /\ n.specOk = r.specOk
      BY <1>1, <1>2, <3>2 DEF Row, Pcs, WithItem, Running, States, Counters, NoCounts
    <3> HIDE DEF n
    <3> QED
      BY <2>1, <3>1, <3>2, <3>3, <3>4
  <2> QED
    BY <2>2, <2>3
<1>5. /\ UNCHANGED <<request, shared, status, hookErrors, specState, final>>
      /\ polled' = status /\ results' = [results EXCEPT ![here] = t]
  <2>1. r.snap = status
    BY <1>1 DEF Inv, Locked
  <2> QED
    BY <1>2, <2>1 DEF Publish
<1>6. /\ Plan' = Plan /\ Specs' = Specs /\ Items' = Items /\ Streams' = Streams
      /\ Sequential' = Sequential
      /\ \A i : Home(i)' = Home(i)
      /\ \A x, q : Working(x, q)' = Working(x, q)
  BY <1>5, FixedHere
<1>7. /\ stream \in [Streams -> Row] /\ stream' \in [Streams -> Row] /\ stream'[j] = n
      /\ \A i \in Streams : i # j => stream'[i] = stream[i]
  BY <1>4 DEF Inv, TypeOK
<1>8. FlagsGrow /\ failFastTriggered' = failFastTriggered
  BY <1>5 DEF FlagsGrow, shared
<1>9. (\A q \in Specs : Reason(q) => Reason(q)') /\ (Excused => Excused')
  BY <1>5, <1>8, ReasonsGrow
<1>10. AccountTypes'
  BY <1>5, <1>6 DEF Account, AccountTypes, shared
<1>11. /\ results'[here] = t
       /\ \A i \in Items : i # here => results'[i] = results[i]
  BY <1>3, <1>5 DEF Inv, TypeOK
<1>12. Reasons'
  <2>1. ASSUME NEW i \in Streams PROVE RowSays(stream[i])'
    <3>1. CASE i = j
      <4>1. /\ r.suiteOk = FALSE => errors'["before_suite"] > 0
            /\ r.specOk = FALSE => r.suiteOk /\ "before_spec" \in hookErrors'[s]
        BY <1>1, <1>2, <1>5 DEF RowSays, shared
      <4>2. r.suiteOk \in BOOLEAN /\ r.specOk \in BOOLEAN
        BY <1>1 DEF Row
      <4>3. n.pc # "before_spec" /\ n.state \notin Skips
        BY <1>4 DEF Skips
      <4>4. ~r.specOk => n.pc \in WithItem \cup {"after_spec"}
        BY <1>4, <4>1, <4>2 DEF WithItem
      <4> QED
        BY <1>4, <1>7, <3>1, <4>1, <4>2, <4>3, <4>4 DEF RowSays
    <3>2. CASE i # j
      BY <1>5, <1>7, <1>8, <3>2, RowSaysGrows DEF Account, Reasons
    <3> QED
      BY <3>1, <3>2
  <2>2. ASSUME NEW i \in Items, results'[i] \in Skips PROVE Reason(i[1])'
    <3>1. CASE i = here
      BY <1>1, <1>2, <1>3, <1>9, <1>11, <2>2, <3>1 DEF RowSays
    <3>2. CASE i # here
      BY <1>9, <1>11, <2>2, <3>2, ItemType, Plans DEF Account, Reasons
    <3> QED
      BY <3>1, <3>2
  <2> QED
    BY <1>6, <2>1, <2>2 DEF Reasons
<1>13. \A i \in Streams : i # j => stream[i].pc # "publish"
  BY <1>1 DEF Inv, Locked
<1>14. results[here] = "none"
  <2>1. ~Behind(r, here)
    BY <1>1, <1>2, <1>3 DEF Behind, WithItem, Running
  <2> QED
    BY <1>3, <2>1 DEF Account, Walked
<1>15. ASSUME NEW S, "none" \notin S PROVE Booked(S)' = Booked(S)
  <2>1. \A i : (\E q \in Streams : Publishes(q, i, S)) <=> (t \in S /\ i = here)
    BY <1>1, <1>2, <1>13 DEF Publishes
  <2>2. \A i : ~(\E q \in Streams : Publishes(q, i, S)')
    BY <1>4, <1>7, <1>13 DEF Publishes
  <2>3. Booked(S) = {i \in Items : results[i] \in S \/ (t \in S /\ i = here)}
    BY <2>1 DEF Booked
  <2>4. Booked(S)' = {i \in Items : results'[i] \in S}
    BY <1>6, <2>2 DEF Booked
  <2> QED
    BY <1>11, <1>14, <1>15, <2>3, <2>4
<1>16. Tallied'
  <2>1. /\ Booked({"PASSED"})' = Booked({"PASSED"})
        /\ Booked(Failure)' = Booked(Failure)
        /\ Booked(Skips)' = Booked(Skips)
    BY <1>15 DEF Failure, Skips
  <2> QED
    BY <1>5, <2>1 DEF Account, Tallied, Failure, Skips
<1>17. Walked'
  <2> SUFFICES ASSUME NEW i \in Items
               PROVE  /\ Home(i) \in Streams
                      /\ ~Behind(stream'[Home(i)], i) => results'[i] = "none"
                      /\ Behind(stream'[Home(i)], i) => results'[i] # "none" \/ Excused'
    BY <1>6 DEF Walked, Behind
  <2>1. /\ Home(i) \in Streams
        /\ ~Behind(stream[Home(i)], i) => results[i] = "none"
        /\ Behind(stream[Home(i)], i) => results[i] # "none" \/ Excused
    BY DEF Account, Walked
  <2>2. i = <<i[1], i[2]>> /\ i[1] \in Nat /\ i[2] \in Nat
    BY Plans, ItemType
  <2>3. CASE i = here
    <3>1. Behind(n, here)
      BY <1>3, <1>4 DEF Behind, WithItem
    <3>2. t # "none"
      BY <1>3 DEF States
    <3> QED
      BY <1>3, <1>7, <1>11, <2>3, <3>1, <3>2
  <2>4. CASE i # here /\ Home(i) = j
    <3>1. ~(i[1] = s /\ i[2] = k)
      BY <1>2, <2>2, <2>4
    <3>2. Behind(r, i) <=> i[1] < s \/ (i[1] = s /\ i[2] < k)
      BY <1>1, <1>2 DEF Behind, WithItem
    <3>3. n.item \in Nat
      BY DEF Row
    <3>4. Behind(n, i) <=> i[1] < s \/ (i[1] = s /\ i[2] < k)
      BY <1>3, <1>4, <2>2, <2>4, <3>1, <3>3 DEF Behind, WithItem
    <3> QED
      BY <1>7, <1>9, <1>11, <2>1, <2>4, <3>2, <3>4
  <2>5. CASE i # here /\ Home(i) # j
    BY <1>7, <1>9, <1>11, <2>1, <2>5
  <2> QED
    BY <2>3, <2>4, <2>5
<1>18. FlagEarned'
  BY <1>8, <1>15 DEF Account, FlagEarned, Failure
<1>19. PolledFresh'
  BY <1>5 DEF PolledFresh
<1>20. Working(r, s)
  BY <1>1, <1>2, <1>3 DEF Working
<1>21. Closing'
  <2> SUFFICES ASSUME NEW q \in Specs
               PROVE  /\ \A i \in Streams : Working(stream'[i], q) => specState[q] = "none"
                      /\ \A i \in Streams : Sequential /\ stream'[i].spec < q =>
                           "before_spec" \notin hookErrors[q]
                      /\ specState[q] # "none" => Tells(q, specState[q])'
    BY <1>5, <1>6 DEF Closing
  <2>1. Working(n, q) => Working(r, q)
    BY <1>1, <1>2, <1>4 DEF Working
  <2>2. ASSUME specState[q] # "none" PROVE Tells(q, specState[q])'
    <3>1. q # s
      BY <1>3, <1>20, <2>2 DEF Account, Closing
    <3>2. \A m \in DOMAIN Plan[q].items : results'[<<q, m>>] = results[<<q, m>>]
      <4> TAKE m \in DOMAIN Plan[q].items
      <4>1. <<q, m>> \in Items
        BY DEF Items
      <4>2. <<q, m>> # here
        BY <1>2, <3>1
      <4> QED
        BY <1>11, <4>1, <4>2
    <3>3. FailedOf(q)' = FailedOf(q)
      BY <1>6, <3>2 DEF FailedOf, Failure
    <3> QED
      BY <1>5, <1>6, <2>2, <3>3 DEF Tells, Account, Closing
  <2> QED
    BY <1>2, <1>4, <1>7, <2>1, <2>2 DEF Account, Closing
<1>22. Final'
  <2>1. ~Joined
    BY <1>1 DEF Joined
  <2>2. final' = "none" /\ errors'["timeout"] = (IF timedOut' THEN 1 ELSE 0)
    BY <1>5, <2>1 DEF Account, Final, shared
  <2> QED
    BY <2>2 DEF Final, VerdictSound, Failure
<1> QED
  BY <1>10, <1>12, <1>16, <1>17, <1>18, <1>19, <1>21, <1>22 DEF Account

\* Cancellation, the deadline and stuttering: only the flags may change.
LEMMA FlagsOnlyKeepAccount ==
  ASSUME Inv, Account, UNCHANGED <<request, timedOut, failFastTriggered, errors, counts, stream, record>>,
         cancelled => cancelled', cancelled' \in BOOLEAN
  PROVE  Account'
<1>1. /\ Plan' = Plan /\ Specs' = Specs /\ Items' = Items /\ Streams' = Streams
      /\ Sequential' = Sequential
      /\ \A i : Home(i)' = Home(i)
      /\ \A x, s : Working(x, s)' = Working(x, s)
  BY FixedHere
<1>2. FlagsGrow
  BY DEF FlagsGrow, record
<1>3. (\A s \in Specs : Reason(s) => Reason(s)') /\ (Excused => Excused')
  BY <1>2, ReasonsGrow
<1>4. AccountTypes'
  BY <1>1 DEF Account, AccountTypes, record
<1>5. Reasons'
  <2>1. ASSUME NEW i \in Streams PROVE RowSays(stream[i])'
    BY <1>2, RowSaysGrows DEF Account, Reasons
  <2>2. ASSUME NEW i \in Items, results'[i] \in Skips PROVE Reason(i[1])'
    BY <1>3, <2>2, ItemType, Plans DEF Account, Reasons, record
  <2> QED
    BY <1>1, <2>1, <2>2 DEF Reasons
<1>6. \A S : Booked(S)' = Booked(S)
  BY <1>1 DEF Booked, Publishes, record
<1>7. Tallied' /\ FlagEarned'
  BY <1>6 DEF Account, Tallied, FlagEarned, Failure, Skips, counts
<1>8. Walked'
  BY <1>1, <1>3 DEF Account, Walked, Behind, record
<1>9. PolledFresh'
  BY <1>1 DEF Account, PolledFresh, counts
<1>10. Closing'
  BY <1>1 DEF Account, Closing, Tells, FailedOf, record
<1>11. Final'
  <2>1. \A S : ItemsIn(S)' = ItemsIn(S)
    BY <1>1 DEF ItemsIn, record
  <2> QED
    BY <1>1, <2>1 DEF Account, Final, VerdictSound, Joined, Failure, record
<1> QED
  BY <1>4, <1>5, <1>7, <1>8, <1>9, <1>10, <1>11 DEF Account

LEMMA CloseSpecKeepsAccount ==
  ASSUME Inv, Account, CloseSpec
  PROVE  Account'
<1> DEFINE open == {s \in Specs : specState[s] = "none"}
<1>1. PICK s : s = Least(open)
  OBVIOUS
<1>2. s \in Specs
  <2>1. open \subseteq Nat
    BY Plans DEF IsPlan, Specs
  <2> QED
    BY <1>1, <2>1, LeastIn DEF CloseSpec
<1>3. PICK v : v = SpecVerdict(s, hookErrors[s])
  OBVIOUS
<1>4. /\ specState' = [specState EXCEPT ![s] = v] /\ polled' \in {polled, status}
      /\ UNCHANGED <<request, shared, status, runMutex, stream, results, hookErrors, final>>
      /\ ~Sequential /\ Joined
  BY <1>1, <1>3 DEF CloseSpec
<1>5. /\ v \in States
      /\ FailedOf(s) # {} => v \in Failure
      /\ v = "FAILED" => FailedOf(s) # {}
      /\ "before_spec" \in hookErrors[s] /\ Plan[s].items # <<>> => v \in Failure
  BY <1>2, <1>3, SpecVerdictTells
<1>6. /\ Plan' = Plan /\ Specs' = Specs /\ Items' = Items /\ Streams' = Streams
      /\ Sequential' = Sequential
      /\ \A i : Home(i)' = Home(i)
      /\ \A x, q : Working(x, q)' = Working(x, q)
  BY <1>4, FixedHere
<1>7. /\ specState'[s] = v
      /\ \A q \in Specs : q # s => specState'[q] = specState[q]
  BY <1>2, <1>4 DEF Account, AccountTypes
<1>8. AccountTypes'
  BY <1>2, <1>4, <1>5, <1>6 DEF Account, AccountTypes, shared
<1>9. Reasons'
  BY <1>4, <1>6 DEF Account, Reasons, RowSays, Reason, Stopped, shared
<1>10. \A S : Booked(S)' = Booked(S)
  BY <1>4, <1>6 DEF Booked, Publishes
<1>11. Tallied' /\ FlagEarned'
  BY <1>4, <1>10 DEF Account, Tallied, FlagEarned, Failure, Skips, shared
<1>12. Walked'
  BY <1>4, <1>6 DEF Account, Walked, Behind, Excused, Stopped, shared
<1>13. PolledFresh'
  BY <1>4, <1>6 DEF Account, PolledFresh
<1>14. Closing'
  <2> SUFFICES ASSUME NEW q \in Specs
               PROVE  /\ \A i \in Streams : ~Working(stream[i], q)
                      /\ specState'[q] # "none" => Tells(q, specState[q])'
    BY <1>4, <1>6 DEF Closing
  <2>1. \A i \in Streams : ~Working(stream[i], q)
    BY <1>4 DEF Working, Joined
  <2>2. FailedOf(q)' = FailedOf(q)
    BY <1>4, <1>6 DEF FailedOf
  <2>3. CASE q = s
    BY <1>4, <1>5, <1>6, <1>7, <2>1, <2>2, <2>3 DEF Tells
  <2>4. CASE q # s
    BY <1>4, <1>6, <1>7, <2>1, <2>2, <2>4 DEF Tells, Account, Closing
  <2> QED
    BY <2>3, <2>4
<1>15. Final'
  <2>1. \A S : ItemsIn(S)' = ItemsIn(S)
    BY <1>4, <1>6 DEF ItemsIn
  <2> QED
    BY <1>4, <1>6, <2>1 DEF Account, Final, VerdictSound, Joined, Failure, shared
<1> QED
  BY <1>8, <1>9, <1>11, <1>12, <1>13, <1>14, <1>15 DEF Account

\* When every stream is done, every scenario has its result or its excuse, and the
\* counters are those of the results.
LEMMA WhenJoined ==
  ASSUME Inv, Account, Joined
  PROVE  /\ \A S : Booked(S) = ItemsIn(S)
         /\ \A i \in Items : results[i] # "none" \/ Excused
         /\ polled = status
<1>1. \A j \in Streams : stream[j].pc = "done"
  BY DEF Joined
<1>2. \A S : Booked(S) = ItemsIn(S)
  BY <1>1 DEF Booked, ItemsIn, Publishes
<1>3. \A i \in Items : results[i] # "none" \/ Excused
  BY <1>1 DEF Account, Walked, Behind
<1>4. polled = status
  BY <1>1 DEF Account, PolledFresh
<1> QED
  BY <1>2, <1>3, <1>4

\* What Verdict says of the specifications and of the scenarios.
LEMMA VerdictTells ==
  ASSUME Inv, Account, Joined, \A s \in Specs : specState[s] # "none", NEW v, v = Verdict
  PROVE  /\ v \in States
         /\ v = "PASSED" => Items # {} /\ ItemsIn({"PASSED"}) = Items
         /\ v = "SKIPPED" => ItemsIn({"PASSED"} \cup Failure) = {}
         /\ v = "FAILED" => ItemsIn(Failure) # {}
         /\ ItemsIn(Failure) # {} => v \in Failure \cup {"CANCELLED"}
<1> DEFINE Bad == {s \in Specs : specState[s] \notin {"PASSED", "SKIPPED", "CANCELLED"}}
           Err == {s \in Specs : specState[s] = "TEST_ERROR"}
<1>1. IsFiniteSet(Specs)
  <2>1. Specs = 1..Len(Plan) /\ Len(Plan) \in Nat
    BY Plans DEF IsPlan, Specs
  <2> QED
    BY <2>1, FS_Interval
<1>2. Err \subseteq Bad /\ IsFiniteSet(Bad) /\ IsFiniteSet(Err)
  BY <1>1, FS_Subset
<1>3. PICK b \in Nat, e \in Nat : b = Cardinality(Bad) /\ e = Cardinality(Err)
  BY <1>2, FS_CardinalityType
<1>4. e <= b /\ (b = 0 <=> Bad = {}) /\ (b = e => Bad = Err)
  BY <1>2, <1>3, FS_Subset, FS_EmptySet
<1>5. PICK g : g = Aggregate(b - e, e, 0, Len(Plan), FALSE)
  OBVIOUS
<1>6. /\ g \in {"TEST_ERROR", "FAILED", "PASSED"}
      /\ g = "FAILED" => Bad # Err
      /\ g = "PASSED" => Bad = {}
  <2>1. Len(Plan) \in Nat
    BY Plans DEF IsPlan
  <2>2. g \in {"TEST_ERROR", "FAILED", "PASSED"} /\ (g = "FAILED" => b - e > 0)
          /\ (g = "PASSED" => b = 0)
    BY <1>3, <1>4, <1>5, <2>1 DEF Aggregate
  <2> QED
    BY <1>3, <1>4, <2>2
<1>7. v = IF cancelled THEN "CANCELLED"
          ELSE IF timedOut \/ errors["before_suite"] > 0 THEN "TEST_ERROR"
          ELSE IF g = "PASSED" /\ status.passed = 0 /\ status.failed = 0 THEN "SKIPPED"
          ELSE g
  BY <1>3, <1>5 DEF Verdict
<1> HIDE DEF Bad, Err
<1>8. /\ status.passed = Cardinality(ItemsIn({"PASSED"}))
      /\ status.failed = Cardinality(ItemsIn(Failure))
  BY WhenJoined DEF Account, Tallied
<1>9. \A S : IsFiniteSet(ItemsIn(S))
  BY Plans, ItemsFinite, FS_Subset DEF ItemsIn
<1>10. /\ status.passed = 0 <=> ItemsIn({"PASSED"}) = {}
       /\ status.failed = 0 <=> ItemsIn(Failure) = {}
  BY <1>8, <1>9, FS_EmptySet
<1>11. ASSUME NEW i \in ItemsIn(Failure) PROVE i[1] \in Bad
  <2>1. i \in Items /\ results[i] \in Failure
    BY DEF ItemsIn
  <2>2. i = <<i[1], i[2]>> /\ i[1] \in Specs /\ i[2] \in DOMAIN Plan[i[1]].items
    BY <2>1, Plans, ItemType
  <2>3. i[2] \in FailedOf(i[1])
    BY <2>1, <2>2 DEF FailedOf
  <2>4. specState[i[1]] \in Failure
    BY <2>2, <2>3 DEF Account, Closing, Tells
  <2> QED
    BY <2>2, <2>4 DEF Bad, Failure
<1>12. v \in States
  BY <1>6, <1>7 DEF States
<1>13. ASSUME v = "PASSED" PROVE Items # {} /\ ItemsIn({"PASSED"}) = Items
  <2>1. /\ ~cancelled /\ ~timedOut /\ ~(errors["before_suite"] > 0)
        /\ g = "PASSED" /\ ~(status.passed = 0 /\ status.failed = 0)
    BY <1>6, <1>7, <1>13
  <2>2. Bad = {} /\ ItemsIn(Failure) = {}
    BY <1>6, <1>11, <2>1
  <2>3. ~failFastTriggered
    BY <2>2, WhenJoined DEF Account, FlagEarned, AccountTypes
  <2>4. ASSUME NEW i \in Items PROVE results[i] = "PASSED"
    <3>1. results[i] \in States
      BY <2>1, <2>3, WhenJoined DEF Inv, TypeOK, Excused, Stopped
    <3>2. results[i] \notin Failure
      BY <2>2 DEF ItemsIn
    <3>3. /\ i[1] \in Specs /\ i[2] \in DOMAIN Plan[i[1]].items
          /\ Plan[i[1]].items # <<>>
      BY Plans, ItemType
    <3>4. results[i] \notin Skips
      <4> SUFFICES ASSUME results[i] \in Skips PROVE FALSE
        OBVIOUS
      <4>1. "before_spec" \in hookErrors[i[1]]
        BY <2>1, <2>3 DEF Account, Reasons, Reason, Stopped
      <4>2. specState[i[1]] \in Failure
        BY <3>3, <4>1 DEF Account, Closing, Tells
      <4>3. i[1] \in Bad
        BY <3>3, <4>2 DEF Bad, Failure
      <4> QED
        BY <2>2, <4>3
    <3> QED
      BY <3>1, <3>2, <3>4 DEF States, Skips, Failure
  <2> QED
    BY <1>10, <2>1, <2>2, <2>4 DEF ItemsIn
<1>14. v = "SKIPPED" => ItemsIn({"PASSED"} \cup Failure) = {}
  <2>1. v = "SKIPPED" => ItemsIn({"PASSED"}) = {} /\ ItemsIn(Failure) = {}
    BY <1>6, <1>7, <1>10
  <2> QED
    BY <2>1 DEF ItemsIn
<1>15. ASSUME v = "FAILED" PROVE ItemsIn(Failure) # {}
  <2>1. Bad # Err
    BY <1>6, <1>7, <1>15
  <2>2. PICK s \in Specs : specState[s] \notin {"PASSED", "SKIPPED", "CANCELLED", "TEST_ERROR"}
    BY <1>2, <2>1 DEF Bad, Err
  <2>3. specState[s] = "FAILED"
    BY <2>2 DEF Account, AccountTypes, States
  <2>4. PICK k \in DOMAIN Plan[s].items : results[<<s, k>>] \in Failure
    BY <2>3 DEF Account, Closing, Tells, FailedOf
  <2>5. <<s, k>> \in Items
    BY DEF Items
  <2> QED
    BY <2>4, <2>5 DEF ItemsIn
<1>16. ASSUME ItemsIn(Failure) # {} PROVE v \in Failure \cup {"CANCELLED"}
  <2>1. g # "PASSED"
    BY <1>6, <1>11, <1>16
  <2> QED
    BY <1>6, <1>7, <2>1 DEF Failure
<1> QED
  BY <1>12, <1>13, <1>14, <1>15, <1>16

LEMMA FinishKeepsAccount ==
  ASSUME Inv, Account, Finish
  PROVE  Account'
<1>1. /\ UNCHANGED <<request, shared, counts, stream, results, hookErrors, specState>>
      /\ Joined
  BY DEF Finish
<1>2. PICK v : v = Verdict /\ final' = v
  BY DEF Finish
<1>3. /\ v \in States
      /\ v = "PASSED" => Items # {} /\ ItemsIn({"PASSED"}) = Items
      /\ v = "SKIPPED" => ItemsIn({"PASSED"} \cup Failure) = {}
      /\ v = "FAILED" => ItemsIn(Failure) # {}
      /\ ItemsIn(Failure) # {} => v \in Failure \cup {"CANCELLED"}
  BY <1>2, VerdictTells DEF Finish
<1>4. /\ Plan' = Plan /\ Specs' = Specs /\ Items' = Items /\ Streams' = Streams
      /\ Sequential' = Sequential
      /\ \A i : Home(i)' = Home(i)
      /\ \A x, q : Working(x, q)' = Working(x, q)
  BY <1>1, FixedHere
<1>5. AccountTypes'
  BY <1>1, <1>2, <1>3, <1>4 DEF Account, AccountTypes, shared
<1>6. Reasons'
  BY <1>1, <1>4 DEF Account, Reasons, RowSays, Reason, Stopped, shared
<1>7. \A S : Booked(S)' = Booked(S) /\ ItemsIn(S)' = ItemsIn(S)
  BY <1>1, <1>4 DEF Booked, Publishes, ItemsIn
<1>8. Tallied' /\ FlagEarned'
  BY <1>1, <1>7 DEF Account, Tallied, FlagEarned, Failure, Skips, shared, counts
<1>9. Walked'
  BY <1>1, <1>4 DEF Account, Walked, Behind, Excused, Stopped, shared
<1>10. PolledFresh'
  BY <1>1, <1>4 DEF Account, PolledFresh, counts
<1>11. Closing'
  BY <1>1, <1>4 DEF Account, Closing, Tells, FailedOf
<1>12. Final'
  BY <1>1, <1>2, <1>3, <1>4, <1>7 DEF Account, Final, VerdictSound, Joined, Failure, shared
<1> QED
  BY <1>5, <1>6, <1>8, <1>9, <1>10, <1>11, <1>12 DEF Account

LEMMA HomeInStreams ==
  ASSUME request \in Requests, NEW i \in Items
  PROVE  Home(i) \in Streams
<1>1. IsPlan(Plan) /\ request.streams \in Nat \ {0}
  BY RunAssumption DEF Plan
<1>2. i[1] \in Specs /\ i[2] \in Nat \ {0}
  BY <1>1, ItemType
<1>3. StreamCount \in Nat /\ StreamCount > 0
  <2>1. Cardinality(Items) \in Nat
    BY <1>1, ItemsFinite, FS_CardinalityType
  <2> QED
    BY <1>1, <2>1 DEF StreamCount
<1>4. FirstOrder[i[1]] \in Nat
  <2> DEFINE before == {x \in Items : x[1] < i[1]}
  <2>1. Cardinality(before) \in Nat
    BY <1>1, ItemsFinite, FS_Subset, FS_CardinalityType
  <2> QED
    BY <1>2, <2>1 DEF FirstOrder
<1>5. PICK m \in Nat : m = FirstOrder[i[1]] + i[2] - 1
  BY <1>2, <1>4
<1>6. m % StreamCount \in 0..(StreamCount - 1)
  BY <1>3
<1> QED
  BY <1>3, <1>5, <1>6 DEF Home, Bucket, Streams

LEMMA InitAccount == Init => Account
<1> SUFFICES ASSUME Init PROVE Account
  OBVIOUS
<1>1. request \in Requests /\ IsPlan(Plan)
  BY RunAssumption DEF Init, Plan
<1>2. \A j \in Streams : stream[j] = Idle
  BY DEF Init
<1>3. \A i \in Items : results[i] = "none"
  BY DEF Init
<1>4. AccountTypes
  <2>1. Specs = 1..Len(Plan) /\ Len(Plan) \in Nat
    BY <1>1 DEF IsPlan, Specs
  <2>2. Cardinality({s \in Specs : ~Plan[s].ok}) \in Nat
    <3> DEFINE unread == {s \in Specs : ~Plan[s].ok}
    <3>1. IsFiniteSet(Specs) /\ unread \subseteq Specs
      BY <2>1, FS_Interval
    <3>2. IsFiniteSet(unread)
      BY <3>1, FS_Subset
    <3> QED
      BY <3>2, FS_CardinalityType
  <2>3. errors \in [ErrorKinds -> Nat]
    BY <2>2 DEF Init
  <2> QED
    BY <2>3 DEF Init, AccountTypes, States
<1>5. Reasons
  BY <1>2, <1>3 DEF Reasons, RowSays, Idle, Skips
<1>6. \A S : "none" \notin S => Booked(S) = {}
  BY <1>2, <1>3 DEF Booked, Publishes, Idle
<1>7. Tallied
  <2>1. /\ Cardinality(Booked({"PASSED"})) = 0
        /\ Cardinality(Booked(Failure)) = 0
        /\ Cardinality(Booked(Skips)) = 0
    BY <1>6, FS_EmptySet DEF Failure, Skips
  <2> QED
    BY <2>1 DEF Tallied, Init, NoCounts
<1>8. Walked
  <2>1. ASSUME NEW i \in Items PROVE ~Behind(stream[Home(i)], i)
    <3>1. i[1] \in Nat \ {0} /\ Home(i) \in Streams
      BY <1>1, ItemType, HomeInStreams DEF IsPlan, Specs
    <3> QED
      BY <1>2, <3>1 DEF Behind, Idle
  <2> QED
    BY <1>1, <1>3, <2>1, HomeInStreams DEF Walked
<1>9. FlagEarned /\ PolledFresh
  BY DEF FlagEarned, PolledFresh, Init
<1>10. Closing
  BY DEF Closing, Init
<1>11. Final
  BY DEF Final, VerdictSound, Init, ErrorKinds
<1> QED
  BY <1>4, <1>5, <1>7, <1>8, <1>9, <1>10, <1>11 DEF Account

LEMMA StreamStepKeepsAccount ==
  ASSUME Inv, Account, NEW j \in Streams, StreamStep(j)
  PROVE  Account'
<1>1. CASE ApplyOutcome(j)
  BY <1>1, ApplyOutcomeKeepsAccount
<1>2. CASE Publish(j)
  BY <1>2, PublishKeepsAccount
<1>3. ASSUME NEW res \in Outcomes, StepReturns(j, res) PROVE Moves(j)
  BY <1>3, StepReturnsRuns, ScenarioStepMoves
<1>4. ASSUME NEW ok \in BOOLEAN,
             \/ BeforeSuite(j, ok) \/ BeforeSpec(j, ok) \/ BeforeScenario(j, ok)
             \/ AfterScenario(j, ok) \/ AfterSpec(j, ok) \/ AfterSuite(j, ok)
      PROVE  Moves(j)
  BY <1>4, BeforeSuiteMoves, BeforeSpecMoves, BeforeScenarioRuns, ScenarioStepMoves,
     AfterScenarioMoves, AfterSpecMoves, AfterSuiteMoves
<1>5. CASE \/ SeesDeadline(j) \/ RecordTimeout(j)
           \/ SkipSpec(j) \/ LoadError(j) \/ EnterSpec(j) \/ SkipItem(j) \/ StartScenario(j)
           \/ SkipStep(j) \/ BeginStep(j) \/ SkipInner(j) \/ BeginInner(j) \/ Attempt(j) \/ GiveUp(j)
  <2>1. Moves(j)
    BY <1>5, SeesDeadlineMoves, RecordTimeoutMoves, SkipSpecMoves, LoadErrorMoves, EnterSpecMoves,
       SkipItemMoves, StartScenarioMoves, SkipStepRuns, BeginStepMoves, SkipInnerRuns,
       BeginInnerMoves, AttemptMoves, GiveUpRuns, ScenarioStepMoves
  <2> QED
    BY <2>1, MovesKeeps
<1> QED
  BY <1>1, <1>2, <1>3, <1>4, <1>5, MovesKeeps DEF StreamStep

LEMMA NextAccount == Inv /\ Account /\ [Next]_vars => Account'
<1> SUFFICES ASSUME Inv, Account, [Next]_vars PROVE Account'
  OBVIOUS
<1>1. CASE Cancel \/ DeadlinePasses
  BY <1>1, FlagsOnlyKeepAccount DEF Cancel, DeadlinePasses, Account, AccountTypes
<1>2. ASSUME NEW j \in Streams, StreamStep(j) PROVE Account'
  BY <1>2, StreamStepKeepsAccount
<1>3. CASE CloseSpec
  BY <1>3, CloseSpecKeepsAccount
<1>4. CASE Finish
  BY <1>4, FinishKeepsAccount
<1>5. CASE UNCHANGED vars
  BY <1>5, FlagsOnlyKeepAccount DEF vars, shared, Account, AccountTypes
<1> QED
  BY <1>1, <1>2, <1>3, <1>4, <1>5 DEF Next

LEMMA AccountInvariant == Spec => [](Inv /\ Account)
<1>1. Init => Inv /\ Account
  BY InitInv, InitAccount
<1>2. Inv /\ Account /\ [Next]_vars => (Inv /\ Account)'
  BY NextInv, NextAccount DEF Keeps
<1> QED
  BY <1>1, <1>2, PTL DEF Spec

\* At the verdict every selected scenario has exactly one result, unless the sequential
\* run skipped its specification as a whole, and the polled counters are those of the
\* results, for every plan and any number of streams: executeParallel deals each item to
\* one bucket, and applyScenarioOutcome counts it once.
THEOREM RunEveryScenarioAccounted == Spec => []EveryScenarioAccounted
<1>1. Inv /\ Account => EveryScenarioAccounted
  <2> SUFFICES ASSUME Inv, Account, final # "none" PROVE EveryScenarioAccounted
    BY DEF EveryScenarioAccounted
  <2>1. Joined
    BY DEF Account, Final
  <2> QED
    BY <2>1, WhenJoined DEF EveryScenarioAccounted, Account, Tallied, Skips, ItemsIn, Excused, Stopped
<1> QED
  BY <1>1, AccountInvariant, PTL

\* The verdict is earned, for every plan and any number of streams: behind PASSED is the
\* pass of every scenario, behind FAILED a failed one, no failure is lost unless the test
\* was cancelled, and checkTimeout reports the deadline once.
THEOREM RunVerdictSound == Spec => []VerdictSound
<1>1. Account => VerdictSound
  BY DEF Account, Final
<1> QED
  BY <1>1, AccountInvariant, PTL
=============================================================================
