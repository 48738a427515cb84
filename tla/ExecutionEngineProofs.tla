------------------------ MODULE ExecutionEngineProofs ------------------------
(***************************************************************************)
(* Proofs about ExecutionEngine, for any number of tests, workers and API  *)
(* threads, with stop(), crashes, failing saves and throwing loads: every  *)
(* unfinished test is in exactly one pair of hands, a terminal state is    *)
(* visible only after its file is there, a test is announced at most once  *)
(* and never before its record is terminal, it is counted exactly once in  *)
(* each life of the process, no file is left of a removed test, an         *)
(* accepted cancellation is honoured, and the engine implements the        *)
(* abstract life cycle of tests.                                           *)
(***************************************************************************)
EXTENDS ExecutionEngine, FiniteSetTheorems, SequenceTheorems, WellFoundedInduction, TLAPS

-----------------------------------------------------------------------------
(* The queue by itself: what its operations do to the deque, for any ids    *)
(* and any priorities, and that the deque stays ordered.                    *)

LEMMA PriorityIs == Priority \in [Tests -> Nat]
BY PriorityAssumption DEF PriorityAssumption

\* A nonempty set of natural numbers has a least element.
LEMMA LeastNatural ==
  ASSUME NEW T \in SUBSET Nat, T # {}
  PROVE  \E x \in T : \A y \in T : x <= y
<1> DEFINE R == OpToRel(<, Nat)
<1>1. PICK x \in T : \A y \in T : ~ (<<y, x>> \in R)
  <2>1. IsWellFoundedOn(R, Nat)
    BY NatLessThanWellFounded
  <2> QED
    BY <2>1, WFMin, Zenon
<1>2. ASSUME NEW y \in T PROVE x <= y
  <2>1. ~ (y < x)
    BY <1>1, Zenon DEF OpToRel
  <2> QED
    BY <2>1, SMT
<1> QED
  BY <1>2

\* What a task of the deque is.
LEMMA TaskOfQueue ==
  ASSUME NEW q \in Seq(Task)
  PROVE  /\ Len(q) \in Nat
         /\ DOMAIN q = 1..Len(q)
         /\ \A i \in 1..Len(q) : /\ q[i] \in Task
                                 /\ q[i].id \in Tests
                                 /\ q[i].sequence \in Nat
                                 /\ Priority[q[i].id] \in Nat
<1>1. Len(q) \in Nat /\ DOMAIN q = 1..Len(q) /\ q \in [1..Len(q) -> Task]
  BY LenProperties
<1>2. ASSUME NEW i \in 1..Len(q)
      PROVE  q[i] \in Task /\ q[i].id \in Tests /\ q[i].sequence \in Nat
  BY <1>1 DEF Task
<1>3. ASSUME NEW i \in 1..Len(q)
      PROVE  Priority[q[i].id] \in Nat
  BY <1>2, PriorityIs
<1> QED
  BY <1>1, <1>2, <1>3

\* find_if of enqueue stops at a position of the deque or at its end, with no
\* task of lower priority before it.
LEMMA InsertPositionFound ==
  ASSUME NEW q \in Seq(Task), NEW p \in Nat
  PROVE  /\ InsertPosition(q, p) \in 1..(Len(q) + 1)
         /\ \A i \in 1..(InsertPosition(q, p) - 1) : Priority[q[i].id] >= p
         /\ InsertPosition(q, p) <= Len(q) => Priority[q[InsertPosition(q, p)].id] < p
<1> DEFINE Found(k) == /\ \A i \in 1..(k - 1) : Priority[q[i].id] >= p
                       /\ k <= Len(q) => Priority[q[k].id] < p
           Lower == {i \in 1..Len(q) : Priority[q[i].id] < p}
<1>1. Len(q) \in Nat /\ \A i \in 1..Len(q) : Priority[q[i].id] \in Nat
  BY TaskOfQueue
<1>2. \E k \in 1..(Len(q) + 1) : Found(k)
  <2>1. CASE Lower = {}
    <3>1. \A i \in 1..Len(q) : Priority[q[i].id] >= p
      BY <1>1, <2>1
    <3>2. Found(Len(q) + 1)
      BY <1>1, <3>1
    <3> QED
      BY <1>1, <3>2
  <2>2. CASE Lower # {}
    <3>1. Lower \in SUBSET Nat
      BY <1>1
    <3>2. PICK k \in Lower : \A y \in Lower : k <= y
      BY <2>2, <3>1, LeastNatural
    <3>3. Found(k)
      <4>1. ASSUME NEW i \in 1..(k - 1) PROVE Priority[q[i].id] >= p
        <5>1. i \in 1..Len(q) /\ ~ (k <= i)
          BY <1>1
        <5>2. i \notin Lower
          BY <3>2, <5>1
        <5> QED
          BY <1>1, <5>1, <5>2
      <4> QED
        BY <4>1
    <3> QED
      BY <1>1, <3>3
  <2> QED
    BY <2>1, <2>2
<1>3. InsertPosition(q, p) = CHOOSE k \in 1..(Len(q) + 1) : Found(k)
  BY DEF InsertPosition
<1> HIDE DEF Found
<1>4. InsertPosition(q, p) \in 1..(Len(q) + 1) /\ Found(InsertPosition(q, p))
  BY <1>2, <1>3, Zenon
<1> QED
  BY <1>4 DEF Found

\* insert(pos, task): one more element, in its place, the others in order.
LEMMA InsertTaskEffect ==
  ASSUME NEW q \in Seq(Task), NEW task \in Task
  PROVE  LET k == InsertPosition(q, Priority[task.id])
             r == InsertTask(q, task) IN
         /\ k \in 1..(Len(q) + 1)
         /\ r \in Seq(Task)
         /\ Len(r) = Len(q) + 1
         /\ DOMAIN r = 1..(Len(q) + 1)
         /\ \A i \in 1..(Len(q) + 1) :
              r[i] = IF i < k THEN q[i] ELSE IF i = k THEN task ELSE q[i - 1]
<1> DEFINE k == InsertPosition(q, Priority[task.id])
           r == InsertTask(q, task)
<1>1. Priority[task.id] \in Nat
  BY PriorityIs DEF Task
<1>2. k \in 1..(Len(q) + 1) /\ Len(q) \in Nat
  BY <1>1, InsertPositionFound, LenProperties
<1> HIDE DEF k
<1>3. r = [i \in 1..(Len(q) + 1) |->
             IF i < k THEN q[i] ELSE IF i = k THEN task ELSE q[i - 1]]
  BY DEF InsertTask, k
<1> HIDE DEF r
<1>4. r \in [1..(Len(q) + 1) -> Task]
  BY <1>2, <1>3, TaskOfQueue
<1>5. r \in Seq(Task) /\ Len(r) = Len(q) + 1 /\ DOMAIN r = 1..(Len(q) + 1)
  BY <1>2, <1>4
<1> QED
  BY <1>2, <1>3, <1>5 DEF k, r

\* find_if of cancel finds the task that is there.
LEMMA PositionOfFound ==
  ASSUME NEW q \in Seq(Task), NEW t, \E i \in DOMAIN q : q[i].id = t
  PROVE  PositionOf(q, t) \in 1..Len(q) /\ q[PositionOf(q, t)].id = t
<1> DEFINE Match == {i \in 1..Len(q) : q[i].id = t}
           Found(k) == q[k].id = t /\ \A i \in 1..(k - 1) : q[i].id # t
<1>1. Len(q) \in Nat /\ DOMAIN q = 1..Len(q)
  BY TaskOfQueue
<1>2. Match \in SUBSET Nat /\ Match # {}
  BY <1>1
<1>3. PICK k \in Match : \A y \in Match : k <= y
  BY <1>2, LeastNatural
<1>4. \E j \in DOMAIN q : Found(j)
  <2>1. ASSUME NEW i \in 1..(k - 1) PROVE q[i].id # t
    BY <1>1, <1>3
  <2> QED
    BY <1>1, <2>1
<1>5. PositionOf(q, t) = CHOOSE j \in DOMAIN q : Found(j)
  BY DEF PositionOf
<1> HIDE DEF Found
<1>6. PositionOf(q, t) \in DOMAIN q /\ Found(PositionOf(q, t))
  BY <1>4, <1>5, Zenon
<1> QED
  BY <1>1, <1>6 DEF Found

\* erase: the element goes and what was behind it moves up.
LEMMA EraseTaskEffect ==
  ASSUME NEW q \in Seq(Task), NEW t, \E i \in DOMAIN q : q[i].id = t
  PROVE  LET k == PositionOf(q, t)
             r == EraseTask(q, t) IN
         /\ k \in 1..Len(q)
         /\ q[k].id = t
         /\ r \in Seq(Task)
         /\ Len(r) = Len(q) - 1
         /\ DOMAIN r = 1..(Len(q) - 1)
         /\ \A i \in 1..(Len(q) - 1) : r[i] = IF i < k THEN q[i] ELSE q[i + 1]
<1> DEFINE k == PositionOf(q, t)
           r == EraseTask(q, t)
<1>1. k \in 1..Len(q) /\ q[k].id = t /\ Len(q) \in Nat
  BY PositionOfFound, LenProperties
<1> HIDE DEF k
<1>2. r = [i \in 1..(Len(q) - 1) |-> IF i < k THEN q[i] ELSE q[i + 1]]
  BY DEF EraseTask, k
<1> HIDE DEF r
<1>3. r \in [1..(Len(q) - 1) -> Task]
  BY <1>1, <1>2, TaskOfQueue
<1>4. r \in Seq(Task) /\ Len(r) = Len(q) - 1 /\ DOMAIN r = 1..(Len(q) - 1)
  BY <1>1, <1>3
<1> QED
  BY <1>1, <1>2, <1>4 DEF k, r

-----------------------------------------------------------------------------
(* The queue's invariant.  PriorityFifo needs SequencesIssued: the newcomer *)
(* is put behind its equals, whose numbers must be smaller than its own.    *)

QueueInv ==
  /\ QueueTypeOK
  /\ SequencesIssued
  /\ PriorityFifo
  /\ NoDuplicates

\* In an ordered deque all tasks behind the insert position are strictly less
\* urgent than the newcomer.
LEMMA LessUrgentBehind ==
  ASSUME QueueTypeOK, PriorityFifo, NEW p \in Nat
  PROVE  \A i \in InsertPosition(items, p)..Len(items) : Priority[items[i].id] < p
<1> DEFINE n == Len(items)
           k == InsertPosition(items, p)
<1>1. items \in Seq(Task)
  BY DEF QueueTypeOK
<1>2. /\ n \in Nat
      /\ DOMAIN items = 1..n
      /\ \A i \in 1..n : Priority[items[i].id] \in Nat
  BY <1>1, TaskOfQueue
<1>3. k \in 1..(n + 1) /\ (k <= n => Priority[items[k].id] < p)
  BY <1>1, InsertPositionFound
<1> HIDE DEF k, n
<1>4. ASSUME NEW i \in k..n PROVE Priority[items[i].id] < p
  <2>1. i \in 1..n /\ k \in 1..n /\ (k = i \/ k < i) /\ k <= n
    BY <1>2, <1>3
  <2>2. Priority[items[k].id] < p
    BY <1>3, <2>1
  <2>3. k < i => Priority[items[k].id] >= Priority[items[i].id]
    BY <1>2, <2>1 DEF PriorityFifo
  <2> QED
    BY <1>2, <2>1, <2>2, <2>3
<1> QED
  BY <1>4 DEF k, n

\* enqueue of a test that is not queued keeps the invariant.
LEMMA EnqueueStep ==
  ASSUME QueueInv, NEW t \in Tests, ~Queued(t), Enqueue(t)
  PROVE  QueueInv'
<1> DEFINE n == Len(items)
           task == [id |-> t, sequence |-> sequence + 1]
           p == Priority[t]
           k == InsertPosition(items, p)
<1> USE DEF QueueInv
<1>1. items \in Seq(Task) /\ sequence \in Nat /\ task \in Task /\ p \in Nat
  BY PriorityIs DEF QueueTypeOK, Task
<1>2. /\ n \in Nat
      /\ DOMAIN items = 1..n
      /\ \A i \in 1..n : items[i].sequence \in Nat /\ Priority[items[i].id] \in Nat
  BY <1>1, TaskOfQueue
<1>3. /\ k \in 1..(n + 1)
      /\ items' \in Seq(Task)
      /\ DOMAIN items' = 1..(n + 1)
      /\ \A i \in 1..(n + 1) :
           items'[i] = IF i < k THEN items[i] ELSE IF i = k THEN task ELSE items[i - 1]
  <2>1. items' = InsertTask(items, task) /\ task.id = t
    BY DEF Enqueue
  <2> HIDE DEF task
  <2> QED
    BY <1>1, <2>1, InsertTaskEffect
<1>4. /\ \A i \in 1..(k - 1) : Priority[items[i].id] >= p
      /\ k <= n => Priority[items[k].id] < p
  BY <1>1, InsertPositionFound
<1>5. \A i \in 1..n : items[i].id # t /\ items[i].sequence \in 1..sequence
  BY <1>2 DEF Queued, SequencesIssued
<1>6. \A i, j \in 1..n : i < j =>
        \/ Priority[items[i].id] > Priority[items[j].id]
        \/ /\ Priority[items[i].id] = Priority[items[j].id]
           /\ items[i].sequence < items[j].sequence
  BY <1>2 DEF PriorityFifo
<1>7. \A i, j \in 1..n : items[i].id = items[j].id => i = j
  BY <1>2 DEF NoDuplicates
<1>8. task.id = t /\ task.sequence = sequence + 1
  OBVIOUS
<1>9. sequence' = sequence + 1 /\ closed' = closed
  BY DEF Enqueue
<1> HIDE DEF k, task, n, p
<1>10. \A i \in 1..(k - 1) : i \in 1..n
  BY <1>2, <1>3
<1>11. \A i \in k..n : Priority[items[i].id] < p
  BY <1>1, LessUrgentBehind DEF k, n
<1>12. QueueTypeOK'
  BY <1>1, <1>3, <1>9 DEF QueueTypeOK
<1>13. SequencesIssued'
  <2> SUFFICES ASSUME NEW i \in 1..(n + 1)
               PROVE  items'[i].sequence \in 1..(sequence + 1)
    BY <1>3, <1>9 DEF SequencesIssued
  <2>1. CASE i = k
    <3>1. items'[i] = task
      BY <1>2, <1>3, <2>1
    <3> QED
      BY <1>1, <1>8, <3>1
  <2>2. CASE i # k
    <3>1. PICK j \in 1..n : items'[i] = items[j]
      BY <1>2, <1>3, <2>2
    <3> QED
      BY <1>1, <1>2, <1>5, <3>1
  <2> QED
    BY <2>1, <2>2
<1>14. PriorityFifo'
  <2> SUFFICES ASSUME NEW i \in 1..(n + 1), NEW j \in 1..(n + 1), i < j
               PROVE  \/ Priority[items'[i].id] > Priority[items'[j].id]
                      \/ /\ Priority[items'[i].id] = Priority[items'[j].id]
                         /\ items'[i].sequence < items'[j].sequence
    BY <1>3 DEF PriorityFifo
  <2>1. CASE j < k
    <3>1. i \in 1..n /\ j \in 1..n
      BY <1>2, <1>3, <2>1
    <3>2. items'[i] = items[i] /\ items'[j] = items[j]
      BY <1>2, <1>3, <2>1
    <3> QED
      BY <1>6, <3>1, <3>2
  <2>2. CASE j = k
    <3>1. i \in 1..n /\ items'[i] = items[i] /\ items'[j] = task
      BY <1>2, <1>3, <2>2
    <3>2. Priority[items[i].id] >= p /\ items[i].sequence < sequence + 1
      BY <1>1, <1>3, <1>4, <1>5, <2>2, <3>1
    <3> QED
      BY <1>1, <1>2, <1>8, <3>1, <3>2 DEF p
  <2>3. CASE i = k
    <3>1. j - 1 \in k..n /\ items'[i] = task /\ items'[j] = items[j - 1]
      BY <1>2, <1>3, <2>3
    <3> QED
      BY <1>1, <1>2, <1>8, <1>11, <3>1 DEF p
  <2>4. CASE i < k /\ k < j
    <3>1. i \in 1..n /\ j - 1 \in 1..n /\ i < j - 1
      BY <1>2, <1>3, <2>4
    <3>2. items'[i] = items[i] /\ items'[j] = items[j - 1]
      BY <1>2, <1>3, <2>4
    <3> QED
      BY <1>6, <3>1, <3>2
  <2>5. CASE k < i
    <3>1. i - 1 \in 1..n /\ j - 1 \in 1..n /\ i - 1 < j - 1
      BY <1>2, <1>3, <2>5
    <3>2. items'[i] = items[i - 1] /\ items'[j] = items[j - 1]
      BY <1>2, <1>3, <2>5
    <3> QED
      BY <1>6, <3>1, <3>2
  <2> QED
    BY <1>2, <1>3, <2>1, <2>2, <2>3, <2>4, <2>5
<1>15. NoDuplicates'
  <2> SUFFICES ASSUME NEW i \in 1..(n + 1), NEW j \in 1..(n + 1), i < j
               PROVE  items'[i].id # items'[j].id
    BY <1>2, <1>3 DEF NoDuplicates
  <2> DEFINE old(x) == IF x < k THEN x ELSE x - 1
  <2>1. \A x \in 1..(n + 1) : x # k => old(x) \in 1..n /\ items'[x] = items[old(x)]
    BY <1>2, <1>3
  <2>2. items'[k] = task
    BY <1>2, <1>3
  <2>3. CASE i = k \/ j = k
    BY <1>5, <1>8, <2>1, <2>2, <2>3
  <2>4. CASE i # k /\ j # k
    <3>1. old(i) # old(j)
      BY <1>3, <2>4
    <3> QED
      BY <1>7, <2>1, <2>4, <3>1
  <2> QED
    BY <2>3, <2>4
<1> QED
  BY <1>12, <1>13, <1>14, <1>15

\* Removing the front keeps the invariant.
LEMMA DequeueStep ==
  ASSUME QueueInv, NEW t \in Tests, DequeueFront(t)
  PROVE  QueueInv'
<1> DEFINE n == Len(items)
<1> USE DEF QueueInv
<1>1. items \in Seq(Task) /\ items # <<>> /\ items' = Tail(items)
  BY DEF QueueTypeOK, DequeueFront
<1>2. n \in Nat /\ DOMAIN items = 1..n
  BY <1>1, TaskOfQueue
<1>3. /\ items' \in Seq(Task)
      /\ DOMAIN items' = 1..(n - 1)
      /\ \A i \in 1..(n - 1) : i + 1 \in 1..n /\ items'[i] = items[i + 1]
  <2>1. Tail(items) \in Seq(Task) /\ Len(Tail(items)) = n - 1
    BY <1>1, HeadTailProperties
  <2>2. \A i \in 1..(n - 1) : Tail(items)[i] = items[i + 1]
    BY <1>1, <2>1, HeadTailProperties
  <2>3. DOMAIN Tail(items) = 1..(n - 1)
    BY <2>1, LenProperties
  <2> QED
    BY <1>1, <1>2, <2>1, <2>2, <2>3
<1>4. sequence' = sequence /\ closed' = closed
  BY DEF DequeueFront
<1> HIDE DEF n
<1>5. QueueTypeOK'
  BY <1>3, <1>4 DEF QueueTypeOK
<1>6. SequencesIssued'
  BY <1>2, <1>3, <1>4 DEF SequencesIssued
<1>7. PriorityFifo'
  <2> SUFFICES ASSUME NEW i \in 1..(n - 1), NEW j \in 1..(n - 1), i < j
               PROVE  \/ Priority[items'[i].id] > Priority[items'[j].id]
                      \/ /\ Priority[items'[i].id] = Priority[items'[j].id]
                         /\ items'[i].sequence < items'[j].sequence
    BY <1>3 DEF PriorityFifo
  <2>1. i + 1 \in DOMAIN items /\ j + 1 \in DOMAIN items /\ i + 1 < j + 1
    BY <1>2, <1>3
  <2> QED
    BY <1>3, <2>1 DEF PriorityFifo
<1>8. NoDuplicates'
  BY <1>2, <1>3 DEF NoDuplicates
<1> QED
  BY <1>5, <1>6, <1>7, <1>8

\* Erasing a cancelled test from anywhere in the deque keeps the invariant.
LEMMA CancelStep ==
  ASSUME QueueInv, NEW t \in Tests, CancelQueued(t)
  PROVE  QueueInv'
<1> DEFINE n == Len(items)
           k == PositionOf(items, t)
           old(i) == IF i < k THEN i ELSE i + 1
<1> USE DEF QueueInv
<1>1. items \in Seq(Task) /\ (\E i \in DOMAIN items : items[i].id = t)
  BY DEF QueueTypeOK, CancelQueued, Queued
<1>2. n \in Nat /\ DOMAIN items = 1..n
  BY <1>1, TaskOfQueue
<1>3. /\ k \in 1..n
      /\ items' \in Seq(Task)
      /\ DOMAIN items' = 1..(n - 1)
      /\ \A i \in 1..(n - 1) : items'[i] = IF i < k THEN items[i] ELSE items[i + 1]
  <2>1. items' = EraseTask(items, t)
    BY DEF CancelQueued
  <2> QED
    BY <1>1, <2>1, EraseTaskEffect
<1>4. sequence' = sequence /\ closed' = closed
  BY DEF CancelQueued
<1> HIDE DEF n, k
<1>5. \A i \in 1..(n - 1) : old(i) \in DOMAIN items /\ items'[i] = items[old(i)]
  BY <1>2, <1>3
<1>6. \A i, j \in 1..(n - 1) : i < j => old(i) < old(j)
  BY <1>2, <1>3
<1> HIDE DEF old
<1>7. QueueTypeOK'
  BY <1>3, <1>4 DEF QueueTypeOK
<1>8. SequencesIssued'
  BY <1>3, <1>4, <1>5 DEF SequencesIssued
<1>9. PriorityFifo'
  BY <1>3, <1>5, <1>6 DEF PriorityFifo
<1>10. NoDuplicates'
  <2> SUFFICES ASSUME NEW i \in 1..(n - 1), NEW j \in 1..(n - 1),
                      items'[i].id = items'[j].id
               PROVE  i = j
    BY <1>3 DEF NoDuplicates
  <2>1. old(i) = old(j)
    BY <1>5 DEF NoDuplicates
  <2> QED
    BY <1>2, <1>3, <2>1 DEF old
<1> QED
  BY <1>7, <1>8, <1>9, <1>10

\* close and reopen do not touch the deque.
LEMMA CloseStep ==
  ASSUME QueueInv, Close \/ Reopen \/ UNCHANGED queueVars
  PROVE  QueueInv'
<1>1. items' = items /\ sequence' = sequence /\ closed' \in BOOLEAN
  BY DEF QueueInv, QueueTypeOK, Close, Reopen, queueVars
<1> QED
  BY <1>1 DEF QueueInv, QueueTypeOK, SequencesIssued, PriorityFifo, NoDuplicates

-----------------------------------------------------------------------------
(* Which tests are queued after an operation.                              *)

\* enqueue adds its test and nothing else.
LEMMA EnqueueAdds ==
  ASSUME QueueInv, NEW t \in Tests, Enqueue(t)
  PROVE  \A u : Queued(u)' <=> (Queued(u) \/ u = t)
<1> DEFINE n == Len(items)
           task == [id |-> t, sequence |-> sequence + 1]
           k == InsertPosition(items, Priority[t])
<1>1. items \in Seq(Task) /\ task \in Task /\ task.id = t /\ items' = InsertTask(items, task)
  BY DEF QueueInv, QueueTypeOK, Task, Enqueue
<1> HIDE DEF task
<1>2. /\ k \in 1..(n + 1)
      /\ DOMAIN items' = 1..(n + 1)
      /\ \A i \in 1..(n + 1) :
           items'[i] = IF i < k THEN items[i] ELSE IF i = k THEN task ELSE items[i - 1]
  BY <1>1, InsertTaskEffect
<1>3. n \in Nat /\ DOMAIN items = 1..n
  BY <1>1, TaskOfQueue
<1> HIDE DEF k, n
<1> SUFFICES ASSUME NEW u PROVE Queued(u)' <=> (Queued(u) \/ u = t)
  OBVIOUS
<1>4. ASSUME NEW i \in 1..(n + 1), items'[i].id = u PROVE Queued(u) \/ u = t
  <2>1. CASE i = k
    BY <1>1, <1>2, <1>4, <2>1
  <2>2. CASE i # k
    <3>1. PICK j \in 1..n : items'[i] = items[j]
      BY <1>2, <1>3, <2>2
    <3> QED
      BY <1>3, <1>4, <3>1 DEF Queued
  <2> QED
    BY <2>1, <2>2
<1>5. ASSUME NEW j \in 1..n, items[j].id = u PROVE Queued(u)'
  <2>1. PICK i \in 1..(n + 1) : items'[i] = items[j]
    <3>1. CASE j < k
      BY <1>2, <1>3, <3>1
    <3>2. CASE ~(j < k)
      <4>1. j + 1 \in 1..(n + 1) /\ items'[j + 1] = items[j]
        BY <1>2, <1>3, <3>2
      <4> QED
        BY <4>1
    <3> QED
      BY <3>1, <3>2
  <2> QED
    BY <1>2, <1>5, <2>1 DEF Queued
<1>6. u = t => Queued(u)'
  <2>1. items'[k] = task
    BY <1>2, <1>3
  <2> QED
    BY <1>1, <1>2, <2>1 DEF Queued
<1> QED
  BY <1>2, <1>3, <1>4, <1>5, <1>6 DEF Queued

\* Taking the front test off the deque removes it and nothing else.
LEMMA DequeueTakes ==
  ASSUME QueueInv, NEW t \in Tests, DequeueFront(t)
  PROVE  Queued(t) /\ \A u : Queued(u)' <=> (Queued(u) /\ u # t)
<1> DEFINE n == Len(items)
<1>1. items \in Seq(Task) /\ items # <<>> /\ items' = Tail(items) /\ Head(items).id = t
  BY DEF QueueInv, QueueTypeOK, DequeueFront
<1>2. n \in Nat /\ n # 0 /\ DOMAIN items = 1..n
  BY <1>1, TaskOfQueue, EmptySeq
<1>3. items[1].id = t
  BY <1>1
<1>4. DOMAIN items' = 1..(n - 1) /\ \A i \in 1..(n - 1) : items'[i] = items[i + 1]
  <2>1. Tail(items) \in Seq(Task) /\ Len(Tail(items)) = n - 1
    BY <1>1, HeadTailProperties
  <2>2. \A i \in 1..(n - 1) : Tail(items)[i] = items[i + 1]
    BY <1>1, <2>1, HeadTailProperties
  <2> QED
    BY <1>1, <2>1, <2>2, LenProperties
<1> HIDE DEF n
<1>5. \A i \in 1..n : items[i].id = t => i = 1
  BY <1>2, <1>3 DEF QueueInv, NoDuplicates
<1>6. ASSUME NEW u PROVE Queued(u)' <=> (Queued(u) /\ u # t)
  <2>1. ASSUME NEW i \in 1..(n - 1), items'[i].id = u PROVE Queued(u) /\ u # t
    <3>1. i + 1 \in 1..n /\ i + 1 # 1 /\ items[i + 1].id = u
      BY <1>2, <1>4, <2>1
    <3> QED
      BY <1>2, <1>5, <3>1 DEF Queued
  <2>2. ASSUME NEW j \in 1..n, items[j].id = u, u # t PROVE Queued(u)'
    <3>1. j - 1 \in 1..(n - 1) /\ items'[j - 1] = items[j]
      BY <1>2, <1>3, <1>4, <2>2
    <3> QED
      BY <1>4, <2>2, <3>1 DEF Queued
  <2> QED
    BY <1>2, <1>4, <2>1, <2>2 DEF Queued
<1> QED
  BY <1>2, <1>3, <1>6 DEF Queued

\* Cancelling a queued test removes it and nothing else.
LEMMA CancelTakes ==
  ASSUME QueueInv, NEW t \in Tests, CancelQueued(t)
  PROVE  \A u : Queued(u)' <=> (Queued(u) /\ u # t)
<1> DEFINE n == Len(items)
           k == PositionOf(items, t)
<1>1. items \in Seq(Task) /\ (\E i \in DOMAIN items : items[i].id = t)
      /\ items' = EraseTask(items, t)
  BY DEF QueueInv, QueueTypeOK, CancelQueued, Queued
<1>2. n \in Nat /\ DOMAIN items = 1..n
  BY <1>1, TaskOfQueue
<1>3. /\ k \in 1..n
      /\ items[k].id = t
      /\ DOMAIN items' = 1..(n - 1)
      /\ \A i \in 1..(n - 1) : items'[i] = IF i < k THEN items[i] ELSE items[i + 1]
  BY <1>1, EraseTaskEffect
<1> HIDE DEF n, k
<1>4. \A i \in 1..n : items[i].id = t => i = k
  BY <1>2, <1>3 DEF QueueInv, NoDuplicates
<1> SUFFICES ASSUME NEW u PROVE Queued(u)' <=> (Queued(u) /\ u # t)
  OBVIOUS
<1>5. ASSUME NEW i \in 1..(n - 1), items'[i].id = u PROVE Queued(u) /\ u # t
  <2>1. PICK j \in 1..n : j # k /\ items'[i] = items[j]
    <3>1. CASE i < k
      BY <1>2, <1>3, <3>1
    <3>2. CASE ~(i < k)
      <4>1. i + 1 \in 1..n /\ i + 1 # k /\ items'[i] = items[i + 1]
        BY <1>2, <1>3, <3>2
      <4> QED
        BY <4>1
    <3> QED
      BY <3>1, <3>2
  <2> QED
    BY <1>2, <1>4, <1>5, <2>1 DEF Queued
<1>6. ASSUME NEW j \in 1..n, items[j].id = u, u # t PROVE Queued(u)'
  <2>1. PICK i \in 1..(n - 1) : items'[i] = items[j]
    <3>1. CASE j < k
      BY <1>2, <1>3, <3>1
    <3>2. CASE ~(j < k)
      <4>1. j - 1 \in 1..(n - 1) /\ items'[j - 1] = items[j]
        BY <1>2, <1>3, <1>6, <3>2
      <4> QED
        BY <4>1
    <3> QED
      BY <3>1, <3>2
  <2> QED
    BY <1>3, <1>6, <2>1 DEF Queued
<1> QED
  BY <1>2, <1>3, <1>5, <1>6 DEF Queued

-----------------------------------------------------------------------------
\* The invariant holds of the empty queue and is kept by every operation.
LEMMA QueueInvariant == QueueSpec => []QueueInv
<1>1. QueueInit => QueueInv
  <2> SUFFICES ASSUME QueueInit PROVE QueueInv
    OBVIOUS
  <2>1. items = <<>> /\ items \in Seq(Task) /\ DOMAIN items = {}
    BY EmptySeq DEF QueueInit
  <2>2. QueueTypeOK
    BY <2>1 DEF QueueInit, QueueTypeOK
  <2> QED
    BY <2>1, <2>2 DEF QueueInv, SequencesIssued, PriorityFifo, NoDuplicates
<1>2. QueueInv /\ [QueueNext]_queueVars => QueueInv'
  <2> SUFFICES ASSUME QueueInv, [QueueNext]_queueVars PROVE QueueInv'
    OBVIOUS
  <2>1. CASE \E t \in Tests : ~Queued(t) /\ Enqueue(t)
    BY <2>1, EnqueueStep
  <2>2. CASE \E t \in Tests : DequeueFront(t)
    BY <2>2, DequeueStep
  <2>3. CASE \E t \in Tests : CancelQueued(t)
    BY <2>3, CancelStep
  <2>4. CASE Close \/ Reopen \/ UNCHANGED queueVars
    BY <2>4, CloseStep
  <2> QED
    BY <2>1, <2>2, <2>3, <2>4 DEF QueueNext
<1> QED
  BY <1>1, <1>2, PTL DEF QueueSpec

\* The deque is well typed at all times.
THEOREM QueueTypeCorrect == QueueSpec => []QueueTypeOK
BY QueueInvariant, PTL DEF QueueInv

\* enqueue's promise holds at all times, for any number of tasks and any
\* priorities: descending priority and, within a priority, order of arrival.
THEOREM QueueOrdered == QueueSpec => []PriorityFifo
BY QueueInvariant, PTL DEF QueueInv

\* No test is ever queued twice, so cancel takes all there is of a test.
THEOREM QueueDistinct == QueueSpec => []NoDuplicates
BY QueueInvariant, PTL DEF QueueInv

\* What one step does to the order of the tasks already queued.
LEMMA OvertakingStep ==
  ASSUME QueueInv, [QueueNext]_queueVars,
         NEW i \in DOMAIN items', NEW j \in DOMAIN items', i < j,
         \E k \in DOMAIN items : items[k] = items'[j],
         ~ \E k \in DOMAIN items : items[k] = items'[i]
  PROVE  Priority[items'[i].id] > Priority[items'[j].id]
<1> DEFINE n == Len(items)
<1>1. items \in Seq(Task) /\ sequence \in Nat /\ QueueTypeOK /\ PriorityFifo
  BY DEF QueueInv, QueueTypeOK
<1>2. n \in Nat /\ DOMAIN items = 1..n
      /\ \A k \in 1..n : items[k].sequence \in 1..sequence /\ Priority[items[k].id] \in Nat
  BY <1>1, TaskOfQueue DEF QueueInv, SequencesIssued
\* A newcomer stands in front of strictly less urgent tasks only.
<1>3. ASSUME NEW t \in Tests, Enqueue(t)
      PROVE  Priority[items'[i].id] > Priority[items'[j].id]
  <2> DEFINE task == [id |-> t, sequence |-> sequence + 1]
             p == Priority[t]
             k == InsertPosition(items, p)
  <2>1. task \in Task /\ p \in Nat /\ task.id = t /\ items' = InsertTask(items, task)
    BY <1>1, <1>3, PriorityIs DEF Task, Enqueue
  <2> HIDE DEF task
  <2>2. /\ k \in 1..(n + 1)
        /\ DOMAIN items' = 1..(n + 1)
        /\ \A x \in 1..(n + 1) :
             items'[x] = IF x < k THEN items[x] ELSE IF x = k THEN task ELSE items[x - 1]
    BY <1>1, <2>1, InsertTaskEffect
  <2>3. \A x \in k..n : Priority[items[x].id] < p
    BY <1>1, <2>1, LessUrgentBehind
  <2> HIDE DEF k, n, p
  <2>4. i = k
    <3>1. i < k => i \in 1..n /\ items'[i] = items[i]
      BY <1>2, <2>2
    <3>2. i > k => i - 1 \in 1..n /\ items'[i] = items[i - 1]
      BY <1>2, <2>2
    <3>3. i \in Nat /\ k \in Nat
      BY <1>2, <2>2
    <3> QED
      BY <1>2, <3>1, <3>2, <3>3
  <2>5. items'[i] = task /\ j - 1 \in k..n /\ items'[j] = items[j - 1]
    BY <1>2, <2>2, <2>4
  <2>6. j - 1 \in 1..n
    BY <1>2, <2>2, <2>5
  <2> QED
    BY <1>2, <2>1, <2>3, <2>5, <2>6 DEF p
\* The other operations bring no newcomer.
<1>4. ASSUME NEW t \in Tests, DequeueFront(t) PROVE FALSE
  <2>1. items # <<>> /\ items' = Tail(items)
    BY <1>4 DEF DequeueFront
  <2>2. Tail(items) \in Seq(Task) /\ Len(Tail(items)) = n - 1
    BY <1>1, <2>1, HeadTailProperties
  <2>3. i \in 1..(n - 1) /\ items'[i] = items[i + 1]
    BY <1>1, <2>1, <2>2, HeadTailProperties, LenProperties
  <2> QED
    BY <1>2, <2>3
<1>5. ASSUME NEW t \in Tests, CancelQueued(t) PROVE FALSE
  <2>1. items' = EraseTask(items, t) /\ \E k \in DOMAIN items : items[k].id = t
    BY <1>5 DEF CancelQueued, Queued
  <2>2. i \in 1..(n - 1) /\ (items'[i] = items[i] \/ items'[i] = items[i + 1])
    BY <1>1, <2>1, EraseTaskEffect
  <2> QED
    BY <1>2, <2>2
<1>6. CASE Close \/ Reopen \/ UNCHANGED queueVars
  BY <1>6 DEF Close, Reopen, queueVars
<1> QED
  BY <1>3, <1>4, <1>5, <1>6 DEF QueueNext

\* In every step, whatever comes to stand in front of a task that was already
\* queued is strictly more urgent than it.
THEOREM QueueOvertaking == QueueSpec => OvertakenOnlyByUrgent
<1>1. QueueInv /\ [QueueNext]_queueVars =>
        [\A i, j \in DOMAIN items' :
           /\ i < j
           /\ \E k \in DOMAIN items : items[k] = items'[j]
           /\ ~ \E k \in DOMAIN items : items[k] = items'[i]
           => Priority[items'[i].id] > Priority[items'[j].id]]_queueVars
  BY OvertakingStep
<1> QED
  BY <1>1, QueueInvariant, PTL DEF QueueSpec, OvertakenOnlyByUrgent

-----------------------------------------------------------------------------
(* The inductive invariant.                                                *)

\* What a thread's program counter says about its local variables.
ClientsConsistent ==
  \A c \in Clients :
    /\ client[c].pc = "idle" => client[c].files = {}
    /\ client[c].pc \notin {"idle", "removeFiles"} => client[c].test \in Tests
    /\ client[c].pc \in {"cancelPersist", "cancelPublish"} => client[c].popped

WorkersConsistent ==
  \A w \in Workers :
    /\ worker[w].pc \notin {"top", "wait", "exited"} => worker[w].test \in Tests
    /\ worker[w].pc \in {"persist", "publish"} => worker[w].verdict \in Terminal

\* One name for the three kinds of hands a test can be in.
Hands == Clients \cup Workers \cup {"queue"}

Owns(o, t) ==
  \/ o \in Clients /\ ClientOwns(o, t)
  \/ o \in Workers /\ WorkerOwns(o, t)
  \/ o = "queue" /\ Queued(t)

\* A test is unfinished exactly while somebody holds it, and nobody shares it.
Ownership ==
  \A t \in Tests :
    /\ recState[t] \in Active <=> \E o \in Hands : Owns(o, t)
    /\ \A o, p \in Hands : Owns(o, t) /\ Owns(p, t) => o = p

\* Only ids that were handed out have records or files.
BornFirst ==
  \A t \in Tests : recState[t] # Absent \/ disk[t] # Absent => born[t] # 0

\* Between two processes there are no records and no API calls.
DownIsEmpty ==
  mode = "down" =>
    /\ \A t \in Tests : recState[t] = Absent
    /\ \A c \in Clients : client[c].pc = "idle"

\* A file to be deleted belongs to an erased record, and its id is used up.
FilesOfErased ==
  \A c \in Clients : \A t \in client[c].files : recState[t] = Absent /\ born[t] # 0

\* Whoever is about to publish a verdict has saved it, or has tried to.
PublishReady ==
  /\ \A c \in Clients : client[c].pc = "cancelPublish" =>
       client[c].test \in unsaved \/ disk[client[c].test] = "CANCELLED"
  /\ \A w \in Workers : worker[w].pc = "publish" =>
       worker[w].test \in unsaved \/ disk[worker[w].test] = worker[w].verdict

\* Ownership alone is not inductive: it needs fresh ids (BornFirst), threads
\* that remember what they hold (ClientsConsistent, WorkersConsistent), a queue
\* without duplicates and nothing left over from the previous process.  That a
\* saved verdict stays on disk until it is published needs, besides, that a
\* file waiting for deletion is not the file of a live record.
Inv ==
  /\ TypeOK
  /\ QueueInv
  /\ ClientsConsistent
  /\ WorkersConsistent
  /\ Ownership
  /\ BornFirst
  /\ DownIsEmpty
  /\ FilesOfErased
  /\ PublishReady
  /\ PersistBeforeVisible

-----------------------------------------------------------------------------
(* The queue's operations as the engine's steps take them.                 *)

LEMMA SubmitQueues ==
  ASSUME QueueInv, NEW t \in Tests, ~Queued(t), Enqueue(t)
  PROVE  /\ QueueInv'
         /\ \A u : Queued(u)' <=> (Queued(u) \/ u = t)
BY EnqueueStep, EnqueueAdds

LEMMA WorkerTakes ==
  ASSUME QueueInv, NEW t \in Tests, DequeueFront(t)
  PROVE  /\ QueueInv'
         /\ Queued(t)
         /\ \A u : Queued(u)' <=> (Queued(u) /\ u # t)
BY DequeueStep, DequeueTakes

LEMMA CancelTakesOff ==
  ASSUME QueueInv, NEW t \in Tests, CancelQueued(t)
  PROVE  /\ QueueInv'
         /\ \A u : Queued(u)' <=> (Queued(u) /\ u # t)
BY CancelStep, CancelTakes

LEMMA QueueUntouched ==
  ASSUME QueueInv, Close \/ Reopen \/ UNCHANGED queueVars
  PROVE  /\ QueueInv'
         /\ \A u : Queued(u)' <=> Queued(u)
<1>1. items' = items /\ sequence' = sequence /\ closed' \in BOOLEAN
  BY DEF Close, Reopen, queueVars, QueueInv, QueueTypeOK
<1>2. QueueInv'
  BY <1>1 DEF QueueInv, QueueTypeOK, SequencesIssued,
              PriorityFifo, NoDuplicates, Task
<1> QED
  BY <1>1, <1>2 DEF Queued

LEMMA QueueEmptied ==
  ASSUME items' = <<>>, sequence' = 0, closed' = FALSE
  PROVE  /\ QueueInv'
         /\ \A u : ~Queued(u)'
<1>1. items' \in Seq(Task) /\ DOMAIN items' = {}
  OBVIOUS
<1> QED
  BY <1>1 DEF QueueInv, QueueTypeOK, SequencesIssued,
              PriorityFifo, NoDuplicates, Queued

-----------------------------------------------------------------------------
(* Types and local variables of the threads, part by part.                 *)

RecordTypes ==
  /\ recState \in [Tests -> Active \cup Terminal \cup {Absent}]
  /\ hasResult \in [Tests -> BOOLEAN]
  /\ born \in [Tests -> Nat]
  /\ cancelFlags \in SUBSET Tests
  /\ flag \in [Tests -> BOOLEAN]

ClientTypes ==
  /\ client \in [Clients -> [pc: ClientPcs, test: Tests \cup {NoTest},
                             popped: BOOLEAN, files: SUBSET Tests]]
  /\ ClientsConsistent

WorkerTypes ==
  /\ worker \in [Workers -> [pc: WorkerPcs, test: Tests \cup {NoTest},
                             verdict: Terminal \cup {"none"}]]
  /\ WorkersConsistent

StoreTypes ==
  /\ disk \in [Tests -> Terminal \cup {Absent}]
  /\ unsaved \in SUBSET Tests

NoteTypes ==
  /\ counted \in [Tests -> Nat]
  /\ finals \in [Tests -> Nat]
  /\ acked \in SUBSET Tests

ProcTypes == mode \in Modes /\ crashes \in Nat

Types ==
  /\ RecordTypes /\ ClientTypes /\ WorkerTypes
  /\ StoreTypes /\ NoteTypes /\ ProcTypes

LEMMA TypesOfEngine ==
  ASSUME QueueInv
  PROVE  Types <=> TypeOK /\ ClientsConsistent /\ WorkersConsistent
BY DEF QueueInv, TypeOK, Types, RecordTypes, ClientTypes, WorkerTypes, StoreTypes,
                  NoteTypes, ProcTypes

LEMMA SameTypes ==
  /\ RecordTypes /\ UNCHANGED <<recVars, flagVars>> => RecordTypes'
  /\ ClientTypes /\ UNCHANGED client => ClientTypes'
  /\ WorkerTypes /\ UNCHANGED worker => WorkerTypes'
  /\ StoreTypes /\ UNCHANGED storeVars => StoreTypes'
  /\ NoteTypes /\ UNCHANGED noteVars => NoteTypes'
  /\ ProcTypes /\ UNCHANGED procVars => ProcTypes'
BY DEF RecordTypes, ClientTypes, WorkerTypes, StoreTypes, NoteTypes, ProcTypes, recVars,
       flagVars, storeVars, noteVars, procVars, ClientsConsistent, WorkersConsistent

LEMMA EraseTyped ==
  ASSUME RecordTypes, NEW S, EraseRecords(S), UNCHANGED <<born, flag>>
  PROVE  RecordTypes'
<1>1. hasResult' \in [Tests -> BOOLEAN]
  BY Zenon DEF RecordTypes, EraseRecords
<1>2. flag' \in [Tests -> BOOLEAN]
  BY DEF RecordTypes
<1> QED
  BY <1>1, <1>2 DEF RecordTypes, EraseRecords

LEMMA PersistTyped ==
  ASSUME StoreTypes, NEW t \in Tests, NEW v \in Terminal, Persist(t, v)
  PROVE  StoreTypes'
BY DEF StoreTypes, Persist

\* A thread goes to another point of its operation, or ends the operation.
LEMMA GotoTyped ==
  ASSUME ClientTypes, NEW c \in Clients, NEW pc \in ClientPcs \ {"idle"},
         Goto(c, pc),
         pc # "removeFiles" => client[c].test \in Tests,
         pc \in {"cancelPersist", "cancelPublish"} => client[c].popped
  PROVE  ClientTypes'
BY DEF ClientTypes, ClientsConsistent, Goto, ClientPcs

LEMMA FinishTyped ==
  ASSUME ClientTypes, NEW c \in Clients, Finish(c)
  PROVE  ClientTypes'
BY DEF ClientTypes, ClientsConsistent, Finish, IdleClient, ClientPcs

LEMMA WorkerGotoTyped ==
  ASSUME WorkerTypes, NEW w \in Workers, NEW pc \in WorkerPcs,
         WorkerGoto(w, pc),
         pc \notin {"top", "wait", "exited"} => worker[w].test \in Tests,
         pc \in {"persist", "publish"} => worker[w].verdict \in Terminal
  PROVE  WorkerTypes'
BY DEF WorkerTypes, WorkersConsistent, WorkerGoto, WorkerPcs

LEMMA WorkerLoopTyped ==
  ASSUME WorkerTypes, NEW w \in Workers, WorkerLoop(w)
  PROVE  WorkerTypes'
BY DEF WorkerTypes, WorkersConsistent, WorkerLoop, IdleWorker, WorkerPcs

LEMMA ClientStepTyped ==
  ASSUME Types, NEW c \in Clients, ClientBegins(c) \/ ClientContinues(c)
  PROVE  Types'
<1> USE SameTypes DEF Types
<1>1. ASSUME NEW t \in Tests, SubmitInsert(c, t) PROVE Types'
  <2>1. Cardinality({u \in Tests : born[u] # 0}) \in Nat
    BY EngineAssumption, FS_Subset, FS_CardinalityType DEF EngineAssumption
  <2>2. RecordTypes'
    <3>1. hasResult' \in [Tests -> BOOLEAN] /\ flag' \in [Tests -> BOOLEAN]
      BY <1>1 DEF SubmitInsert, RecordTypes
    <3> QED
      BY <1>1, <2>1, <3>1 DEF SubmitInsert, RecordTypes, Active
  <2>3. ClientTypes'
    BY <1>1 DEF SubmitInsert, ClientTypes, ClientsConsistent, ClientPcs
  <2> QED
    BY <1>1, <2>2, <2>3 DEF SubmitInsert
<1>2. ASSUME NEW t \in Tests, CancelDequeue(c, t) PROVE Types'
  <2>1. \/ client' = [client EXCEPT ![c].pc = "cancel", ![c].test = t, ![c].popped = TRUE]
        \/ client' = [client EXCEPT ![c].pc = "cancel", ![c].test = t, ![c].popped = FALSE]
    <3>1. Queued(t) \in BOOLEAN
      BY DEF Queued
    <3> QED
      BY <1>2, <3>1, Zenon DEF CancelDequeue
  <2>2. ClientTypes'
    BY <2>1 DEF ClientTypes, ClientsConsistent, ClientPcs
  <2> QED
    BY <1>2, <2>2 DEF CancelDequeue
<1>3. ASSUME NEW t \in Tests, Remove(c, t) PROVE Types'
  <2>1. ClientTypes'
    BY <1>3 DEF Remove, ClientTypes, ClientsConsistent, ClientPcs
  <2> QED
    BY <1>3, <2>1, EraseTyped DEF Remove
<1>4. ASSUME ClearHistory(c) PROVE Types'
  <2>1. Finished \in SUBSET Tests
    BY DEF Finished
  <2>2. ClientTypes'
    BY <1>4, <2>1 DEF ClearHistory, ClientTypes, ClientsConsistent, ClientPcs
  <2> QED
    BY <1>4, <2>2, EraseTyped DEF ClearHistory
<1>5. ASSUME SubmitTrim(c) PROVE Types'
  <2>1. TrimVictims(Finished, Present) \in SUBSET Tests
    BY DEF TrimVictims, Finished
  <2>2. ClientTypes'
    BY <1>5, <2>1 DEF SubmitTrim, ClientTypes, ClientsConsistent, ClientPcs
  <2> QED
    BY <1>5, <2>2, EraseTyped DEF SubmitTrim
<1>6. ASSUME SubmitEnqueue(c) PROVE Types'
  BY <1>6, FinishTyped DEF SubmitEnqueue
<1>7. ASSUME NEW t \in Tests, RemoveFile(c, t) PROVE Types'
  <2>1. ClientTypes'
    BY <1>7 DEF RemoveFile, ClientTypes, ClientsConsistent, ClientPcs
  <2>2. StoreTypes'
    BY <1>7 DEF RemoveFile, StoreTypes
  <2> QED
    BY <1>7, <2>1, <2>2 DEF RemoveFile
<1>8. ASSUME RemoveDone(c) PROVE Types'
  BY <1>8, FinishTyped DEF RemoveDone
<1>9. ASSUME CancelLookup(c) PROVE Types'
  <2>1. ClientTypes'
    BY <1>9, FinishTyped, GotoTyped DEF CancelLookup, ClientPcs, ClientTypes, ClientsConsistent
  <2> QED
    BY <1>9, <2>1 DEF CancelLookup
<1>10. ASSUME CancelPersist(c) PROVE Types'
  <2>1. client[c].test \in Tests /\ client[c].popped
    BY <1>10 DEF CancelPersist, ClientTypes, ClientsConsistent
  <2>2. ClientTypes'
    BY <1>10, <2>1, GotoTyped DEF CancelPersist, ClientPcs
  <2>3. StoreTypes'
    BY <1>10, <2>1, PersistTyped DEF CancelPersist, Terminal
  <2> QED
    BY <1>10, <2>2, <2>3 DEF CancelPersist
<1>11. ASSUME CancelPublish(c) PROVE Types'
  <2>1. ClientTypes'
    BY <1>11, GotoTyped DEF CancelPublish, ClientPcs, ClientTypes, ClientsConsistent
  <2>2. recState' \in [Tests -> Active \cup Terminal \cup {Absent}]
    BY <1>11 DEF CancelPublish, RecordTypes, Terminal
  <2>3. hasResult' \in [Tests -> BOOLEAN] /\ flag' \in [Tests -> BOOLEAN]
    BY <1>11 DEF CancelPublish, RecordTypes
  <2>4. RecordTypes'
    BY <1>11, <2>2, <2>3 DEF CancelPublish, RecordTypes
  <2> QED
    BY <1>11, <2>1, <2>4 DEF CancelPublish
<1>12. ASSUME CancelStats(c) PROVE Types'
  <2>1. ClientTypes'
    BY <1>12, GotoTyped DEF CancelStats, ClientPcs, ClientTypes, ClientsConsistent
  <2>2. NoteTypes'
    BY <1>12 DEF CancelStats, NoteTypes, ClientTypes, ClientsConsistent
  <2> QED
    BY <1>12, <2>1, <2>2 DEF CancelStats
<1>13. ASSUME CancelEvent(c) PROVE Types'
  <2>1. NoteTypes'
    BY <1>13 DEF CancelEvent, NoteTypes, ClientTypes, ClientsConsistent
  <2> QED
    BY <1>13, <2>1, FinishTyped DEF CancelEvent
<1>14. ASSUME CancelFlag(c) PROVE Types'
  <2>1. NoteTypes'
    BY <1>14 DEF CancelFlag, NoteTypes, ClientTypes, ClientsConsistent
  <2>2. RecordTypes'
    <3>1. hasResult' \in [Tests -> BOOLEAN] /\ flag' \in [Tests -> BOOLEAN]
      BY <1>14 DEF CancelFlag, RecordTypes, recVars
    <3> QED
      BY <1>14, <3>1 DEF CancelFlag, RecordTypes, recVars
  <2> QED
    BY <1>14, <2>1, <2>2, FinishTyped DEF CancelFlag
<1> QED
  BY <1>1, <1>2, <1>3, <1>4, <1>5, <1>6, <1>7, <1>8, <1>9, <1>10, <1>11, <1>12, <1>13, <1>14
     DEF ClientBegins, ClientContinues

LEMMA WorkerStepTyped ==
  ASSUME Types, NEW w \in Workers, WorkerSteps(w) \/ WorkerProgress(w)
  PROVE  Types'
<1> USE SameTypes DEF Types
<1>1. ASSUME WorkerTop(w) PROVE Types'
  <2>1. PICK pc \in {"exited", "wait"} : WorkerGoto(w, pc)
    BY <1>1 DEF WorkerTop
  <2>2. WorkerTypes'
    BY <2>1, WorkerGotoTyped DEF WorkerPcs
  <2> QED
    BY <1>1, <2>2 DEF WorkerTop
<1>2. ASSUME WorkerWaitEnds(w) PROVE Types'
  BY <1>2, WorkerGotoTyped DEF WorkerWaitEnds, WorkerPcs
<1>3. ASSUME NEW t \in Tests, WorkerDequeue(w, t) PROVE Types'
  <2>1. WorkerTypes'
    BY <1>3 DEF WorkerDequeue, WorkerTypes, WorkersConsistent, WorkerPcs
  <2> QED
    BY <1>3, <2>1 DEF WorkerDequeue
<1>4. ASSUME WorkerAbandon(w) PROVE Types'
  <2>1. worker[w].test \in Tests
    BY <1>4 DEF WorkerAbandon, WorkerTypes, WorkersConsistent
  <2>2. recState' \in [Tests -> Active \cup Terminal \cup {Absent}]
    BY <1>4 DEF WorkerAbandon, RecordTypes, Terminal
  <2>3. RecordTypes'
    BY <1>4, <2>2 DEF WorkerAbandon, RecordTypes, flagVars
  <2>4. StoreTypes'
    BY <1>4, <2>1 DEF WorkerAbandon, StoreTypes
  <2> QED
    BY <1>4, <2>3, <2>4, WorkerLoopTyped DEF WorkerAbandon
<1>5. ASSUME WorkerBegin(w) PROVE Types'
  <2>1. worker[w].test \in Tests
    BY <1>5 DEF WorkerBegin, WorkerTypes, WorkersConsistent
  <2>2. WorkerTypes'
    BY <1>5, <2>1, WorkerLoopTyped, WorkerGotoTyped DEF WorkerBegin, WorkerPcs
  <2>3. flag' \in [Tests -> BOOLEAN]
    BY <1>5, Zenon DEF WorkerBegin, RecordTypes, flagVars
  <2>4. RecordTypes'
    BY <1>5, <2>1, <2>3 DEF WorkerBegin, RecordTypes, recVars, flagVars
  <2> QED
    BY <1>5, <2>2, <2>4 DEF WorkerBegin
<1>6. ASSUME WorkerException(w) PROVE Types'
  <2>1. worker[w].test \in Tests
    BY <1>6 DEF WorkerException, WorkerTypes, WorkersConsistent
  <2>2. recState' \in [Tests -> Active \cup Terminal \cup {Absent}]
    BY <1>6 DEF WorkerException, RecordTypes, Terminal
  <2>3. hasResult' \in [Tests -> BOOLEAN]
    BY <1>6 DEF WorkerException, RecordTypes
  <2>4. RecordTypes'
    BY <1>6, <2>2, <2>3 DEF WorkerException, RecordTypes, flagVars
  <2>5. StoreTypes'
    BY <1>6, <2>1 DEF WorkerException, StoreTypes
  <2> QED
    BY <1>6, <2>4, <2>5, WorkerLoopTyped DEF WorkerException
<1>7. ASSUME WorkerStart(w) PROVE Types'
  <2>1. WorkerTypes'
    BY <1>7, WorkerGotoTyped DEF WorkerStart, WorkerPcs, WorkerTypes, WorkersConsistent
  <2>2. recState' \in [Tests -> Active \cup Terminal \cup {Absent}]
    BY <1>7 DEF WorkerStart, RecordTypes, Active
  <2>3. RecordTypes'
    BY <1>7, <2>2 DEF WorkerStart, RecordTypes, flagVars
  <2> QED
    BY <1>7, <2>1, <2>3 DEF WorkerStart
<1>8. ASSUME WorkerProgress(w) PROVE Types'
  <2>1. recState' \in [Tests -> Active \cup Terminal \cup {Absent}]
    BY <1>8 DEF WorkerProgress, RecordTypes, Active
  <2>2. RecordTypes'
    BY <1>8, <2>1 DEF WorkerProgress, RecordTypes, flagVars
  <2> QED
    BY <1>8, <2>2 DEF WorkerProgress
<1>9. ASSUME WorkerDecide(w) PROVE Types'
  <2>1. PICK v \in Terminal : worker' = [worker EXCEPT ![w].pc = "persist", ![w].verdict = v]
    BY <1>9, EngineAssumption DEF WorkerDecide, Terminal, EngineAssumption
  <2>2. WorkerTypes'
    BY <1>9, <2>1 DEF WorkerDecide, WorkerTypes, WorkersConsistent, WorkerPcs
  <2> QED
    BY <1>9, <2>2 DEF WorkerDecide
<1>10. ASSUME WorkerPersist(w) PROVE Types'
  <2>1. worker[w].test \in Tests /\ worker[w].verdict \in Terminal
    BY <1>10 DEF WorkerPersist, WorkerTypes, WorkersConsistent
  <2>2. WorkerTypes'
    BY <1>10, <2>1, WorkerGotoTyped DEF WorkerPersist, WorkerPcs
  <2>3. StoreTypes'
    BY <1>10, <2>1, PersistTyped DEF WorkerPersist
  <2> QED
    BY <1>10, <2>2, <2>3 DEF WorkerPersist
<1>11. ASSUME WorkerPublish(w) PROVE Types'
  <2>1. worker[w].test \in Tests /\ worker[w].verdict \in Terminal
    BY <1>11 DEF WorkerPublish, WorkerTypes, WorkersConsistent
  <2>2. WorkerTypes'
    BY <1>11, <2>1, WorkerGotoTyped DEF WorkerPublish, WorkerPcs
  <2>3. recState' \in [Tests -> Active \cup Terminal \cup {Absent}]
    BY <1>11, <2>1 DEF WorkerPublish, RecordTypes
  <2>4. hasResult' \in [Tests -> BOOLEAN] /\ flag' \in [Tests -> BOOLEAN]
    BY <1>11 DEF WorkerPublish, RecordTypes
  <2>5. RecordTypes'
    BY <1>11, <2>3, <2>4 DEF WorkerPublish, RecordTypes
  <2> QED
    BY <1>11, <2>2, <2>5 DEF WorkerPublish
<1>12. ASSUME WorkerStats(w) PROVE Types'
  <2>1. WorkerTypes'
    BY <1>12, WorkerGotoTyped DEF WorkerStats, WorkerPcs, WorkerTypes, WorkersConsistent
  <2>2. NoteTypes'
    BY <1>12 DEF WorkerStats, NoteTypes, WorkerTypes, WorkersConsistent
  <2> QED
    BY <1>12, <2>1, <2>2 DEF WorkerStats
<1>13. ASSUME WorkerEvent(w) PROVE Types'
  <2>1. NoteTypes'
    BY <1>13 DEF WorkerEvent, NoteTypes, WorkerTypes, WorkersConsistent
  <2> QED
    BY <1>13, <2>1, WorkerLoopTyped DEF WorkerEvent
<1>14. ASSUME WorkerLoaded(w) PROVE Types'
  BY <1>14, WorkerGotoTyped DEF WorkerLoaded, WorkerPcs, WorkerTypes, WorkersConsistent
<1> QED
  BY <1>1, <1>2, <1>3, <1>4, <1>5, <1>6, <1>7, <1>8, <1>9, <1>10, <1>11, <1>12, <1>13, <1>14
     DEF WorkerSteps

LEMMA ProcessStepTyped ==
  ASSUME Types, StopRequest \/ StopSteps \/ ProcessEnds \/ Start
  PROVE  Types'
<1> USE SameTypes DEF Types
<1>1. ASSUME StopRequest \/ StopClose \/ StopJoin PROVE Types'
  <2>1. ProcTypes'
    BY <1>1 DEF StopRequest, StopClose, StopJoin, ProcTypes, Modes
  <2> QED
    BY <1>1, <2>1 DEF StopRequest, StopClose, StopJoin
<1>2. ASSUME StopFlags PROVE Types'
  <2>1. ProcTypes'
    BY <1>2 DEF StopFlags, ProcTypes, Modes
  <2>2. flag' \in [Tests -> BOOLEAN]
    BY <1>2, Zenon DEF StopFlags
  <2>3. RecordTypes'
    BY <1>2, <2>2 DEF StopFlags, RecordTypes, recVars
  <2> QED
    BY <1>2, <2>1, <2>3 DEF StopFlags
<1>3. ASSUME ProcessEnds PROVE Types'
  <2>1. ProcTypes'
    BY <1>3 DEF ProcessEnds, ProcTypes, Modes
  <2>2. RecordTypes'
    <3>1. hasResult' \in [Tests -> BOOLEAN]
      BY <1>3, Zenon DEF ProcessEnds, EraseRecords, RecordTypes
    <3>2. flag' \in [Tests -> BOOLEAN]
      BY <1>3 DEF ProcessEnds
    <3> QED
      BY <1>3, <3>1, <3>2 DEF ProcessEnds, EraseRecords, RecordTypes
  <2>3. WorkerTypes'
    BY <1>3 DEF ProcessEnds, WorkerTypes, WorkersConsistent, IdleWorker, WorkerPcs
  <2>4. ClientTypes'
    BY <1>3 DEF ProcessEnds, ClientTypes, ClientsConsistent, IdleClient, ClientPcs
  <2>5. StoreTypes' /\ NoteTypes'
    BY <1>3 DEF ProcessEnds, StoreTypes, NoteTypes
  <2> QED
    BY <2>1, <2>2, <2>3, <2>4, <2>5
<1>4. ASSUME Start PROVE Types'
  <2>1. ProcTypes'
    BY <1>4 DEF Start, ProcTypes, Modes
  <2>2. RecordTypes'
    <3>1. PICK kept : hasResult' = [t \in Tests |-> t \in kept]
      BY <1>4 DEF Start
    <3>4. hasResult' \in [Tests -> BOOLEAN]
      BY <3>1, \A t \in Tests : (t \in kept) \in BOOLEAN, Zenon
    <3>2. flag' \in [Tests -> BOOLEAN]
      BY <1>4 DEF Start, flagVars, RecordTypes
    <3>3. recState' \in [Tests -> Active \cup Terminal \cup {Absent}]
      BY <1>4 DEF Start, StoreTypes
    <3> QED
      BY <1>4, <3>2, <3>3, <3>4 DEF Start, RecordTypes, flagVars
  <2>3. WorkerTypes'
    BY <1>4 DEF Start, WorkerTypes, WorkersConsistent, IdleWorker, WorkerPcs
  <2>4. StoreTypes' /\ NoteTypes'
    BY <1>4 DEF Start, StoreTypes, NoteTypes
  <2> QED
    BY <1>4, <2>1, <2>2, <2>3, <2>4 DEF Start
<1> QED
  BY <1>1, <1>2, <1>3, <1>4 DEF StopSteps

-----------------------------------------------------------------------------
(* Ownership: what a step can do to one test.                              *)

\* Nothing changes hands.
Kept(t) ==
  /\ recState'[t] \in Active <=> recState[t] \in Active
  /\ \A c \in Clients : ClientOwns(c, t)' <=> ClientOwns(c, t)
  /\ \A w \in Workers : WorkerOwns(w, t)' <=> WorkerOwns(w, t)
  /\ Queued(t)' <=> Queued(t)

\* p has it now, and nobody else.
MovedTo(p, t) ==
  /\ recState'[t] \in Active
  /\ \A o \in Hands : Owns(o, t)' <=> o = p

\* It is finished and nobody has it.
LetGo(t) ==
  /\ recState'[t] \notin Active
  /\ \A c \in Clients : ~ClientOwns(c, t)'
  /\ \A w \in Workers : ~WorkerOwns(w, t)'
  /\ ~Queued(t)'

Handled(t) == Kept(t) \/ (\E p \in Hands : MovedTo(p, t)) \/ LetGo(t)

LEMMA OwnershipStep ==
  ASSUME Ownership, \A t \in Tests : Handled(t)
  PROVE  Ownership'
<1> SUFFICES ASSUME NEW t \in Tests
             PROVE  /\ recState'[t] \in Active <=> \E o \in Hands : Owns(o, t)'
                    /\ \A o, p \in Hands : Owns(o, t)' /\ Owns(p, t)' => o = p
  BY Zenon DEF Ownership, Active, Hands
<1>1. CASE Kept(t)
  <2>1. \A o \in Hands : Owns(o, t)' <=> Owns(o, t)
    BY <1>1, Zenon DEF Kept, Owns
  <2> QED
    BY <1>1, <2>1, Zenon DEF Kept, Ownership
<1>2. CASE \E p \in Hands : MovedTo(p, t)
  BY <1>2, Zenon DEF MovedTo
<1>3. CASE LetGo(t)
  <2>1. \A o \in Hands : ~Owns(o, t)'
    BY <1>3, Zenon DEF LetGo, Owns
  <2> QED
    BY <1>3, <2>1, Zenon DEF LetGo
<1> QED
  BY <1>1, <1>2, <1>3 DEF Handled

\* A test in the hands of a thread is unfinished and in no other hands.
LEMMA ClientAlone ==
  ASSUME Ownership, NEW t \in Tests, NEW c \in Clients, ClientOwns(c, t)
  PROVE  /\ recState[t] \in Active
         /\ \A d \in Clients \ {c} : ~ClientOwns(d, t)
         /\ \A w \in Workers : ~WorkerOwns(w, t)
         /\ ~Queued(t)
<1>1. c \in Hands /\ Owns(c, t) /\ c \notin Workers /\ c # "queue"
  BY EngineAssumption DEF EngineAssumption, Hands, Owns
<1>2. \A o \in Hands : Owns(o, t) => o = c
  BY <1>1, Zenon DEF Ownership
<1>3. recState[t] \in Active
  BY <1>1, Zenon DEF Ownership
<1> QED
  BY <1>1, <1>2, <1>3, Zenon DEF Hands, Owns

LEMMA WorkerAlone ==
  ASSUME Ownership, NEW t \in Tests, NEW w \in Workers, WorkerOwns(w, t)
  PROVE  /\ recState[t] \in Active
         /\ \A c \in Clients : ~ClientOwns(c, t)
         /\ \A v \in Workers \ {w} : ~WorkerOwns(v, t)
         /\ ~Queued(t)
<1>1. w \in Hands /\ Owns(w, t) /\ w \notin Clients /\ w # "queue"
  BY EngineAssumption DEF EngineAssumption, Hands, Owns
<1>2. \A o \in Hands : Owns(o, t) => o = w
  BY <1>1, Zenon DEF Ownership
<1>3. recState[t] \in Active
  BY <1>1, Zenon DEF Ownership
<1> QED
  BY <1>1, <1>2, <1>3, Zenon DEF Hands, Owns

LEMMA QueueAlone ==
  ASSUME Ownership, NEW t \in Tests, Queued(t)
  PROVE  /\ recState[t] \in Active
         /\ \A c \in Clients : ~ClientOwns(c, t)
         /\ \A w \in Workers : ~WorkerOwns(w, t)
<1>1. "queue" \in Hands /\ Owns("queue", t) /\ "queue" \notin Clients \cup Workers
  BY EngineAssumption DEF EngineAssumption, Hands, Owns
<1>2. \A o \in Hands : Owns(o, t) => o = "queue"
  BY <1>1, Zenon DEF Ownership
<1>3. recState[t] \in Active
  BY <1>1, Zenon DEF Ownership
<1> QED
  BY <1>1, <1>2, <1>3, Zenon DEF Hands, Owns

LEMMA NobodyHolds ==
  ASSUME Ownership, NEW t \in Tests, recState[t] \notin Active
  PROVE  /\ \A c \in Clients : ~ClientOwns(c, t)
         /\ \A w \in Workers : ~WorkerOwns(w, t)
         /\ ~Queued(t)
<1>1. \A o \in Hands : ~Owns(o, t)
  BY Zenon DEF Ownership
<1> QED
  BY <1>1, Zenon DEF Hands, Owns

\* The three ways a test gets into new hands.
LEMMA NowClient ==
  ASSUME NEW t \in Tests, NEW c \in Clients, recState'[t] \in Active, ClientOwns(c, t)',
         \A d \in Clients \ {c} : ~ClientOwns(d, t)',
         \A w \in Workers : ~WorkerOwns(w, t)', ~Queued(t)'
  PROVE  \E p \in Hands : MovedTo(p, t)
<1>1. c \in Hands
  BY DEF Hands
<1>2. MovedTo(c, t)
  BY Zenon DEF MovedTo, Owns
<1> QED
  BY <1>1, <1>2

LEMMA NowWorker ==
  ASSUME NEW t \in Tests, NEW w \in Workers, recState'[t] \in Active, WorkerOwns(w, t)',
         \A c \in Clients : ~ClientOwns(c, t)',
         \A v \in Workers \ {w} : ~WorkerOwns(v, t)', ~Queued(t)'
  PROVE  \E p \in Hands : MovedTo(p, t)
<1>1. w \in Hands
  BY DEF Hands
<1>2. MovedTo(w, t)
  BY Zenon DEF MovedTo, Owns
<1> QED
  BY <1>1, <1>2

LEMMA NowQueue ==
  ASSUME NEW t \in Tests, recState'[t] \in Active, Queued(t)',
         \A c \in Clients : ~ClientOwns(c, t)',
         \A w \in Workers : ~WorkerOwns(w, t)'
  PROVE  \E p \in Hands : MovedTo(p, t)
<1>1. "queue" \in Hands
  BY DEF Hands
<1>2. MovedTo("queue", t)
  BY Zenon DEF MovedTo, Owns
<1> QED
  BY <1>1, <1>2

\* A step of one thread leaves the hands of all other threads alone.
LEMMA ClientMoves ==
  ASSUME NEW c \in Clients, NEW t, worker' = worker,
         \A d \in Clients \ {c} : client'[d] = client[d]
  PROVE  /\ \A d \in Clients \ {c} : ClientOwns(d, t)' <=> ClientOwns(d, t)
         /\ \A w \in Workers : WorkerOwns(w, t)' <=> WorkerOwns(w, t)
BY DEF ClientOwns, WorkerOwns

LEMMA WorkerMoves ==
  ASSUME NEW w \in Workers, NEW t, client' = client,
         \A v \in Workers \ {w} : worker'[v] = worker[v]
  PROVE  /\ \A c \in Clients : ClientOwns(c, t)' <=> ClientOwns(c, t)
         /\ \A v \in Workers \ {w} : WorkerOwns(v, t)' <=> WorkerOwns(v, t)
BY DEF ClientOwns, WorkerOwns

\* What the steps of a thread leave alone: the process, the threads of the other
\* kind and all other threads of its own kind.
LEMMA ClientFrame ==
  ASSUME Types, NEW c \in Clients, ClientBegins(c) \/ ClientContinues(c)
  PROVE  mode' = mode /\ worker' = worker /\ \A d \in Clients \ {c} : client'[d] = client[d]
<1> USE DEF Types, ClientTypes, procVars, Goto, Finish
<1>1. CASE ClientBegins(c)
  BY <1>1 DEF ClientBegins, SubmitInsert, CancelDequeue, Remove, ClearHistory
<1>2. CASE \/ SubmitTrim(c) \/ SubmitEnqueue(c) \/ RemoveDone(c)
           \/ \E t \in Tests : RemoveFile(c, t)
  BY <1>2 DEF SubmitTrim, SubmitEnqueue, RemoveDone, RemoveFile
<1>3. CASE \/ CancelLookup(c) \/ CancelPersist(c) \/ CancelPublish(c) \/ CancelStats(c)
           \/ CancelEvent(c) \/ CancelFlag(c)
  BY <1>3 DEF CancelLookup, CancelPersist, CancelPublish, CancelStats, CancelEvent, CancelFlag
<1> QED
  BY <1>1, <1>2, <1>3 DEF ClientContinues

LEMMA WorkerFrame ==
  ASSUME Types, NEW w \in Workers, WorkerSteps(w) \/ WorkerProgress(w)
  PROVE  mode' = mode /\ client' = client /\ \A v \in Workers \ {w} : worker'[v] = worker[v]
<1> USE DEF Types, WorkerTypes, procVars, WorkerGoto, WorkerLoop
<1>1. CASE \/ WorkerTop(w) \/ WorkerWaitEnds(w) \/ WorkerLoaded(w) \/ \E t \in Tests : WorkerDequeue(w, t)
  BY <1>1 DEF WorkerTop, WorkerWaitEnds, WorkerLoaded, WorkerDequeue
<1>2. CASE WorkerAbandon(w) \/ WorkerBegin(w) \/ WorkerException(w)
  BY <1>2 DEF WorkerAbandon, WorkerBegin, WorkerException
<1>3. CASE WorkerStart(w) \/ WorkerProgress(w) \/ WorkerDecide(w)
  BY <1>3 DEF WorkerStart, WorkerProgress, WorkerDecide
<1>4. CASE WorkerPersist(w) \/ WorkerPublish(w) \/ WorkerStats(w) \/ WorkerEvent(w)
  BY <1>4 DEF WorkerPersist, WorkerPublish, WorkerStats, WorkerEvent
<1> QED
  BY <1>1, <1>2, <1>3, <1>4 DEF WorkerSteps

\* A client step that neither takes nor gives anything.
LEMMA ClientKeeps ==
  ASSUME NEW c \in Clients, worker' = worker,
         \A d \in Clients \ {c} : client'[d] = client[d],
         \A t \in Tests : Queued(t)' <=> Queued(t),
         \A t \in Tests : recState'[t] \in Active <=> recState[t] \in Active,
         \A t \in Tests : ClientOwns(c, t)' <=> ClientOwns(c, t)
  PROVE  \A t \in Tests : Handled(t)
<1> SUFFICES ASSUME NEW t \in Tests PROVE Kept(t)
  BY DEF Handled
<1> QED
  BY ClientMoves, Zenon DEF Kept

LEMMA WorkerKeeps ==
  ASSUME NEW w \in Workers, client' = client,
         \A v \in Workers \ {w} : worker'[v] = worker[v],
         \A t \in Tests : Queued(t)' <=> Queued(t),
         \A t \in Tests : recState'[t] \in Active <=> recState[t] \in Active,
         \A t \in Tests : WorkerOwns(w, t)' <=> WorkerOwns(w, t)
  PROVE  \A t \in Tests : Handled(t)
<1> SUFFICES ASSUME NEW t \in Tests PROVE Kept(t)
  BY DEF Handled
<1> QED
  BY WorkerMoves, Zenon DEF Kept

\* Erasing finished records touches nobody's test.
LEMMA EraseFinished ==
  ASSUME NEW S \in SUBSET Finished, EraseRecords(S)
  PROVE  \A t \in Tests : recState'[t] \in Active <=> recState[t] \in Active
BY DEF EraseRecords, Finished, Active, Terminal, Absent

\* SubmitInsert puts a new test into the submitter's hands.
LEMMA SubmitInsertOwns ==
  ASSUME Types, QueueInv, Ownership, BornFirst, NEW c \in Clients, NEW s \in Tests,
         SubmitInsert(c, s)
  PROVE  QueueInv' /\ \A t \in Tests : Handled(t)
<1>1. QueueInv' /\ \A u : Queued(u)' <=> Queued(u)
  BY QueueUntouched DEF SubmitInsert
<1>2. /\ worker' = worker
      /\ \A d \in Clients \ {c} : client'[d] = client[d]
      /\ client[c].pc = "idle" /\ client'[c].pc = "trim" /\ client'[c].test = s
  BY DEF SubmitInsert, Types, ClientTypes
<1>3. /\ recState[s] = Absent
      /\ recState'[s] \in Active
      /\ \A t \in Tests \ {s} : recState'[t] = recState[t]
  BY DEF SubmitInsert, BornFirst, Types, RecordTypes, Active
<1>4. ASSUME NEW t \in Tests PROVE Handled(t)
  <2>1. /\ \A d \in Clients \ {c} : ClientOwns(d, t)' <=> ClientOwns(d, t)
        /\ \A w \in Workers : WorkerOwns(w, t)' <=> WorkerOwns(w, t)
    BY <1>2, ClientMoves
  <2>2. CASE t = s
    <3>1. recState[t] \notin Active
      BY <1>3, <2>2 DEF Active, Absent
    <3>2. /\ \A d \in Clients : ~ClientOwns(d, t)
          /\ \A w \in Workers : ~WorkerOwns(w, t)
          /\ ~Queued(t)
      BY <3>1, NobodyHolds
    <3>3. ClientOwns(c, t)'
      BY <1>2, <2>2 DEF ClientOwns
    <3> QED
      BY <1>1, <1>3, <2>1, <2>2, <3>2, <3>3, NowClient DEF Handled
  <2>3. CASE t # s
    <3>1. ~ClientOwns(c, t) /\ ~ClientOwns(c, t)'
      BY <1>2, <2>3 DEF ClientOwns
    <3> QED
      BY <1>1, <1>3, <2>1, <2>3, <3>1, Zenon DEF Handled, Kept
  <2> QED
    BY <2>2, <2>3
<1> QED
  BY <1>1, <1>4

\* SubmitEnqueue hands the test to the queue.
LEMMA SubmitEnqueueOwns ==
  ASSUME Types, QueueInv, Ownership, NEW c \in Clients, SubmitEnqueue(c)
  PROVE  QueueInv' /\ \A t \in Tests : Handled(t)
<1> DEFINE s == client[c].test
<1>1. /\ s \in Tests
      /\ ClientOwns(c, s)
      /\ Enqueue(s)
      /\ worker' = worker
      /\ recState' = recState
      /\ \A d \in Clients \ {c} : client'[d] = client[d]
      /\ client'[c].pc = "idle"
  BY DEF SubmitEnqueue, Finish, IdleClient, Types, ClientTypes, ClientsConsistent, ClientOwns, recVars
<1> HIDE DEF s
<1>2. /\ recState[s] \in Active
      /\ \A d \in Clients \ {c} : ~ClientOwns(d, s)
      /\ \A w \in Workers : ~WorkerOwns(w, s)
      /\ ~Queued(s)
  BY <1>1, ClientAlone
<1>3. QueueInv' /\ \A u : Queued(u)' <=> (Queued(u) \/ u = s)
  BY <1>1, <1>2, SubmitQueues
<1>4. ASSUME NEW t \in Tests PROVE Handled(t)
  <2>1. /\ \A d \in Clients \ {c} : ClientOwns(d, t)' <=> ClientOwns(d, t)
        /\ \A w \in Workers : WorkerOwns(w, t)' <=> WorkerOwns(w, t)
    BY <1>1, ClientMoves
  <2>2. ~ClientOwns(c, t)'
    BY <1>1 DEF ClientOwns
  <2>3. CASE t = s
    <3>1. recState'[t] \in Active /\ Queued(t)'
      BY <1>1, <1>2, <1>3, <2>3
    <3>2. /\ \A d \in Clients : ~ClientOwns(d, t)'
          /\ \A w \in Workers : ~WorkerOwns(w, t)'
      BY <1>2, <2>1, <2>2, <2>3, Zenon
    <3> QED
      BY <3>1, <3>2, NowQueue DEF Handled
  <2>4. CASE t # s
    <3>1. ~ClientOwns(c, t)
      BY <2>4 DEF ClientOwns, s
    <3> QED
      BY <1>1, <1>3, <2>1, <2>2, <2>4, <3>1, Zenon DEF Handled, Kept
  <2> QED
    BY <2>3, <2>4
<1> QED
  BY <1>3, <1>4

\* CancelDequeue takes a queued test into the canceller's hands; if the queue
\* does not have it, nothing changes hands.
LEMMA CancelDequeueOwns ==
  ASSUME Types, QueueInv, Ownership, NEW c \in Clients, NEW s \in Tests,
         CancelDequeue(c, s)
  PROVE  QueueInv' /\ \A t \in Tests : Handled(t)
<1>1. /\ worker' = worker
      /\ recState' = recState
      /\ \A d \in Clients \ {c} : client'[d] = client[d]
      /\ client[c].pc = "idle" /\ client'[c].pc = "cancel" /\ client'[c].test = s
  BY DEF CancelDequeue, Types, ClientTypes, recVars
<1>2. client'[c].popped = Queued(s)
  BY DEF CancelDequeue, Types, ClientTypes
<1>3. CASE CancelQueued(s)
  <2>1. Queued(s)
    BY <1>3 DEF CancelQueued
  <2>2. QueueInv' /\ \A u : Queued(u)' <=> (Queued(u) /\ u # s)
    BY <1>3, CancelTakesOff
  <2>3. /\ recState[s] \in Active
        /\ \A d \in Clients : ~ClientOwns(d, s)
        /\ \A w \in Workers : ~WorkerOwns(w, s)
    BY <2>1, QueueAlone
  <2>4. ASSUME NEW t \in Tests PROVE Handled(t)
    <3>1. /\ \A d \in Clients \ {c} : ClientOwns(d, t)' <=> ClientOwns(d, t)
          /\ \A w \in Workers : WorkerOwns(w, t)' <=> WorkerOwns(w, t)
      BY <1>1, ClientMoves
    <3>2. CASE t = s
      <4>1. client'[c].popped
        BY <1>2, <2>1
      <4>2. ClientOwns(c, t)'
        BY <1>1, <3>2, <4>1 DEF ClientOwns
      <4> QED
        BY <1>1, <2>2, <2>3, <3>1, <3>2, <4>2, NowClient DEF Handled
    <3>3. CASE t # s
      <4>1. ~ClientOwns(c, t) /\ ~ClientOwns(c, t)'
        BY <1>1, <3>3 DEF ClientOwns
      <4> QED
        BY <1>1, <2>2, <3>1, <3>3, <4>1, Zenon DEF Handled, Kept
    <3> QED
      BY <3>2, <3>3
  <2> QED
    BY <2>2, <2>4
<1>4. CASE ~Queued(s) /\ UNCHANGED queueVars
  <2>1. QueueInv' /\ \A u : Queued(u)' <=> Queued(u)
    BY <1>4, QueueUntouched
  <2>2. ~client'[c].popped
    BY <1>2, <1>4
  <2>3. \A t \in Tests : ~ClientOwns(c, t) /\ ~ClientOwns(c, t)'
    BY <1>1, <2>2 DEF ClientOwns
  <2> QED
    BY <1>1, <2>1, <2>3, ClientKeeps
<1> QED
  BY <1>3, <1>4 DEF CancelDequeue

\* CancelPublish finishes the test and lets go of it.
LEMMA CancelPublishOwns ==
  ASSUME Types, QueueInv, Ownership, NEW c \in Clients, CancelPublish(c)
  PROVE  QueueInv' /\ \A t \in Tests : Handled(t)
<1> DEFINE s == client[c].test
<1>1. /\ s \in Tests
      /\ ClientOwns(c, s)
      /\ worker' = worker
      /\ \A d \in Clients \ {c} : client'[d] = client[d]
      /\ client'[c].pc = "cancelStats"
  BY DEF CancelPublish, Goto, Types, ClientTypes, ClientsConsistent, ClientOwns
<1>2. /\ recState[s] \in Active
      /\ \A d \in Clients \ {c} : ~ClientOwns(d, s)
      /\ \A w \in Workers : ~WorkerOwns(w, s)
      /\ ~Queued(s)
  BY <1>1, ClientAlone
<1>3. recState'[s] \notin Active /\ \A t \in Tests \ {s} : recState'[t] = recState[t]
  BY <1>1, <1>2 DEF CancelPublish, Types, RecordTypes, Active, Absent
<1>4. QueueInv' /\ \A u : Queued(u)' <=> Queued(u)
  BY QueueUntouched DEF CancelPublish
<1>5. ASSUME NEW t \in Tests PROVE Handled(t)
  <2>1. /\ \A d \in Clients \ {c} : ClientOwns(d, t)' <=> ClientOwns(d, t)
        /\ \A w \in Workers : WorkerOwns(w, t)' <=> WorkerOwns(w, t)
    BY <1>1, ClientMoves
  <2>2. ~ClientOwns(c, t)'
    BY <1>1 DEF ClientOwns
  <2>3. CASE t = s
    BY <1>2, <1>3, <1>4, <2>1, <2>2, <2>3, Zenon DEF Handled, LetGo
  <2>4. CASE t # s
    <3>1. ~ClientOwns(c, t)
      BY <2>4 DEF ClientOwns
    <3> QED
      BY <1>3, <1>4, <2>1, <2>2, <2>4, <3>1, Zenon DEF Handled, Kept
  <2> QED
    BY <2>3, <2>4
<1> QED
  BY <1>4, <1>5

\* All other steps of an API thread leave every test where it is.
LEMMA ClientOthersOwn ==
  ASSUME Types, QueueInv, Ownership, NEW c \in Clients,
         \/ \E t \in Tests : Remove(c, t) \/ RemoveFile(c, t)
         \/ ClearHistory(c) \/ SubmitTrim(c) \/ RemoveDone(c) \/ CancelLookup(c)
         \/ CancelPersist(c) \/ CancelStats(c) \/ CancelEvent(c) \/ CancelFlag(c)
  PROVE  QueueInv' /\ \A t \in Tests : Handled(t)
<1>1. QueueInv' /\ \A u : Queued(u)' <=> Queued(u)
  BY QueueUntouched DEF Remove, RemoveFile, ClearHistory, SubmitTrim, RemoveDone, CancelLookup,
       CancelPersist, CancelStats, CancelEvent, CancelFlag
<1>2. worker' = worker /\ \A d \in Clients \ {c} : client'[d] = client[d]
  BY DEF Remove, RemoveFile, ClearHistory, SubmitTrim, RemoveDone, CancelLookup, CancelPersist,
       CancelStats, CancelEvent, CancelFlag, Goto, Finish, Types, ClientTypes
<1>3. \A t \in Tests : recState'[t] \in Active <=> recState[t] \in Active
  <2>1. CASE (\E t \in Tests : Remove(c, t)) \/ ClearHistory(c) \/ SubmitTrim(c)
    <3>1. PICK S \in SUBSET Finished : EraseRecords(S)
      BY <2>1 DEF Remove, ClearHistory, SubmitTrim, TrimVictims
    <3> QED
      BY <3>1, EraseFinished
  <2>2. CASE (\E t \in Tests : RemoveFile(c, t)) \/ RemoveDone(c) \/ CancelLookup(c)
             \/ CancelPersist(c) \/ CancelStats(c) \/ CancelEvent(c) \/ CancelFlag(c)
    BY <2>2 DEF RemoveFile, RemoveDone, CancelLookup, CancelPersist, CancelStats, CancelEvent,
         CancelFlag, recVars
  <2> QED
    BY <2>1, <2>2
<1>4. ASSUME NEW t \in Tests PROVE ClientOwns(c, t)' <=> ClientOwns(c, t)
  <2>1. ASSUME NEW u \in Tests, Remove(c, u) PROVE ClientOwns(c, t)' <=> ClientOwns(c, t)
    BY <2>1 DEF Remove, ClientOwns, Types, ClientTypes
  <2>2. ASSUME NEW u \in Tests, RemoveFile(c, u) PROVE ClientOwns(c, t)' <=> ClientOwns(c, t)
    BY <2>2 DEF RemoveFile, ClientOwns, Types, ClientTypes
  <2>3. CASE ClearHistory(c) \/ SubmitTrim(c) \/ RemoveDone(c)
    BY <2>3 DEF ClearHistory, SubmitTrim, RemoveDone, Finish, IdleClient, ClientOwns, Types,
         ClientTypes
  <2>4. CASE CancelLookup(c)
    <3>1. ASSUME ClientOwns(c, t) PROVE recState[t] \in Active
      BY <3>1, ClientAlone
    <3> QED
      BY <2>4, <3>1 DEF CancelLookup, Goto, Finish, IdleClient, ClientOwns, Types, ClientTypes
  <2>5. CASE CancelPersist(c) \/ CancelStats(c)
    BY <2>5 DEF CancelPersist, CancelStats, Goto, ClientOwns, Types, ClientTypes
  <2>6. CASE CancelEvent(c) \/ CancelFlag(c)
    BY <2>6 DEF CancelEvent, CancelFlag, Finish, IdleClient, ClientOwns, Types, ClientTypes
  <2> QED
    BY <2>1, <2>2, <2>3, <2>4, <2>5, <2>6
<1> QED
  BY <1>1, <1>2, <1>3, <1>4, ClientKeeps

\* WorkerDequeue takes the test from the queue.
LEMMA WorkerDequeueOwns ==
  ASSUME Types, QueueInv, Ownership, NEW w \in Workers, NEW s \in Tests,
         WorkerDequeue(w, s)
  PROVE  QueueInv' /\ \A t \in Tests : Handled(t)
<1>1. /\ client' = client
      /\ recState' = recState
      /\ \A v \in Workers \ {w} : worker'[v] = worker[v]
      /\ worker[w].pc = "wait" /\ worker'[w].pc = "got" /\ worker'[w].test = s
  BY DEF WorkerDequeue, Types, WorkerTypes, recVars
<1>2. /\ QueueInv'
      /\ Queued(s)
      /\ \A u : Queued(u)' <=> (Queued(u) /\ u # s)
  BY WorkerTakes DEF WorkerDequeue
<1>3. /\ recState[s] \in Active
      /\ \A c \in Clients : ~ClientOwns(c, s)
      /\ \A v \in Workers : ~WorkerOwns(v, s)
  BY <1>2, QueueAlone
<1>4. ASSUME NEW t \in Tests PROVE Handled(t)
  <2>1. /\ \A c \in Clients : ClientOwns(c, t)' <=> ClientOwns(c, t)
        /\ \A v \in Workers \ {w} : WorkerOwns(v, t)' <=> WorkerOwns(v, t)
    BY <1>1, WorkerMoves
  <2>2. CASE t = s
    <3>1. WorkerOwns(w, t)'
      BY <1>1, <2>2 DEF WorkerOwns
    <3> QED
      BY <1>1, <1>2, <1>3, <2>1, <2>2, <3>1, NowWorker DEF Handled
  <2>3. CASE t # s
    <3>1. ~WorkerOwns(w, t) /\ ~WorkerOwns(w, t)'
      BY <1>1, <2>3 DEF WorkerOwns
    <3> QED
      BY <1>1, <1>2, <2>1, <2>3, <3>1, Zenon DEF Handled, Kept
  <2> QED
    BY <2>2, <2>3
<1> QED
  BY <1>2, <1>4

\* The three ways a worker ends a test: verdict, exception, shutdown.
LEMMA WorkerEndsOwns ==
  ASSUME Types, QueueInv, Ownership, NEW w \in Workers,
         WorkerAbandon(w) \/ WorkerException(w) \/ WorkerPublish(w)
  PROVE  QueueInv' /\ \A t \in Tests : Handled(t)
<1> DEFINE s == worker[w].test
<1>1. /\ s \in Tests
      /\ WorkerOwns(w, s)
      /\ worker[w].pc = "publish" => worker[w].verdict \in Terminal
      /\ client' = client
      /\ \A v \in Workers \ {w} : worker'[v] = worker[v]
      /\ worker'[w].pc \in {"top", "stats"}
  BY DEF WorkerAbandon, WorkerException, WorkerPublish, WorkerLoop, WorkerGoto, IdleWorker, Types,
       WorkerTypes, WorkersConsistent, WorkerOwns
<1>2. /\ recState[s] \in Active
      /\ \A c \in Clients : ~ClientOwns(c, s)
      /\ \A v \in Workers \ {w} : ~WorkerOwns(v, s)
      /\ ~Queued(s)
  BY <1>1, WorkerAlone
<1>3. recState'[s] \notin Active /\ \A t \in Tests \ {s} : recState'[t] = recState[t]
  BY <1>1, <1>2 DEF WorkerAbandon, WorkerException, WorkerPublish, Types, RecordTypes, Active,
       Terminal, Absent
<1>4. QueueInv' /\ \A u : Queued(u)' <=> Queued(u)
  BY QueueUntouched DEF WorkerAbandon, WorkerException, WorkerPublish
<1>5. ASSUME NEW t \in Tests PROVE Handled(t)
  <2>1. /\ \A c \in Clients : ClientOwns(c, t)' <=> ClientOwns(c, t)
        /\ \A v \in Workers \ {w} : WorkerOwns(v, t)' <=> WorkerOwns(v, t)
    BY <1>1, WorkerMoves
  <2>2. ~WorkerOwns(w, t)'
    BY <1>1 DEF WorkerOwns
  <2>3. CASE t = s
    BY <1>2, <1>3, <1>4, <2>1, <2>2, <2>3, Zenon DEF Handled, LetGo
  <2>4. CASE t # s
    <3>1. ~WorkerOwns(w, t)
      BY <2>4 DEF WorkerOwns
    <3> QED
      BY <1>3, <1>4, <2>1, <2>2, <2>4, <3>1, Zenon DEF Handled, Kept
  <2> QED
    BY <2>3, <2>4
<1> QED
  BY <1>4, <1>5

\* All other steps of a worker leave every test where it is.
LEMMA WorkerOthersOwn ==
  ASSUME Types, QueueInv, Ownership, NEW w \in Workers,
         \/ WorkerTop(w) \/ WorkerWaitEnds(w) \/ WorkerLoaded(w) \/ WorkerBegin(w) \/ WorkerStart(w)
         \/ WorkerProgress(w) \/ WorkerDecide(w) \/ WorkerPersist(w) \/ WorkerStats(w)
         \/ WorkerEvent(w)
  PROVE  QueueInv' /\ \A t \in Tests : Handled(t)
<1>1. QueueInv' /\ \A u : Queued(u)' <=> Queued(u)
  BY QueueUntouched DEF WorkerTop, WorkerWaitEnds, WorkerLoaded, WorkerBegin, WorkerStart,
     WorkerProgress,
       WorkerDecide, WorkerPersist, WorkerStats, WorkerEvent
<1>2. client' = client /\ \A v \in Workers \ {w} : worker'[v] = worker[v]
  BY DEF WorkerTop, WorkerWaitEnds, WorkerLoaded, WorkerBegin, WorkerStart, WorkerProgress,
     WorkerDecide,
       WorkerPersist, WorkerStats, WorkerEvent, WorkerGoto, WorkerLoop, Types, WorkerTypes
<1>3. ASSUME NEW t \in Tests, WorkerOwns(w, t) PROVE recState[t] \in Active
  BY <1>3, WorkerAlone
<1>4. ASSUME NEW t \in Tests PROVE recState'[t] \in Active <=> recState[t] \in Active
  <2>1. CASE WorkerStart(w) \/ WorkerProgress(w)
    <3>1. WorkerOwns(w, worker[w].test) /\ worker[w].test \in Tests
      BY <2>1 DEF WorkerStart, WorkerProgress, WorkerOwns, Types, WorkerTypes, WorkersConsistent
    <3>2. recState[worker[w].test] \in Active
      BY <1>3, <3>1
    <3> QED
      BY <2>1, <3>1, <3>2 DEF WorkerStart, WorkerProgress, Types, RecordTypes, Active, Absent
  <2>2. CASE WorkerTop(w) \/ WorkerWaitEnds(w) \/ WorkerLoaded(w) \/ WorkerBegin(w) \/ WorkerDecide(w)
             \/ WorkerPersist(w) \/ WorkerStats(w) \/ WorkerEvent(w)
    BY <2>2 DEF WorkerTop, WorkerWaitEnds, WorkerLoaded, WorkerBegin, WorkerDecide, WorkerPersist,
       WorkerStats,
         WorkerEvent, recVars
  <2> QED
    BY <2>1, <2>2
<1>5. ASSUME NEW t \in Tests PROVE WorkerOwns(w, t)' <=> WorkerOwns(w, t)
  <2>1. CASE WorkerTop(w) \/ WorkerWaitEnds(w) \/ WorkerLoaded(w)
    BY <2>1 DEF WorkerTop, WorkerWaitEnds, WorkerLoaded, WorkerGoto, WorkerOwns, Types, WorkerTypes
  <2>2. CASE WorkerBegin(w)
    <3>1. WorkerOwns(w, worker[w].test) /\ worker[w].test \in Tests
      BY <2>2 DEF WorkerBegin, WorkerOwns, Types, WorkerTypes, WorkersConsistent
    <3>2. recState[worker[w].test] \in Active
      BY <1>3, <3>1
    <3>3. WorkerGoto(w, "load") /\ worker[w].pc = "got"
      BY <2>2, <3>2 DEF WorkerBegin, Active, Absent
    <3> QED
      BY <3>3 DEF WorkerGoto, WorkerOwns, Types, WorkerTypes
  <2>3. CASE WorkerStart(w) \/ WorkerPersist(w) \/ WorkerStats(w)
    BY <2>3 DEF WorkerStart, WorkerPersist, WorkerStats, WorkerGoto, WorkerOwns, Types, WorkerTypes
  <2>4. CASE WorkerProgress(w)
    BY <2>4 DEF WorkerProgress, WorkerOwns
  <2>5. CASE WorkerDecide(w)
    <3>1. PICK v : worker' = [worker EXCEPT ![w].pc = "persist", ![w].verdict = v]
      BY <2>5 DEF WorkerDecide
    <3>2. worker[w].pc = "run"
      BY <2>5 DEF WorkerDecide
    <3> QED
      BY <3>1, <3>2 DEF WorkerOwns, Types, WorkerTypes
  <2>6. CASE WorkerEvent(w)
    BY <2>6 DEF WorkerEvent, WorkerLoop, IdleWorker, WorkerOwns, Types, WorkerTypes
  <2> QED
    BY <2>1, <2>2, <2>3, <2>4, <2>5, <2>6
<1> QED
  BY <1>1, <1>2, <1>4, <1>5, WorkerKeeps

\* stop() moves nothing; the end of the process empties all hands, and the
\* next start finds them empty.
LEMMA ProcessOwns ==
  ASSUME Types, QueueInv, Ownership, DownIsEmpty,
         StopRequest \/ StopSteps \/ ProcessEnds \/ Start
  PROVE  QueueInv' /\ \A t \in Tests : Handled(t)
<1>1. CASE StopRequest \/ StopSteps
  <2>1. QueueInv' /\ \A u : Queued(u)' <=> Queued(u)
    BY <1>1, QueueUntouched DEF StopRequest, StopSteps, StopFlags, StopClose, StopJoin
  <2>2. recState' = recState /\ worker' = worker /\ client' = client
    BY <1>1 DEF StopRequest, StopSteps, StopFlags, StopClose, StopJoin, recVars
  <2>3. ASSUME NEW t \in Tests PROVE Kept(t)
    BY <2>1, <2>2 DEF Kept, ClientOwns, WorkerOwns
  <2> QED
    BY <2>1, <2>3 DEF Handled
<1>2. CASE ProcessEnds
  <2>1. QueueInv' /\ \A u : ~Queued(u)'
    BY <1>2, QueueEmptied DEF ProcessEnds
  <2>2. ASSUME NEW t \in Tests PROVE LetGo(t)
    <3>1. recState'[t] \notin Active
      BY <1>2 DEF ProcessEnds, EraseRecords, Active, Absent
    <3>2. \A c \in Clients : ~ClientOwns(c, t)'
      BY <1>2 DEF ProcessEnds, ClientOwns, IdleClient
    <3>3. \A w \in Workers : ~WorkerOwns(w, t)'
      BY <1>2 DEF ProcessEnds, WorkerOwns, IdleWorker
    <3> QED
      BY <2>1, <3>1, <3>2, <3>3 DEF LetGo
  <2> QED
    BY <2>1, <2>2 DEF Handled
<1>3. CASE Start
  <2>1. QueueInv' /\ \A u : Queued(u)' <=> Queued(u)
    BY <1>3, QueueUntouched DEF Start
  <2>2. ASSUME NEW t \in Tests PROVE LetGo(t)
    <3>1. recState[t] \notin Active
      BY <1>3 DEF Start, DownIsEmpty, Active, Absent
    <3>2. (\A c \in Clients : ~ClientOwns(c, t)) /\ ~Queued(t)
      BY <3>1, NobodyHolds
    <3>3. recState'[t] \notin Active
      BY <1>3 DEF Start, Types, StoreTypes, Terminal, Active, Absent
    <3>4. \A c \in Clients : ~ClientOwns(c, t)'
      BY <1>3, <3>2 DEF Start, ClientOwns
    <3>5. \A w \in Workers : ~WorkerOwns(w, t)'
      BY <1>3 DEF Start, WorkerOwns, IdleWorker
    <3> QED
      BY <2>1, <3>2, <3>3, <3>4, <3>5 DEF LetGo
  <2> QED
    BY <2>1, <2>2 DEF Handled
<1> QED
  BY <1>1, <1>2, <1>3

LEMMA OwnershipPreserved ==
  ASSUME Types, QueueInv, Ownership, BornFirst, DownIsEmpty, Next
  PROVE  QueueInv' /\ Ownership'
<1>1. QueueInv' /\ \A t \in Tests : Handled(t)
  <2>1. ASSUME NEW c \in Clients, ClientBegins(c) \/ ClientContinues(c)
        PROVE  QueueInv' /\ \A t \in Tests : Handled(t)
    BY <2>1, SubmitInsertOwns, SubmitEnqueueOwns, CancelDequeueOwns, CancelPublishOwns,
       ClientOthersOwn, Zenon DEF ClientBegins, ClientContinues
  <2>2. ASSUME NEW w \in Workers, WorkerSteps(w) \/ WorkerProgress(w)
        PROVE  QueueInv' /\ \A t \in Tests : Handled(t)
    BY <2>2, WorkerDequeueOwns, WorkerEndsOwns, WorkerOthersOwn, Zenon DEF WorkerSteps
  <2> QED
    BY <2>1, <2>2, ProcessOwns DEF Next
<1> QED
  BY <1>1, OwnershipStep

-----------------------------------------------------------------------------
(* Records, files and what a step can do to those of one test.             *)

\* A step that erases records, ends a run, or brings a test up.
RecordErased(t) == recState'[t] = Absent

RecordRuns(t) == recState[t] \in Active /\ recState'[t] \in Active

RecordEnds(t) ==
  /\ recState[t] \in Active
  /\ recState'[t] \in Terminal
  /\ t \in unsaved' \/ disk'[t] = recState'[t]

RecordSubmitted(t) ==
  mode # "down" /\ born[t] = 0 /\ recState'[t] = "QUEUED" /\ born'[t] # 0

RecordLoaded(t) ==
  mode = "down" /\ mode' = "up" /\ recState'[t] = disk'[t] /\ disk'[t] \in {disk[t], Absent}

RecordStep(t) ==
  \/ recState'[t] = recState[t]
  \/ RecordErased(t) \/ RecordRuns(t) \/ RecordEnds(t)
  \/ RecordSubmitted(t) \/ RecordLoaded(t)

LEMMA ClientRecordStep ==
  ASSUME Types, Ownership, PublishReady, NEW c \in Clients, NEW t \in Tests,
         ClientBegins(c) \/ ClientContinues(c)
  PROVE  /\ RecordStep(t)
         /\ born'[t] = born[t] \/ RecordSubmitted(t)
         /\ mode' = mode
<1>1. CASE \E s \in Tests : SubmitInsert(c, s)
  <2>1. PICK s \in Tests : SubmitInsert(c, s)
    BY <1>1
  <2>2. Cardinality({u \in Tests : born[u] # 0}) \in Nat
    BY EngineAssumption, FS_Subset, FS_CardinalityType DEF EngineAssumption
  <2>3. mode # "down" /\ mode' = mode /\ born[s] = 0
    BY <2>1 DEF SubmitInsert, Alive, procVars
  <2>4. recState'[s] = "QUEUED" /\ born'[s] # 0
    BY <2>1, <2>2 DEF SubmitInsert, Types, RecordTypes
  <2>5. t # s => recState'[t] = recState[t] /\ born'[t] = born[t]
    BY <2>1 DEF SubmitInsert, Types, RecordTypes
  <2> QED
    BY <2>3, <2>4, <2>5 DEF RecordStep, RecordSubmitted
<1>2. CASE (\E s \in Tests : Remove(c, s)) \/ ClearHistory(c) \/ SubmitTrim(c)
  <2>1. PICK S : EraseRecords(S)
    BY <1>2 DEF Remove, ClearHistory, SubmitTrim
  <2>2. recState'[t] = recState[t] \/ recState'[t] = Absent
    BY <2>1 DEF EraseRecords
  <2>3. born' = born /\ mode' = mode
    BY <1>2 DEF Remove, ClearHistory, SubmitTrim, procVars
  <2> QED
    BY <2>2, <2>3 DEF RecordStep, RecordErased
<1>3. CASE CancelPublish(c)
  <2>1. client[c].test \in Tests /\ ClientOwns(c, client[c].test)
    BY <1>3 DEF CancelPublish, ClientOwns, Types, ClientTypes, ClientsConsistent
  <2>2. recState[client[c].test] \in Active
    BY <2>1, ClientAlone
  <2>3. client[c].test \in unsaved \/ disk[client[c].test] = "CANCELLED"
    BY <1>3 DEF CancelPublish, PublishReady
  <2>4. born' = born /\ mode' = mode /\ unsaved' = unsaved /\ disk' = disk
    BY <1>3 DEF CancelPublish, procVars, storeVars
  <2>5. CASE t = client[c].test
    <3>1. recState'[t] = "CANCELLED"
      BY <1>3, <2>1, <2>2, <2>5 DEF CancelPublish, Types, RecordTypes, Active, Absent
    <3> QED
      BY <2>2, <2>3, <2>4, <2>5, <3>1 DEF RecordStep, RecordEnds, Terminal
  <2>6. CASE t # client[c].test
    BY <1>3, <2>4, <2>6 DEF CancelPublish, RecordStep, Types, RecordTypes
  <2> QED
    BY <2>5, <2>6
<1>4. CASE \/ \E s \in Tests : RemoveFile(c, s) \/ CancelDequeue(c, s)
           \/ SubmitEnqueue(c) \/ RemoveDone(c) \/ CancelLookup(c) \/ CancelPersist(c)
           \/ CancelStats(c) \/ CancelEvent(c) \/ CancelFlag(c)
  BY <1>4 DEF RemoveFile, CancelDequeue, SubmitEnqueue, RemoveDone, CancelLookup, CancelPersist,
       CancelStats, CancelEvent, CancelFlag, RecordStep, recVars, procVars
<1> QED
  BY <1>1, <1>2, <1>3, <1>4 DEF ClientBegins, ClientContinues

LEMMA WorkerRecordStep ==
  ASSUME Types, Ownership, PublishReady, NEW w \in Workers, NEW t \in Tests,
         WorkerSteps(w) \/ WorkerProgress(w)
  PROVE  RecordStep(t) /\ born'[t] = born[t] /\ mode' = mode
<1> DEFINE s == worker[w].test
<1>1. ASSUME worker[w].pc \in {"got", "load", "reserve", "run", "publish"}
      PROVE  s \in Tests /\ recState[s] \in Active
  <2>1. s \in Tests /\ WorkerOwns(w, s)
    BY <1>1 DEF WorkerOwns, Types, WorkerTypes, WorkersConsistent
  <2> QED
    BY <2>1, WorkerAlone
<1>2. CASE WorkerStart(w) \/ WorkerProgress(w)
  <2>1. s \in Tests /\ recState[s] \in Active
    BY <1>1, <1>2 DEF WorkerStart, WorkerProgress
  <2>2. born' = born /\ mode' = mode
    BY <1>2 DEF WorkerStart, WorkerProgress, procVars
  <2>3. recState'[t] = recState[t] \/ (t = s /\ recState'[t] = "RUNNING")
    BY <1>2, <2>1 DEF WorkerStart, WorkerProgress, Types, RecordTypes, Active, Absent
  <2> QED
    BY <2>1, <2>2, <2>3 DEF RecordStep, RecordRuns, Active
<1>3. CASE WorkerAbandon(w) \/ WorkerException(w)
  <2>1. s \in Tests /\ recState[s] \in Active
    BY <1>1, <1>3 DEF WorkerAbandon, WorkerException
  <2>2. born' = born /\ mode' = mode
    BY <1>3 DEF WorkerAbandon, WorkerException, procVars
  <2>3. \/ recState'[t] = recState[t]
        \/ t = s /\ recState'[t] \in Terminal /\ t \in unsaved'
    BY <1>3, <2>1 DEF WorkerAbandon, WorkerException, Types, RecordTypes, Active, Absent, Terminal
  <2> QED
    BY <2>1, <2>2, <2>3 DEF RecordStep, RecordEnds
<1>4. CASE WorkerPublish(w)
  <2>1. s \in Tests /\ recState[s] \in Active
    BY <1>1, <1>4 DEF WorkerPublish
  <2>2. born' = born /\ mode' = mode /\ unsaved' = unsaved /\ disk' = disk
    BY <1>4 DEF WorkerPublish, procVars, storeVars
  <2>3. /\ worker[w].verdict \in Terminal
        /\ s \in unsaved \/ disk[s] = worker[w].verdict
    BY <1>4 DEF WorkerPublish, PublishReady, Types, WorkerTypes, WorkersConsistent
  <2>4. recState'[t] = recState[t] \/ (t = s /\ recState'[t] = worker[w].verdict)
    BY <1>4, <2>1 DEF WorkerPublish, Types, RecordTypes
  <2> QED
    BY <2>1, <2>2, <2>3, <2>4 DEF RecordStep, RecordEnds
<1>5. CASE \/ \E u \in Tests : WorkerDequeue(w, u)
           \/ WorkerTop(w) \/ WorkerWaitEnds(w) \/ WorkerLoaded(w) \/ WorkerBegin(w) \/ WorkerDecide(w)
           \/ WorkerPersist(w) \/ WorkerStats(w) \/ WorkerEvent(w)
  BY <1>5 DEF WorkerDequeue, WorkerTop, WorkerWaitEnds, WorkerLoaded, WorkerBegin, WorkerDecide,
     WorkerPersist,
       WorkerStats, WorkerEvent, RecordStep, recVars, procVars
<1> QED
  BY <1>2, <1>3, <1>4, <1>5 DEF WorkerSteps

LEMMA ProcessRecordStep ==
  ASSUME Types, NEW t \in Tests, StopRequest \/ StopSteps \/ ProcessEnds \/ Start
  PROVE  /\ RecordStep(t)
         /\ born'[t] = born[t]
         /\ mode = "down" => RecordLoaded(t)
<1>1. CASE StopRequest \/ StopSteps
  BY <1>1 DEF StopRequest, StopSteps, StopFlags, StopClose, StopJoin, recVars, RecordStep
<1>2. CASE ProcessEnds
  BY <1>2 DEF ProcessEnds, EraseRecords, Alive, RecordStep, RecordErased
<1>3. CASE Start
  BY <1>3 DEF Start, RecordStep, RecordLoaded
<1> QED
  BY <1>1, <1>2, <1>3

\* A file is written by the thread that holds its test, and deleted only when
\* there is no record.
FileWritten(t) ==
  /\ recState[t] \in Active
  /\ recState'[t] = recState[t]
  /\ \/ \E c \in Clients : client[c].test = t /\ CancelPersist(c)
     \/ \E w \in Workers : worker[w].test = t /\ WorkerPersist(w)

FileDeleted(t) == recState[t] = Absent /\ disk'[t] = Absent

FileStep(t) ==
  /\ disk'[t] = disk[t] \/ FileWritten(t) \/ FileDeleted(t)
  /\ unsaved \subseteq unsaved' \/ ProcessEnds

LEMMA ClientFileStep ==
  ASSUME Types, Ownership, FilesOfErased, NEW c \in Clients, NEW t \in Tests,
         ClientBegins(c) \/ ClientContinues(c)
  PROVE  FileStep(t)
<1>1. CASE CancelPersist(c)
  <2>1. client[c].test \in Tests /\ ClientOwns(c, client[c].test)
    BY <1>1 DEF CancelPersist, ClientOwns, Types, ClientTypes, ClientsConsistent
  <2>2. recState[client[c].test] \in Active
    BY <2>1, ClientAlone
  <2>3. unsaved \subseteq unsaved' /\ recState' = recState
    BY <1>1 DEF CancelPersist, Persist, recVars
  <2>4. t # client[c].test => disk'[t] = disk[t]
    BY <1>1 DEF CancelPersist, Persist, Types, StoreTypes
  <2> QED
    BY <1>1, <2>2, <2>3, <2>4 DEF FileStep, FileWritten
<1>2. CASE \E s \in Tests : RemoveFile(c, s)
  <2>1. PICK s \in Tests : RemoveFile(c, s)
    BY <1>2
  <2>2. recState[s] = Absent
    BY <2>1 DEF RemoveFile, FilesOfErased
  <2> QED
    BY <2>1, <2>2 DEF RemoveFile, FileStep, FileDeleted, Types, StoreTypes
<1>3. CASE \/ \E s \in Tests : SubmitInsert(c, s) \/ CancelDequeue(c, s) \/ Remove(c, s)
           \/ ClearHistory(c) \/ SubmitTrim(c) \/ SubmitEnqueue(c) \/ RemoveDone(c)
           \/ CancelLookup(c) \/ CancelPublish(c) \/ CancelStats(c) \/ CancelEvent(c)
           \/ CancelFlag(c)
  BY <1>3 DEF SubmitInsert, CancelDequeue, Remove, ClearHistory, SubmitTrim, SubmitEnqueue,
       RemoveDone, CancelLookup, CancelPublish, CancelStats, CancelEvent, CancelFlag, storeVars,
       FileStep
<1> QED
  BY <1>1, <1>2, <1>3 DEF ClientBegins, ClientContinues

LEMMA WorkerFileStep ==
  ASSUME Types, Ownership, NEW w \in Workers, NEW t \in Tests,
         WorkerSteps(w) \/ WorkerProgress(w)
  PROVE  FileStep(t)
<1>1. CASE WorkerPersist(w)
  <2>1. worker[w].test \in Tests /\ WorkerOwns(w, worker[w].test)
    BY <1>1 DEF WorkerPersist, WorkerOwns, Types, WorkerTypes, WorkersConsistent
  <2>2. recState[worker[w].test] \in Active
    BY <2>1, WorkerAlone
  <2>3. unsaved \subseteq unsaved' /\ recState' = recState
    BY <1>1 DEF WorkerPersist, Persist, recVars
  <2>4. t # worker[w].test => disk'[t] = disk[t]
    BY <1>1 DEF WorkerPersist, Persist, Types, StoreTypes
  <2> QED
    BY <1>1, <2>2, <2>3, <2>4 DEF FileStep, FileWritten
<1>2. CASE WorkerAbandon(w) \/ WorkerException(w)
  BY <1>2 DEF WorkerAbandon, WorkerException, FileStep
<1>3. CASE \/ \E s \in Tests : WorkerDequeue(w, s)
           \/ WorkerTop(w) \/ WorkerWaitEnds(w) \/ WorkerLoaded(w) \/ WorkerBegin(w) \/ WorkerStart(w)
           \/ WorkerProgress(w) \/ WorkerDecide(w) \/ WorkerPublish(w) \/ WorkerStats(w)
           \/ WorkerEvent(w)
  BY <1>3 DEF WorkerDequeue, WorkerTop, WorkerWaitEnds, WorkerLoaded, WorkerBegin, WorkerStart,
     WorkerProgress,
       WorkerDecide, WorkerPublish, WorkerStats, WorkerEvent, storeVars, FileStep
<1> QED
  BY <1>1, <1>2, <1>3 DEF WorkerSteps

LEMMA ProcessFileStep ==
  ASSUME DownIsEmpty, NEW t \in Tests, StopRequest \/ StopSteps \/ ProcessEnds \/ Start
  PROVE  FileStep(t)
<1>1. CASE StopRequest \/ StopSteps
  BY <1>1 DEF StopRequest, StopSteps, StopFlags, StopClose, StopJoin, storeVars, FileStep
<1>2. CASE ProcessEnds
  BY <1>2 DEF ProcessEnds, FileStep
<1>3. CASE Start
  BY <1>3 DEF Start, DownIsEmpty, FileStep, FileDeleted
<1> QED
  BY <1>1, <1>2, <1>3

LEMMA StepOfOneTest ==
  ASSUME Types, Inv, Next, NEW t \in Tests
  PROVE  /\ RecordStep(t)
         /\ FileStep(t)
         /\ born'[t] = born[t] \/ RecordSubmitted(t)
BY ClientRecordStep, WorkerRecordStep, ProcessRecordStep, ClientFileStep, WorkerFileStep,
   ProcessFileStep, Zenon DEF Inv, Next

LEMMA BornFirstPreserved ==
  ASSUME Types, Inv, Next
  PROVE  BornFirst'
<1> SUFFICES ASSUME NEW t \in Tests, recState'[t] # Absent \/ disk'[t] # Absent
             PROVE  born'[t] # 0
  BY DEF BornFirst
<1>1. /\ RecordStep(t)
      /\ FileStep(t)
      /\ born'[t] = born[t] \/ RecordSubmitted(t)
  BY StepOfOneTest
<1>2. recState[t] # Absent \/ disk[t] # Absent => born[t] # 0
  BY DEF Inv, BornFirst
<1>3. CASE RecordSubmitted(t)
  BY <1>3 DEF RecordSubmitted
<1>4. CASE born'[t] = born[t] /\ ~RecordSubmitted(t)
  <2>1. recState[t] # Absent \/ disk[t] # Absent
    BY <1>1, <1>4 DEF RecordStep, RecordErased, RecordRuns, RecordEnds, RecordLoaded, FileStep,
         FileWritten, FileDeleted, Active, Absent
  <2> QED
    BY <1>2, <1>4, <2>1
<1> QED
  BY <1>1, <1>3, <1>4

\* No API call begins, and none is under way, while there is no process.
LEMMA DownIsEmptyPreserved ==
  ASSUME Types, Inv, Next
  PROVE  DownIsEmpty'
<1> SUFFICES ASSUME mode' = "down"
             PROVE  /\ \A t \in Tests : recState'[t] = Absent
                    /\ \A c \in Clients : client'[c].pc = "idle"
  BY DEF DownIsEmpty
<1>1. CASE ProcessEnds
  BY <1>1 DEF ProcessEnds, EraseRecords, IdleClient
<1>2. CASE ~ProcessEnds
  <2>1. mode = "down" /\ ~StopRequest /\ ~StopSteps /\ ~Start
    <3>1. ~StopRequest /\ ~StopSteps /\ ~Start
      BY DEF StopRequest, StopSteps, StopFlags, StopClose, StopJoin, Start
    <3> QED
      BY <1>2, <3>1, ClientFrame, WorkerFrame DEF Next
  <2>2. /\ \A t \in Tests : recState[t] = Absent
        /\ \A c \in Clients : client[c].pc = "idle"
    BY <2>1 DEF Inv, DownIsEmpty
  <2>3. ASSUME NEW t \in Tests PROVE recState'[t] = Absent
    <3>1. RecordStep(t)
      BY StepOfOneTest
    <3> QED
      BY <2>1, <2>2, <3>1 DEF RecordStep, RecordErased, RecordRuns, RecordEnds, RecordSubmitted,
           RecordLoaded, Active, Absent
  <2>4. ~ \E c \in Clients : ClientBegins(c) \/ ClientContinues(c)
    <3>1. ASSUME NEW c \in Clients PROVE ~ClientBegins(c)
      BY <2>1 DEF ClientBegins, Alive, SubmitInsert, CancelDequeue, Remove, ClearHistory
    <3>2. ASSUME NEW c \in Clients, ClientContinues(c) PROVE client[c].pc # "idle"
      BY <3>2 DEF ClientContinues, SubmitTrim, SubmitEnqueue, RemoveFile, RemoveDone, CancelLookup,
           CancelPersist, CancelPublish, CancelStats, CancelEvent, CancelFlag
    <3> QED
      BY <2>2, <3>1, <3>2
  <2>5. PICK w \in Workers : WorkerSteps(w) \/ WorkerProgress(w)
    BY <1>2, <2>1, <2>4 DEF Next
  <2>6. client' = client
    BY <2>5, WorkerFrame
  <2> QED
    BY <2>2, <2>3, <2>6
<1> QED
  BY <1>1, <1>2

\* Files are marked for deletion only where records are erased.
LEMMA FilesMarked ==
  ASSUME Types, Inv, Next, NEW c \in Clients
  PROVE  \A t \in client'[c].files : t \in client[c].files \/ (t \in Finished /\ recState'[t] = Absent)
<1>1. ASSUME NEW d \in Clients, ClientBegins(d) \/ ClientContinues(d)
      PROVE  \A t \in client'[c].files :
               t \in client[c].files \/ (t \in Finished /\ recState'[t] = Absent)
  <2> USE DEF Types, ClientTypes
  <2>1. CASE d # c
    BY <1>1, <2>1, ClientFrame
  <2>2. ASSUME NEW s \in Tests, Remove(c, s)
        PROVE  client'[c].files = {s} /\ s \in Finished /\ recState'[s] = Absent
    BY <2>2 DEF Remove, EraseRecords
  <2>3. ASSUME ClearHistory(c)
        PROVE  client'[c].files = Finished /\ \A t \in Finished : recState'[t] = Absent
    BY <2>3 DEF ClearHistory, EraseRecords, Finished
  <2>4. ASSUME SubmitTrim(c)
        PROVE  client'[c].files \subseteq Finished /\ \A t \in client'[c].files : recState'[t] = Absent
    <3>1. TrimVictims(Finished, Present) \subseteq Finished /\ Finished \subseteq Tests
      BY DEF TrimVictims, Finished
    <3> QED
      BY <2>4, <3>1 DEF SubmitTrim, EraseRecords
  <2>5. ASSUME NEW s \in Tests, SubmitInsert(c, s) \/ CancelDequeue(c, s) \/ RemoveFile(c, s)
        PROVE  client'[c].files \subseteq client[c].files
    BY <2>5 DEF SubmitInsert, CancelDequeue, RemoveFile
  <2>6. ASSUME SubmitEnqueue(c) \/ RemoveDone(c) \/ CancelLookup(c) \/ CancelPersist(c)
        PROVE  client'[c].files \subseteq client[c].files
    BY <2>6 DEF SubmitEnqueue, RemoveDone, CancelLookup, CancelPersist, Goto, Finish, IdleClient
  <2>7. ASSUME CancelPublish(c) \/ CancelStats(c) \/ CancelEvent(c) \/ CancelFlag(c)
        PROVE  client'[c].files \subseteq client[c].files
    BY <2>7 DEF CancelPublish, CancelStats, CancelEvent, CancelFlag, Goto, Finish, IdleClient
  <2> QED
    BY <1>1, <2>1, <2>2, <2>3, <2>4, <2>5, <2>6, <2>7 DEF ClientBegins, ClientContinues
<1>2. ASSUME NEW w \in Workers, WorkerSteps(w) \/ WorkerProgress(w)
      PROVE  client' = client
  BY <1>2, WorkerFrame
<1>3. ASSUME StopRequest \/ StopSteps \/ ProcessEnds \/ Start
      PROVE  client'[c] = client[c] \/ client'[c].files = {}
  BY <1>3 DEF StopRequest, StopSteps, StopFlags, StopClose, StopJoin, ProcessEnds, Start, IdleClient
<1> QED
  BY <1>1, <1>2, <1>3 DEF Next

LEMMA FilesOfErasedPreserved ==
  ASSUME Types, Inv, Next
  PROVE  FilesOfErased'
<1> SUFFICES ASSUME NEW c \in Clients, NEW t \in client'[c].files
             PROVE  recState'[t] = Absent /\ born'[t] # 0
  BY DEF FilesOfErased
<1>1. t \in client[c].files \/ (t \in Finished /\ recState'[t] = Absent)
  BY FilesMarked
<1>2. CASE t \in client[c].files
  <2>1. t \in Tests /\ recState[t] = Absent /\ born[t] # 0
    BY <1>2 DEF Inv, FilesOfErased, Types, ClientTypes
  <2>2. mode # "down"
    BY <1>2 DEF Inv, DownIsEmpty, ClientsConsistent
  <2>3. RecordStep(t) /\ (born'[t] = born[t] \/ RecordSubmitted(t))
    BY <2>1, StepOfOneTest
  <2> QED
    BY <2>1, <2>2, <2>3 DEF RecordStep, RecordErased, RecordRuns, RecordEnds, RecordSubmitted,
         RecordLoaded, Active, Absent
<1>3. CASE t \in Finished /\ recState'[t] = Absent
  <2>1. t \in Tests /\ born[t] # 0
    BY <1>3 DEF Inv, BornFirst, Finished, Terminal, Absent
  <2>2. born'[t] = born[t] \/ RecordSubmitted(t)
    BY <2>1, StepOfOneTest
  <2> QED
    BY <1>3, <2>1, <2>2 DEF RecordSubmitted
<1> QED
  BY <1>1, <1>2, <1>3

\* The file of a test stays as it is while a thread that does not write holds it.
LEMMA HeldFileStays ==
  ASSUME Types, Inv, Next, NEW t \in Tests, recState[t] \in Active,
         \A c \in Clients : client[c].test = t => client[c].pc # "cancelPersist",
         \A w \in Workers : worker[w].test = t => worker[w].pc # "persist"
  PROVE  disk'[t] = disk[t] /\ (t \in unsaved => t \in unsaved' \/ ProcessEnds)
<1>1. FileStep(t)
  BY StepOfOneTest
<1>2. ~FileWritten(t)
  BY DEF FileWritten, CancelPersist, WorkerPersist
<1>3. ~FileDeleted(t)
  BY DEF FileDeleted, Active, Absent
<1> QED
  BY <1>1, <1>2, <1>3 DEF FileStep

\* A thread gets to the point of publishing only by saving the verdict.
LEMMA EntersCancelPublish ==
  ASSUME Types, Next, NEW c \in Clients, client'[c].pc = "cancelPublish", client'[c] # client[c]
  PROVE  CancelPersist(c)
<1> USE DEF Types, ClientTypes
<1>1. PICK d \in Clients : ClientBegins(d) \/ ClientContinues(d)
  <2>1. ~ProcessEnds /\ ~Start /\ ~StopRequest /\ ~StopSteps
    BY DEF ProcessEnds, IdleClient, Start, StopRequest, StopSteps, StopFlags, StopClose,
         StopJoin
  <2>2. ASSUME NEW w \in Workers, WorkerSteps(w) \/ WorkerProgress(w) PROVE FALSE
    BY <2>2, WorkerFrame
  <2> QED
    BY <2>1, <2>2 DEF Next
<1>2. d = c
  BY <1>1, ClientFrame
<1>3. ~ClientBegins(c)
  <2>1. ASSUME NEW t \in Tests, CancelDequeue(c, t) PROVE FALSE
    BY <2>1 DEF CancelDequeue
  <2>2. ASSUME NEW t \in Tests, SubmitInsert(c, t) \/ Remove(c, t) PROVE FALSE
    BY <2>2 DEF SubmitInsert, Remove
  <2>3. ~ClearHistory(c)
    BY DEF ClearHistory
  <2> QED
    BY <2>1, <2>2, <2>3 DEF ClientBegins
<1>4. /\ ~SubmitTrim(c) /\ ~SubmitEnqueue(c) /\ ~RemoveDone(c) /\ ~CancelLookup(c)
      /\ ~CancelPublish(c) /\ ~CancelStats(c) /\ ~CancelEvent(c) /\ ~CancelFlag(c)
      /\ \A t \in Tests : ~RemoveFile(c, t)
  BY DEF SubmitTrim, SubmitEnqueue, RemoveFile, RemoveDone, CancelLookup, CancelPublish,
       CancelStats, CancelEvent, CancelFlag, Goto, Finish, IdleClient
<1> QED
  BY <1>1, <1>2, <1>3, <1>4 DEF ClientContinues

LEMMA EntersPublish ==
  ASSUME Types, Next, NEW w \in Workers, worker'[w].pc = "publish", worker'[w] # worker[w]
  PROVE  WorkerPersist(w)
<1> USE DEF Types, WorkerTypes
<1>1. PICK v \in Workers : WorkerSteps(v) \/ WorkerProgress(v)
  <2>1. ~ProcessEnds /\ ~Start /\ ~StopRequest /\ ~StopSteps
    BY DEF ProcessEnds, IdleWorker, Start, StopRequest, StopSteps, StopFlags, StopClose,
         StopJoin
  <2>2. ASSUME NEW c \in Clients, ClientBegins(c) \/ ClientContinues(c) PROVE FALSE
    BY <2>2, ClientFrame
  <2> QED
    BY <2>1, <2>2 DEF Next
<1>2. v = w
  BY <1>1, WorkerFrame
<1>3. /\ ~WorkerTop(w) /\ ~WorkerWaitEnds(w) /\ ~WorkerLoaded(w) /\ ~WorkerAbandon(w) /\ ~WorkerBegin(w)
      /\ ~WorkerException(w) /\ ~WorkerStart(w) /\ ~WorkerProgress(w) /\ ~WorkerPublish(w)
      /\ ~WorkerStats(w) /\ ~WorkerEvent(w) /\ \A t \in Tests : ~WorkerDequeue(w, t)
  BY DEF WorkerTop, WorkerWaitEnds, WorkerLoaded, WorkerDequeue, WorkerAbandon, WorkerBegin,
       WorkerException, WorkerStart, WorkerProgress, WorkerPublish, WorkerStats, WorkerEvent,
       WorkerGoto, WorkerLoop, IdleWorker
<1>4. ~WorkerDecide(w)
  <2> SUFFICES ASSUME NEW u, worker' = [worker EXCEPT ![w].pc = "persist", ![w].verdict = u]
               PROVE  FALSE
    BY DEF WorkerDecide
  <2> QED
    OBVIOUS
<1> QED
  BY <1>1, <1>2, <1>3, <1>4 DEF WorkerSteps

LEMMA PublishReadyClients ==
  ASSUME Types, Inv, Next, NEW c \in Clients, client'[c].pc = "cancelPublish"
  PROVE  client'[c].test \in unsaved' \/ disk'[client'[c].test] = "CANCELLED"
<1>1. CASE client'[c] = client[c]
  <2> DEFINE t == client[c].test
  <2>1. t \in Tests /\ ClientOwns(c, t)
    BY <1>1 DEF Types, ClientTypes, ClientsConsistent, ClientOwns
  <2>2. /\ recState[t] \in Active
        /\ \A d \in Clients \ {c} : ~ClientOwns(d, t)
        /\ \A w \in Workers : ~WorkerOwns(w, t)
    BY <2>1, ClientAlone DEF Inv
  <2>3. \A d \in Clients : client[d].test = t => client[d].pc # "cancelPersist"
    BY <1>1, <2>2 DEF ClientOwns, Types, ClientTypes, ClientsConsistent
  <2>4. \A w \in Workers : worker[w].test = t => worker[w].pc # "persist"
    BY <2>2 DEF WorkerOwns
  <2>5. disk'[t] = disk[t] /\ (t \in unsaved => t \in unsaved' \/ ProcessEnds)
    BY <2>1, <2>2, <2>3, <2>4, HeldFileStays
  <2>6. ~ProcessEnds
    BY DEF ProcessEnds, IdleClient
  <2>7. t \in unsaved \/ disk[t] = "CANCELLED"
    BY <1>1 DEF Inv, PublishReady
  <2> QED
    BY <1>1, <2>5, <2>6, <2>7
<1>2. CASE client'[c] # client[c]
  <2>1. CancelPersist(c)
    BY <1>2, EntersCancelPublish
  <2>2. client'[c].test = client[c].test /\ client[c].test \in Tests
    BY <2>1 DEF CancelPersist, Goto, Types, ClientTypes, ClientsConsistent
  <2>3. Persist(client[c].test, "CANCELLED")
    BY <2>1 DEF CancelPersist
  <2> QED
    BY <2>2, <2>3 DEF Persist, Types, StoreTypes
<1> QED
  BY <1>1, <1>2

LEMMA PublishReadyWorkers ==
  ASSUME Types, Inv, Next, NEW w \in Workers, worker'[w].pc = "publish"
  PROVE  worker'[w].test \in unsaved' \/ disk'[worker'[w].test] = worker'[w].verdict
<1>1. CASE worker'[w] = worker[w]
  <2> DEFINE t == worker[w].test
  <2>1. t \in Tests /\ WorkerOwns(w, t)
    BY <1>1 DEF Types, WorkerTypes, WorkersConsistent, WorkerOwns
  <2>2. /\ recState[t] \in Active
        /\ \A c \in Clients : ~ClientOwns(c, t)
        /\ \A v \in Workers \ {w} : ~WorkerOwns(v, t)
    BY <2>1, WorkerAlone DEF Inv
  <2>3. \A c \in Clients : client[c].test = t => client[c].pc # "cancelPersist"
    BY <2>2 DEF ClientOwns, Types, ClientTypes, ClientsConsistent
  <2>4. \A v \in Workers : worker[v].test = t => worker[v].pc # "persist"
    BY <1>1, <2>2 DEF WorkerOwns
  <2>5. disk'[t] = disk[t] /\ (t \in unsaved => t \in unsaved' \/ ProcessEnds)
    BY <2>1, <2>2, <2>3, <2>4, HeldFileStays
  <2>6. ~ProcessEnds
    BY DEF ProcessEnds, IdleWorker
  <2>7. t \in unsaved \/ disk[t] = worker[w].verdict
    BY <1>1 DEF Inv, PublishReady
  <2> QED
    BY <1>1, <2>5, <2>6, <2>7
<1>2. CASE worker'[w] # worker[w]
  <2>1. WorkerPersist(w)
    BY <1>2, EntersPublish
  <2>2. /\ worker'[w].test = worker[w].test /\ worker[w].test \in Tests
        /\ worker'[w].verdict = worker[w].verdict
    BY <2>1 DEF WorkerPersist, WorkerGoto, Types, WorkerTypes, WorkersConsistent
  <2>3. Persist(worker[w].test, worker[w].verdict)
    BY <2>1 DEF WorkerPersist
  <2> QED
    BY <2>2, <2>3 DEF Persist, Types, StoreTypes
<1> QED
  BY <1>1, <1>2

LEMMA PersistBeforeVisiblePreserved ==
  ASSUME Types, Inv, Next
  PROVE  PersistBeforeVisible'
<1> SUFFICES ASSUME NEW t \in Tests, recState'[t] \in Terminal, t \notin unsaved'
             PROVE  disk'[t] = recState'[t]
  BY DEF PersistBeforeVisible, Finished
<1>1. RecordStep(t) /\ FileStep(t)
  BY StepOfOneTest
<1>2. CASE recState'[t] = recState[t]
  <2>1. ~ProcessEnds
    BY DEF ProcessEnds, EraseRecords, Terminal, Absent
  <2>2. t \notin unsaved /\ disk'[t] = disk[t]
    BY <1>1, <1>2, <2>1 DEF FileStep, FileWritten, FileDeleted, Terminal, Active, Absent
  <2>3. disk[t] = recState[t]
    BY <1>2, <2>2 DEF Inv, PersistBeforeVisible, Finished
  <2> QED
    BY <1>2, <2>2, <2>3
<1>3. CASE recState'[t] # recState[t]
  BY <1>1, <1>3 DEF RecordStep, RecordErased, RecordRuns, RecordEnds, RecordSubmitted,
       RecordLoaded, Terminal, Active, Absent
<1> QED
  BY <1>2, <1>3

-----------------------------------------------------------------------------
(* The theorems.                                                           *)

LEMMA EngineInvariant == Spec => []Inv
<1>1. Init => Inv
  <2> SUFFICES ASSUME Init PROVE Inv
    OBVIOUS
  <2>1. items = <<>> /\ items \in Seq(Task) /\ DOMAIN items = {}
    BY DEF Init, QueueInit
  <2>2. QueueInv
    BY <2>1 DEF Init, QueueInit, QueueInv, QueueTypeOK,
         SequencesIssued, PriorityFifo, NoDuplicates
  <2>3. Types
    <3>1. hasResult \in [Tests -> BOOLEAN] /\ flag \in [Tests -> BOOLEAN]
      BY DEF Init
    <3>2. RecordTypes /\ StoreTypes /\ NoteTypes /\ ProcTypes
      BY <3>1 DEF Init, RecordTypes, StoreTypes, NoteTypes, ProcTypes, Modes
    <3>3. ClientTypes
      BY DEF Init, ClientTypes, ClientsConsistent, IdleClient, ClientPcs
    <3>4. WorkerTypes
      BY DEF Init, WorkerTypes, WorkersConsistent, IdleWorker, WorkerPcs
    <3> QED
      BY <3>2, <3>3, <3>4 DEF Types
  <2>4. Ownership
    <3>1. ASSUME NEW t \in Tests, NEW o \in Hands PROVE ~Owns(o, t)
      BY <2>1 DEF Init, Owns, ClientOwns, WorkerOwns, Queued, IdleClient, IdleWorker
    <3>2. \A t \in Tests : recState[t] \notin Active
      BY DEF Init, Active, Absent
    <3> QED
      BY <3>1, <3>2, Zenon DEF Ownership
  <2>5. BornFirst /\ DownIsEmpty /\ PersistBeforeVisible
    BY DEF Init, BornFirst, DownIsEmpty, PersistBeforeVisible, Finished, Terminal, Absent
  <2>6. FilesOfErased /\ PublishReady
    BY DEF Init, FilesOfErased, PublishReady, IdleClient, IdleWorker
  <2> QED
    BY <2>2, <2>3, <2>4, <2>5, <2>6, TypesOfEngine DEF Inv
<1>2. Inv /\ [Next]_vars => Inv'
  <2> SUFFICES ASSUME Inv, [Next]_vars PROVE Inv'
    OBVIOUS
  <2>1. Types
    BY TypesOfEngine DEF Inv
  <2>2. CASE Next
    <3>1. QueueInv' /\ Ownership'
      BY <2>1, <2>2, OwnershipPreserved DEF Inv
    <3>2. Types'
      BY <2>1, <2>2, ClientStepTyped, WorkerStepTyped, ProcessStepTyped, Zenon DEF Next
    <3>3. TypeOK' /\ ClientsConsistent' /\ WorkersConsistent'
      <4>1. QueueTypeOK'
        BY <3>1 DEF QueueInv, QueueTypeOK
      <4> QED
        BY <3>2, <4>1 DEF TypeOK, Types, RecordTypes, ClientTypes, WorkerTypes, StoreTypes,
             NoteTypes, ProcTypes
    <3>4. BornFirst' /\ DownIsEmpty' /\ FilesOfErased' /\ PersistBeforeVisible'
      BY <2>1, <2>2, BornFirstPreserved, DownIsEmptyPreserved, FilesOfErasedPreserved,
         PersistBeforeVisiblePreserved
    <3>5. PublishReady'
      BY <2>1, <2>2, PublishReadyClients, PublishReadyWorkers DEF PublishReady
    <3> QED
      BY <3>1, <3>3, <3>4, <3>5 DEF Inv
  <2>3. CASE UNCHANGED vars
    <3>1. QueueInv'
      BY <2>3, QueueUntouched DEF vars, queueVars, Inv
    <3>2. Types'
      BY <2>1, <2>3, SameTypes DEF Types, vars, recVars, flagVars, storeVars, noteVars, procVars
    <3>3. TypeOK' /\ ClientsConsistent' /\ WorkersConsistent'
      <4>1. QueueTypeOK'
        BY <3>1 DEF QueueInv, QueueTypeOK
      <4> QED
        BY <3>2, <4>1 DEF TypeOK, Types, RecordTypes, ClientTypes, WorkerTypes, StoreTypes,
             NoteTypes, ProcTypes
    <3>4. Ownership'
      <4>1. ASSUME NEW t \in Tests PROVE Kept(t)
        BY <2>3 DEF vars, Kept, ClientOwns, WorkerOwns, Queued
      <4> QED
        BY <4>1, OwnershipStep DEF Handled, Inv
    <3>5. BornFirst' /\ DownIsEmpty' /\ FilesOfErased' /\ PublishReady' /\ PersistBeforeVisible'
      BY <2>3 DEF vars, Inv, BornFirst, DownIsEmpty, FilesOfErased, PublishReady,
           PersistBeforeVisible, Finished
    <3> QED
      BY <3>1, <3>3, <3>4, <3>5 DEF Inv
  <2> QED
    BY <2>2, <2>3
<1> QED
  BY <1>1, <1>2, PTL DEF Spec

\* The engine's state is well typed, for any number of tests and threads.
THEOREM EngineTypeCorrect == Spec => []TypeOK
BY EngineInvariant, PTL DEF Inv

\* The deque the workers take tests from is in order of priority and arrival,
\* through all that submitters, cancellers, workers, stop() and restarts do to
\* it between their other steps.
THEOREM EngineQueueOrdered == Spec => []PriorityFifo
BY EngineInvariant, PTL DEF Inv, QueueInv

\* Every unfinished test is held by exactly one of submitter, queue, worker and
\* canceller, and a finished or removed one by nobody, whatever the threads,
\* stop() and crashes do: no test is lost, run twice or run after it was
\* cancelled in the queue.
THEOREM EngineSingleOwner == Spec => []SingleOwner
<1>1. Inv => SingleOwner
  <2> SUFFICES ASSUME Inv PROVE SingleOwner
    OBVIOUS
  <2>1. NoDuplicates
    BY DEF QueueInv, Inv
  <2>2. ASSUME NEW t \in Tests PROVE Owners(t) = {o \in Hands : Owns(o, t)}
    BY EngineAssumption DEF EngineAssumption, Owners, Hands, Owns
  <2>3. ASSUME NEW t \in Tests
        PROVE  IF recState[t] \in Active THEN \E o \in Owners(t) : Owners(t) = {o}
                                         ELSE Owners(t) = {}
    <3>1. /\ recState[t] \in Active <=> \E o \in Hands : Owns(o, t)
          /\ \A o, p \in Hands : Owns(o, t) /\ Owns(p, t) => o = p
      BY DEF Inv, Ownership
    <3> QED
      BY <2>2, <3>1
  <2> QED
    BY <2>1, <2>3 DEF SingleOwner
<1> QED
  BY <1>1, EngineInvariant, PTL

\* A client that sees a terminal state finds the file of that verdict, unless
\* saving failed or the test ended in shutdown or in an exception: for any
\* interleaving of finalisation, removal, trimming, crashes and restarts.
THEOREM EnginePersistBeforeVisible == Spec => []PersistBeforeVisible
BY EngineInvariant, PTL DEF Inv

-----------------------------------------------------------------------------
(* What a test leaves and what is told of it: the invariant for the          *)
(* announcements, statistics, files and cancellations.                       *)

Threads == Clients \cup Workers

\* o is between the publication of t's verdict and its final event ...
Announces(o, t) ==
  \/ o \in Clients /\ client[o].test = t /\ client[o].pc \in {"cancelStats", "cancelEvent"}
  \/ o \in Workers /\ worker[o].test = t /\ worker[o].pc \in {"stats", "event"}

\* ... and has not counted it yet.
Counts(o, t) ==
  \/ o \in Clients /\ client[o].test = t /\ client[o].pc = "cancelStats"
  \/ o \in Workers /\ worker[o].test = t /\ worker[o].pc = "stats"

\* Only one thread announces a test, and it did not find it announced.
OneAnnouncer(t) ==
  /\ \A o, p \in Threads : Announces(o, t) /\ Announces(p, t) => o = p
  /\ \A o \in Threads : Announces(o, t) => finals[t] = 0 /\ recState[t] \notin Active
  /\ \A o \in Threads : Counts(o, t) => counted[t] = 0

\* Nothing was told of a test that is unfinished or was never submitted.
NothingTold(t) ==
  /\ recState[t] \in Active \/ born[t] = 0 => finals[t] = 0 /\ counted[t] = 0
  /\ born[t] = 0 => \A o \in Threads : ~Announces(o, t)

ToldOnce(t) ==
  /\ finals[t] \in {0, 1} /\ counted[t] \in {0, 1}
  /\ recState[t] \in Terminal /\ counted[t] = 0 => t \in unsaved \/ \E o \in Threads : Counts(o, t)

\* That there is one announcer is inductive because a test gets a new one only
\* when it ends, so it was unfinished, and an unfinished test has none.
HistoryOf(t) == OneAnnouncer(t) /\ NothingTold(t) /\ ToldOnce(t)

HInv == Inv /\ \A t \in Tests : HistoryOf(t)

-----------------------------------------------------------------------------
(* What a step can do to the story of one test.                            *)

\* Records come up and end as the engine's invariant says, and nothing that was
\* not saved is forgotten.
Steady(t) ==
  /\ recState'[t] \in Active => recState[t] \in Active \/ born[t] = 0
  /\ recState'[t] \in Terminal => recState[t] \in Terminal \cup Active
  /\ born'[t] = 0 => born[t] = 0
  /\ t \in unsaved => t \in unsaved'

\* Nothing is told, and a test that ends, ends unsaved.
Quiet(t) ==
  /\ finals'[t] = finals[t] /\ counted'[t] = counted[t]
  /\ \A o \in Threads : Announces(o, t)' <=> Announces(o, t)
  /\ \A o \in Threads : Counts(o, t)' <=> Counts(o, t)
  /\ recState[t] \in Active /\ recState'[t] \in Terminal => t \in unsaved'

LEMMA StatesApart == Active \cap Terminal = {} /\ Absent \notin Active \cup Terminal
BY DEF Active, Terminal, Absent

LEMMA QuietStep ==
  ASSUME NEW t \in Tests, HistoryOf(t), Steady(t), Quiet(t)
  PROVE  HistoryOf(t)'
<1>1. OneAnnouncer(t)'
  BY Zenon DEF HistoryOf, OneAnnouncer, NothingTold, Steady, Quiet
<1>2. NothingTold(t)'
  BY Zenon DEF HistoryOf, NothingTold, Steady, Quiet
<1>3. ToldOnce(t)'
  BY StatesApart, Zenon DEF HistoryOf, NothingTold, ToldOnce, Steady, Quiet
<1> QED
  BY <1>1, <1>2, <1>3 DEF HistoryOf

\* o publishes the verdict of t.
LEMMA PublishStep ==
  ASSUME NEW t \in Tests, NEW o \in Threads, HistoryOf(t), Steady(t), born[t] # 0,
         recState[t] \in Active, recState'[t] \in Terminal,
         finals'[t] = finals[t], counted'[t] = counted[t],
         \A p \in Threads : Announces(p, t)' <=> p = o \/ Announces(p, t),
         \A p \in Threads : Counts(p, t)' <=> p = o \/ Counts(p, t)
  PROVE  HistoryOf(t)'
<1>1. /\ \A p \in Threads : ~Announces(p, t)
      /\ finals[t] = 0 /\ counted[t] = 0
      /\ recState'[t] \notin Active /\ born'[t] # 0
  BY StatesApart DEF HistoryOf, OneAnnouncer, NothingTold, Steady
<1>2. \A p \in Threads : ~Counts(p, t)
  BY <1>1 DEF Counts, Announces
<1>3. OneAnnouncer(t)'
  BY <1>1, <1>2, Zenon DEF OneAnnouncer
<1>4. NothingTold(t)'
  BY <1>1, Zenon DEF NothingTold
<1>5. ToldOnce(t)'
  BY <1>1, Zenon DEF ToldOnce
<1> QED
  BY <1>3, <1>4, <1>5 DEF HistoryOf

\* o counts t.
LEMMA CountStep ==
  ASSUME NEW t \in Tests, NEW o \in Threads, HistoryOf(t), Counts(o, t),
         recState'[t] = recState[t], born'[t] = born[t],
         finals'[t] = finals[t], counted'[t] = counted[t] + 1,
         \A p \in Threads : Announces(p, t)' <=> Announces(p, t),
         \A p \in Threads : Counts(p, t)' <=> p # o /\ Counts(p, t)
  PROVE  HistoryOf(t)'
<1>1. \A p \in Threads : Counts(p, t) => Announces(p, t)
  BY DEF Counts, Announces
<1>2. Announces(o, t) /\ counted[t] = 0 /\ finals[t] = 0 /\ recState[t] \notin Active /\ born[t] # 0
  BY <1>1 DEF HistoryOf, OneAnnouncer, NothingTold
<1>3. \A p \in Threads : ~Counts(p, t)'
  BY <1>1, <1>2, Zenon DEF HistoryOf, OneAnnouncer
<1>4. counted'[t] = 1
  BY <1>2
<1>5. OneAnnouncer(t)'
  BY <1>3, Zenon DEF HistoryOf, OneAnnouncer
<1>6. NothingTold(t)' /\ ToldOnce(t)'
  BY <1>2, <1>4 DEF NothingTold, ToldOnce
<1> QED
  BY <1>5, <1>6 DEF HistoryOf

\* o publishes the final event of t.
LEMMA EventStep ==
  ASSUME NEW t \in Tests, NEW o \in Threads, HistoryOf(t), Announces(o, t), ~Counts(o, t),
         recState'[t] = recState[t], born'[t] = born[t], unsaved' = unsaved,
         finals'[t] = finals[t] + 1, counted'[t] = counted[t],
         \A p \in Threads : Announces(p, t)' <=> p # o /\ Announces(p, t),
         \A p \in Threads : Counts(p, t)' <=> Counts(p, t)
  PROVE  HistoryOf(t)'
<1>1. finals[t] = 0 /\ recState[t] \notin Active /\ born[t] # 0
  BY DEF HistoryOf, OneAnnouncer, NothingTold
<1>2. \A p \in Threads : ~Announces(p, t)'
  BY Zenon DEF HistoryOf, OneAnnouncer
<1>3. finals'[t] = 1
  BY <1>1
<1>4. OneAnnouncer(t)'
  BY <1>2, Zenon DEF HistoryOf, OneAnnouncer
<1>5. NothingTold(t)'
  BY <1>1, Zenon DEF NothingTold
<1>6. ToldOnce(t)'
  BY <1>3, Zenon DEF HistoryOf, ToldOnce
<1> QED
  BY <1>4, <1>5, <1>6 DEF HistoryOf

-----------------------------------------------------------------------------
(* The threads.                                                            *)

LEMMA ClientSteady ==
  ASSUME Types, Inv, NEW c \in Clients, ClientBegins(c) \/ ClientContinues(c), NEW t \in Tests
  PROVE  Steady(t)
<1>1. /\ RecordStep(t)
      /\ born'[t] = born[t] \/ RecordSubmitted(t)
      /\ mode' = mode
  BY ClientRecordStep DEF Inv
<1>2. unsaved \subseteq unsaved'
  <2>1. FileStep(t)
    BY ClientFileStep DEF Inv
  <2>2. ~ProcessEnds
    BY <1>1 DEF ProcessEnds, Alive
  <2> QED
    BY <2>1, <2>2 DEF FileStep
<1> QED
  BY <1>1, <1>2 DEF Steady, RecordStep, RecordErased, RecordRuns, RecordEnds, RecordSubmitted,
       RecordLoaded, Active, Terminal, Absent

LEMMA WorkerSteady ==
  ASSUME Types, Inv, NEW w \in Workers, WorkerSteps(w) \/ WorkerProgress(w), NEW t \in Tests
  PROVE  Steady(t)
<1>1. RecordStep(t) /\ born'[t] = born[t] /\ mode' = mode
  BY WorkerRecordStep DEF Inv
<1>2. unsaved \subseteq unsaved'
  BY DEF WorkerSteps, WorkerTop, WorkerWaitEnds, WorkerLoaded, WorkerDequeue, WorkerAbandon,
     WorkerBegin,
     WorkerException, WorkerStart, WorkerProgress, WorkerDecide, WorkerPersist, WorkerPublish,
     WorkerStats, WorkerEvent, Persist, storeVars
<1> QED
  BY <1>1, <1>2 DEF Steady, RecordStep, RecordErased, RecordRuns, RecordEnds, RecordSubmitted,
       RecordLoaded, Active, Terminal, Absent

\* The steps of an API thread other than these tell nothing: publishing the
\* verdict of a queued test it cancelled, counting it and announcing it.
LEMMA ClientQuiet ==
  ASSUME Types, NEW c \in Clients, NEW t \in Tests,
         ClientBegins(c) \/ ClientContinues(c),
         ~CancelPublish(c), ~CancelStats(c), ~CancelEvent(c)
  PROVE  Quiet(t)
<1>1. /\ finals' = finals /\ counted' = counted
      /\ recState'[t] \in {recState[t], Absent, "QUEUED"}
      /\ client[c].pc \notin {"cancelStats", "cancelEvent"}
      /\ client'[c].pc \notin {"cancelStats", "cancelEvent"}
  <2> USE DEF Types, ClientTypes, RecordTypes, Goto, Finish, IdleClient, noteVars, recVars
  <2>1. CASE \E s \in Tests : SubmitInsert(c, s) \/ CancelDequeue(c, s) \/ Remove(c, s)
    BY <2>1 DEF SubmitInsert, CancelDequeue, Remove, EraseRecords
  <2>2. CASE ClearHistory(c) \/ SubmitTrim(c)
    BY <2>2 DEF ClearHistory, SubmitTrim, EraseRecords
  <2>3. CASE SubmitEnqueue(c) \/ RemoveDone(c) \/ \E s \in Tests : RemoveFile(c, s)
    BY <2>3 DEF SubmitEnqueue, RemoveDone, RemoveFile
  <2>4. CASE CancelLookup(c) \/ CancelPersist(c) \/ CancelFlag(c)
    BY <2>4 DEF CancelLookup, CancelPersist, CancelFlag
  <2> QED
    BY <2>1, <2>2, <2>3, <2>4 DEF ClientBegins, ClientContinues
<1>2. worker' = worker /\ \A d \in Clients \ {c} : client'[d] = client[d]
  BY ClientFrame
<1>3. c \notin Workers
  BY EngineAssumption DEF EngineAssumption
<1>4. \A o \in Threads : (Announces(o, t)' <=> Announces(o, t)) /\ (Counts(o, t)' <=> Counts(o, t))
  BY <1>1, <1>2, <1>3 DEF Announces, Counts
<1> QED
  BY <1>1, <1>4, StatesApart DEF Quiet, Active, Terminal, Absent

LEMMA WorkerQuiet ==
  ASSUME Types, NEW w \in Workers, NEW t \in Tests,
         WorkerSteps(w) \/ WorkerProgress(w),
         ~WorkerPublish(w), ~WorkerStats(w), ~WorkerEvent(w)
  PROVE  Quiet(t)
<1>1. /\ finals' = finals /\ counted' = counted
      /\ recState'[t] \in {recState[t], "RUNNING"} \/ t \in unsaved'
      /\ worker[w].pc \notin {"stats", "event"}
      /\ worker'[w].pc \notin {"stats", "event"}
  <2> USE DEF Types, WorkerTypes, RecordTypes, WorkerGoto, WorkerLoop, IdleWorker, noteVars, recVars
  <2>1. CASE WorkerTop(w) \/ WorkerWaitEnds(w) \/ WorkerLoaded(w) \/ \E s \in Tests : WorkerDequeue(w, s)
    BY <2>1 DEF WorkerTop, WorkerWaitEnds, WorkerLoaded, WorkerDequeue
  <2>2. CASE WorkerAbandon(w) \/ WorkerException(w)
    BY <2>2 DEF WorkerAbandon, WorkerException
  <2>3. CASE WorkerBegin(w)
    BY <2>3 DEF WorkerBegin
  <2>4. CASE WorkerStart(w) \/ WorkerProgress(w)
    BY <2>4 DEF WorkerStart, WorkerProgress
  <2>5. CASE WorkerDecide(w)
    <3>1. PICK v : worker' = [worker EXCEPT ![w].pc = "persist", ![w].verdict = v]
      BY <2>5 DEF WorkerDecide
    <3> QED
      BY <2>5, <3>1 DEF WorkerDecide
  <2>6. CASE WorkerPersist(w)
    BY <2>6 DEF WorkerPersist
  <2> QED
    BY <2>1, <2>2, <2>3, <2>4, <2>5, <2>6 DEF WorkerSteps
<1>2. client' = client /\ \A v \in Workers \ {w} : worker'[v] = worker[v]
  BY WorkerFrame
<1>3. w \notin Clients
  BY EngineAssumption DEF EngineAssumption
<1>4. \A o \in Threads : (Announces(o, t)' <=> Announces(o, t)) /\ (Counts(o, t)' <=> Counts(o, t))
  BY <1>1, <1>2, <1>3 DEF Announces, Counts
<1> QED
  BY <1>1, <1>4, StatesApart DEF Quiet, Active, Terminal, Absent

\* A step of c leaves the part of all other threads in the story alone.
LEMMA ClientOthers ==
  ASSUME Types, NEW c \in Clients, NEW t \in Tests, ClientBegins(c) \/ ClientContinues(c)
  PROVE  \A o \in Threads \ {c} :
           (Announces(o, t)' <=> Announces(o, t)) /\ (Counts(o, t)' <=> Counts(o, t))
<1>1. worker' = worker /\ \A d \in Clients \ {c} : client'[d] = client[d]
  BY ClientFrame
<1>2. c \notin Workers
  BY EngineAssumption DEF EngineAssumption
<1> QED
  BY <1>1, <1>2 DEF Announces, Counts, Threads

LEMMA WorkerOthers ==
  ASSUME Types, NEW w \in Workers, NEW t \in Tests, WorkerSteps(w) \/ WorkerProgress(w)
  PROVE  \A o \in Threads \ {w} :
           (Announces(o, t)' <=> Announces(o, t)) /\ (Counts(o, t)' <=> Counts(o, t))
<1>1. client' = client /\ \A v \in Workers \ {w} : worker'[v] = worker[v]
  BY WorkerFrame
<1>2. w \notin Clients
  BY EngineAssumption DEF EngineAssumption
<1> QED
  BY <1>1, <1>2 DEF Announces, Counts, Threads

LEMMA ClientHistory ==
  ASSUME Types, HInv, NEW c \in Clients, ClientBegins(c) \/ ClientContinues(c), NEW t \in Tests
  PROVE  HistoryOf(t)'
<1> DEFINE s == client[c].test
<1> USE DEF Types, ClientTypes, RecordTypes, NoteTypes
<1>1. /\ Steady(t) /\ HistoryOf(t) /\ c \in Threads /\ c \notin Workers
      /\ \A o \in Threads \ {c} : (Announces(o, t)' <=> Announces(o, t)) /\ (Counts(o, t)' <=> Counts(o, t))
  BY ClientSteady, ClientOthers, EngineAssumption DEF HInv, Threads, EngineAssumption
<1>2. CASE ~CancelPublish(c) /\ ~CancelStats(c) /\ ~CancelEvent(c)
  BY <1>1, <1>2, ClientQuiet, QuietStep
<1>3. CASE CancelPublish(c)
  <2>1. /\ s \in Tests /\ recState[s] \in Active /\ born[s] # 0
        /\ client'[c].test = s /\ client[c].pc = "cancelPublish" /\ client'[c].pc = "cancelStats"
    <3>1. s \in Tests /\ ClientOwns(c, s)
      BY <1>3 DEF CancelPublish, ClientOwns, ClientsConsistent
    <3>2. recState[s] \in Active
      BY <3>1, ClientAlone DEF HInv, Inv
    <3> QED
      BY <1>3, <3>1, <3>2, StatesApart DEF CancelPublish, Goto, HInv, Inv, BornFirst
  <2>2. /\ recState'[t] = (IF t = s THEN "CANCELLED" ELSE recState[t])
        /\ finals' = finals /\ counted' = counted
    BY <1>3, <2>1, StatesApart DEF CancelPublish, noteVars
  <2>3. ~Announces(c, t) /\ ~Counts(c, t) /\ (Announces(c, t)' <=> t = s) /\ (Counts(c, t)' <=> t = s)
    BY <1>1, <2>1 DEF Announces, Counts
  <2>4. CASE t = s
    <3>1. recState'[t] \in Terminal
      BY <2>2, <2>4 DEF Terminal
    <3>2. \A p \in Threads : (Announces(p, t)' <=> p = c \/ Announces(p, t)) /\ (Counts(p, t)' <=> p = c \/ Counts(p, t))
      BY <1>1, <2>3, <2>4
    <3> QED
      BY <1>1, <2>1, <2>2, <2>4, <3>1, <3>2, PublishStep
  <2>5. CASE t # s
    <3>1. Quiet(t)
      BY <1>1, <2>2, <2>3, <2>5, StatesApart DEF Quiet
    <3> QED
      BY <1>1, <3>1, QuietStep
  <2> QED
    BY <2>4, <2>5
<1>4. CASE CancelStats(c)
  <2>1. /\ s \in Tests /\ client'[c].test = s
        /\ client[c].pc = "cancelStats" /\ client'[c].pc = "cancelEvent"
    BY <1>4 DEF CancelStats, Goto, ClientsConsistent
  <2>2. /\ recState' = recState /\ born' = born /\ finals' = finals
        /\ counted'[t] = (IF t = s THEN counted[t] + 1 ELSE counted[t])
    BY <1>4, <2>1 DEF CancelStats, recVars
  <2>3. /\ Announces(c, t) <=> t = s
        /\ Announces(c, t)' <=> t = s
        /\ Counts(c, t) <=> t = s
        /\ ~Counts(c, t)'
    BY <1>1, <2>1 DEF Announces, Counts
  <2>4. CASE t = s
    BY <1>1, <2>2, <2>3, <2>4, CountStep
  <2>5. CASE t # s
    <3>1. Quiet(t)
      BY <1>1, <2>2, <2>3, <2>5, StatesApart DEF Quiet
    <3> QED
      BY <1>1, <3>1, QuietStep
  <2> QED
    BY <2>4, <2>5
<1>5. CASE CancelEvent(c)
  <2>1. s \in Tests /\ client[c].pc = "cancelEvent" /\ client'[c].pc = "idle"
    BY <1>5 DEF CancelEvent, Finish, IdleClient, ClientsConsistent
  <2>2. /\ recState' = recState /\ born' = born /\ counted' = counted /\ unsaved' = unsaved
        /\ finals'[t] = (IF t = s THEN finals[t] + 1 ELSE finals[t])
    BY <1>5, <2>1 DEF CancelEvent, recVars, storeVars
  <2>3. (Announces(c, t) <=> t = s) /\ ~Announces(c, t)' /\ ~Counts(c, t) /\ ~Counts(c, t)'
    BY <1>1, <2>1 DEF Announces, Counts
  <2>4. CASE t = s
    BY <1>1, <2>2, <2>3, <2>4, EventStep
  <2>5. CASE t # s
    <3>1. Quiet(t)
      BY <1>1, <2>2, <2>3, <2>5, StatesApart DEF Quiet
    <3> QED
      BY <1>1, <3>1, QuietStep
  <2> QED
    BY <2>4, <2>5
<1> QED
  BY <1>2, <1>3, <1>4, <1>5

LEMMA WorkerHistory ==
  ASSUME Types, HInv, NEW w \in Workers, WorkerSteps(w) \/ WorkerProgress(w), NEW t \in Tests
  PROVE  HistoryOf(t)'
<1> DEFINE s == worker[w].test
<1> USE DEF Types, WorkerTypes, RecordTypes, NoteTypes
<1>1. /\ Steady(t) /\ HistoryOf(t) /\ w \in Threads /\ w \notin Clients
      /\ \A o \in Threads \ {w} : (Announces(o, t)' <=> Announces(o, t)) /\ (Counts(o, t)' <=> Counts(o, t))
  BY WorkerSteady, WorkerOthers, EngineAssumption DEF HInv, Threads, EngineAssumption
<1>2. CASE ~WorkerPublish(w) /\ ~WorkerStats(w) /\ ~WorkerEvent(w)
  BY <1>1, <1>2, WorkerQuiet, QuietStep
<1>3. CASE WorkerPublish(w)
  <2>1. /\ s \in Tests /\ recState[s] \in Active /\ born[s] # 0 /\ worker[w].verdict \in Terminal
        /\ worker'[w].test = s /\ worker[w].pc = "publish" /\ worker'[w].pc = "stats"
    <3>1. s \in Tests /\ WorkerOwns(w, s) /\ worker[w].verdict \in Terminal
      BY <1>3 DEF WorkerPublish, WorkerOwns, WorkersConsistent
    <3>2. recState[s] \in Active
      BY <3>1, WorkerAlone DEF HInv, Inv
    <3> QED
      BY <1>3, <3>1, <3>2, StatesApart DEF WorkerPublish, WorkerGoto, HInv, Inv, BornFirst
  <2>2. /\ recState'[t] = (IF t = s THEN worker[w].verdict ELSE recState[t])
        /\ finals' = finals /\ counted' = counted
    BY <1>3, <2>1, StatesApart DEF WorkerPublish, noteVars
  <2>3. ~Announces(w, t) /\ ~Counts(w, t) /\ (Announces(w, t)' <=> t = s) /\ (Counts(w, t)' <=> t = s)
    BY <1>1, <2>1 DEF Announces, Counts
  <2>4. CASE t = s
    <3>1. \A p \in Threads : (Announces(p, t)' <=> p = w \/ Announces(p, t)) /\ (Counts(p, t)' <=> p = w \/ Counts(p, t))
      BY <1>1, <2>3, <2>4
    <3> QED
      BY <1>1, <2>1, <2>2, <2>4, <3>1, PublishStep
  <2>5. CASE t # s
    <3>1. Quiet(t)
      BY <1>1, <2>2, <2>3, <2>5, StatesApart DEF Quiet
    <3> QED
      BY <1>1, <3>1, QuietStep
  <2> QED
    BY <2>4, <2>5
<1>4. CASE WorkerStats(w)
  <2>1. /\ s \in Tests /\ worker'[w].test = s
        /\ worker[w].pc = "stats" /\ worker'[w].pc = "event"
    BY <1>4 DEF WorkerStats, WorkerGoto, WorkersConsistent
  <2>2. /\ recState' = recState /\ born' = born /\ finals' = finals
        /\ counted'[t] = (IF t = s THEN counted[t] + 1 ELSE counted[t])
    BY <1>4, <2>1 DEF WorkerStats, recVars
  <2>3. /\ Announces(w, t) <=> t = s
        /\ Announces(w, t)' <=> t = s
        /\ Counts(w, t) <=> t = s
        /\ ~Counts(w, t)'
    BY <1>1, <2>1 DEF Announces, Counts
  <2>4. CASE t = s
    BY <1>1, <2>2, <2>3, <2>4, CountStep
  <2>5. CASE t # s
    <3>1. Quiet(t)
      BY <1>1, <2>2, <2>3, <2>5, StatesApart DEF Quiet
    <3> QED
      BY <1>1, <3>1, QuietStep
  <2> QED
    BY <2>4, <2>5
<1>5. CASE WorkerEvent(w)
  <2>1. s \in Tests /\ worker[w].pc = "event" /\ worker'[w].pc = "top"
    BY <1>5 DEF WorkerEvent, WorkerLoop, IdleWorker, WorkersConsistent
  <2>2. /\ recState' = recState /\ born' = born /\ counted' = counted /\ unsaved' = unsaved
        /\ finals'[t] = (IF t = s THEN finals[t] + 1 ELSE finals[t])
    BY <1>5, <2>1 DEF WorkerEvent, recVars, storeVars
  <2>3. (Announces(w, t) <=> t = s) /\ ~Announces(w, t)' /\ ~Counts(w, t) /\ ~Counts(w, t)'
    BY <1>1, <2>1 DEF Announces, Counts
  <2>4. CASE t = s
    BY <1>1, <2>2, <2>3, <2>4, EventStep
  <2>5. CASE t # s
    <3>1. Quiet(t)
      BY <1>1, <2>2, <2>3, <2>5, StatesApart DEF Quiet
    <3> QED
      BY <1>1, <3>1, QuietStep
  <2> QED
    BY <2>4, <2>5
<1> QED
  BY <1>2, <1>3, <1>4, <1>5

\* Stopping tells nothing; a process that ends takes its threads and its counts
\* with it, and the next one counts the files it replays.
LEMMA ProcessHistory ==
  ASSUME Types, HInv, StopRequest \/ StopSteps \/ ProcessEnds \/ Start, NEW t \in Tests
  PROVE  HistoryOf(t)'
<1>0. HistoryOf(t)
  BY DEF HInv
<1>1. CASE StopRequest \/ StopSteps
  <2>1. Steady(t) /\ Quiet(t)
    BY <1>1, StatesApart DEF StopRequest, StopSteps, StopFlags, StopClose, StopJoin, recVars, storeVars,
         noteVars, Steady, Quiet, Announces, Counts
  <2> QED
    BY <1>0, <2>1, QuietStep
<1>2. CASE ProcessEnds
  <2>1. /\ \A o \in Threads : ~Announces(o, t)' /\ ~Counts(o, t)'
        /\ finals' = finals /\ born' = born /\ counted'[t] = 0 /\ recState'[t] = Absent
    BY <1>2 DEF ProcessEnds, EraseRecords, IdleClient, IdleWorker, Announces, Counts, Threads
  <2>2. OneAnnouncer(t)'
    BY <2>1, Zenon DEF OneAnnouncer
  <2>3. NothingTold(t)' /\ ToldOnce(t)'
    BY <1>0, <2>1, StatesApart DEF HistoryOf, NothingTold, ToldOnce
  <2> QED
    BY <2>2, <2>3 DEF HistoryOf
<1>3. CASE Start
  <2>1. mode = "down" /\ recState[t] = Absent /\ \A c \in Clients : client[c].pc = "idle"
    BY <1>3 DEF Start, HInv, Inv, DownIsEmpty
  <2>2. \A o \in Threads : ~Announces(o, t)' /\ ~Counts(o, t)'
    BY <1>3, <2>1 DEF Start, IdleWorker, Announces, Counts, Threads
  <2>3. /\ finals' = finals /\ born' = born
        /\ counted'[t] = (IF disk[t] # Absent THEN 1 ELSE 0)
        /\ recState'[t] \in {disk[t], Absent}
    BY <1>3 DEF Start
  <2>4. disk[t] \in Terminal \cup {Absent} /\ (disk[t] # Absent => born[t] # 0)
    BY DEF Types, StoreTypes, HInv, Inv, BornFirst
  <2>5. OneAnnouncer(t)'
    BY <2>2, Zenon DEF OneAnnouncer
  <2>6. NothingTold(t)' /\ ToldOnce(t)'
    BY <1>0, <2>2, <2>3, <2>4, StatesApart DEF HistoryOf, NothingTold, ToldOnce
  <2> QED
    BY <2>5, <2>6 DEF HistoryOf
<1> QED
  BY <1>1, <1>2, <1>3

-----------------------------------------------------------------------------
(* The theorems.                                                           *)

LEMMA HistoryInvariant == Spec => []HInv
<1>1. Init /\ Inv => HInv
  <2> SUFFICES ASSUME Init, Inv, NEW t \in Tests PROVE HistoryOf(t)
    BY DEF HInv
  <2>1. /\ \A o \in Threads : ~Announces(o, t) /\ ~Counts(o, t)
        /\ recState[t] = Absent /\ finals[t] = 0 /\ counted[t] = 0
    BY DEF Init, IdleClient, IdleWorker, Announces, Counts, Threads
  <2> QED
    BY <2>1, StatesApart DEF HistoryOf, OneAnnouncer, NothingTold, ToldOnce
<1>2. HInv /\ Inv' /\ [Next]_vars => HInv'
  <2> SUFFICES ASSUME HInv, [Next]_vars, NEW t \in Tests PROVE HistoryOf(t)'
    BY DEF HInv
  <2>1. Types
    BY TypesOfEngine DEF HInv, Inv
  <2>2. CASE Next
    BY <2>1, <2>2, ClientHistory, WorkerHistory, ProcessHistory, Zenon DEF Next
  <2>3. CASE UNCHANGED vars
    <3>1. Steady(t) /\ Quiet(t)
      BY <2>3, StatesApart DEF vars, Steady, Quiet, Announces, Counts
    <3> QED
      BY <3>1, QuietStep DEF HInv
  <2> QED
    BY <2>2, <2>3
<1> QED
  BY <1>1, <1>2, EngineInvariant, PTL DEF Spec

\* A thread that has published a verdict and is still to count or announce it finds
\* it in the record, unless that was removed.
SaidAsRecorded ==
  /\ \A w \in Workers : worker[w].pc \in {"stats", "event"} =>
       /\ worker[w].verdict \in Terminal /\ born[worker[w].test] # 0
       /\ recState[worker[w].test] \in {worker[w].verdict, Absent}
  /\ \A c \in Clients : client[c].pc \in {"cancelStats", "cancelEvent"} =>
       /\ born[client[c].test] # 0
       /\ recState[client[c].test] \in {"CANCELLED", Absent}

LEMMA VerdictStays ==
  ASSUME Types, Inv, Next, mode' = mode, NEW t \in Tests, NEW v \in Terminal,
         born[t] # 0, recState[t] \in {v, Absent}
  PROVE  born'[t] # 0 /\ recState'[t] \in {v, Absent}
<1>1. RecordStep(t) /\ (born'[t] = born[t] \/ RecordSubmitted(t))
  BY StepOfOneTest
<1>2. recState[t] \notin Active
  BY StatesApart
<1> QED
  BY <1>1, <1>2 DEF RecordStep, RecordErased, RecordRuns, RecordEnds, RecordSubmitted, RecordLoaded

LEMMA SaidAsRecordedPreserved ==
  ASSUME Types, Inv, SaidAsRecorded, Next
  PROVE  SaidAsRecorded'
<1> DEFINE SaidBy(w) == worker[w].pc \in {"stats", "event"} =>
             /\ worker[w].verdict \in Terminal /\ born[worker[w].test] # 0
             /\ recState[worker[w].test] \in {worker[w].verdict, Absent}
           SaidTo(c) == client[c].pc \in {"cancelStats", "cancelEvent"} =>
             /\ born[client[c].test] # 0
             /\ recState[client[c].test] \in {"CANCELLED", Absent}
<1>1. ASSUME mode' = mode, NEW w \in Workers, worker'[w] = worker[w] PROVE SaidBy(w)'
  <2> SUFFICES ASSUME worker[w].pc \in {"stats", "event"} PROVE SaidBy(w)'
    BY <1>1
  <2>1. worker[w].test \in Tests
    BY DEF Types, WorkerTypes, WorkersConsistent
  <2>2. /\ worker[w].verdict \in Terminal /\ born[worker[w].test] # 0
        /\ recState[worker[w].test] \in {worker[w].verdict, Absent}
    BY DEF SaidAsRecorded
  <2> QED
    BY <1>1, <2>1, <2>2, VerdictStays
<1>2. ASSUME mode' = mode, NEW c \in Clients, client'[c] = client[c] PROVE SaidTo(c)'
  <2> SUFFICES ASSUME client[c].pc \in {"cancelStats", "cancelEvent"} PROVE SaidTo(c)'
    BY <1>2
  <2>1. client[c].test \in Tests
    BY DEF Types, ClientTypes, ClientsConsistent
  <2>2. born[client[c].test] # 0 /\ recState[client[c].test] \in {"CANCELLED", Absent}
    BY DEF SaidAsRecorded
  <2>3. "CANCELLED" \in Terminal
    BY DEF Terminal
  <2> QED
    BY <1>2, <2>1, <2>2, <2>3, VerdictStays
<1>3. ASSUME NEW w \in Workers, WorkerSteps(w) \/ WorkerProgress(w) PROVE SaidAsRecorded'
  <2>1. mode' = mode /\ client' = client /\ \A v \in Workers \ {w} : worker'[v] = worker[v]
    BY <1>3, WorkerFrame
  <2> USE DEF Types, WorkerTypes, RecordTypes
  <2>2. CASE WorkerPublish(w)
    <3>1. /\ worker[w].test \in Tests /\ worker[w].verdict \in Terminal
          /\ WorkerOwns(w, worker[w].test)
      BY <2>2 DEF WorkerPublish, WorkersConsistent, WorkerOwns
    <3>2. recState[worker[w].test] # Absent /\ born[worker[w].test] # 0
      BY <3>1, WorkerAlone, StatesApart DEF Inv, BornFirst
    <3>3. SaidBy(w)'
      BY <2>2, <3>1, <3>2 DEF WorkerPublish, WorkerGoto
    <3> QED
      BY <1>1, <1>2, <2>1, <3>3 DEF SaidAsRecorded
  <2>3. CASE WorkerStats(w)
    <3>1. SaidBy(w)'
      BY <2>3 DEF WorkerStats, WorkerGoto, recVars, SaidAsRecorded
    <3> QED
      BY <1>1, <1>2, <2>1, <3>1 DEF SaidAsRecorded
  <2>4. CASE ~WorkerPublish(w) /\ ~WorkerStats(w)
    <3>1. worker'[w].pc \notin {"stats", "event"} \/ worker'[w] = worker[w]
      <4>1. CASE WorkerDecide(w)
        <5>1. PICK v : worker' = [worker EXCEPT ![w].pc = "persist", ![w].verdict = v]
          BY <4>1 DEF WorkerDecide
        <5> QED
          BY <5>1
      <4> QED
        BY <1>3, <2>4, <4>1 DEF WorkerSteps, WorkerTop, WorkerWaitEnds, WorkerLoaded, WorkerDequeue,
           WorkerAbandon, WorkerBegin, WorkerException, WorkerStart, WorkerProgress,
           WorkerPersist, WorkerEvent, WorkerGoto, WorkerLoop, IdleWorker
    <3> QED
      BY <1>1, <1>2, <2>1, <3>1 DEF SaidAsRecorded
  <2> QED
    BY <2>2, <2>3, <2>4
<1>4. ASSUME NEW c \in Clients, ClientBegins(c) \/ ClientContinues(c) PROVE SaidAsRecorded'
  <2>1. mode' = mode /\ worker' = worker /\ \A d \in Clients \ {c} : client'[d] = client[d]
    BY <1>4, ClientFrame
  <2> USE DEF Types, ClientTypes, RecordTypes
  <2>2. CASE CancelPublish(c)
    <3>1. client[c].test \in Tests /\ ClientOwns(c, client[c].test)
      BY <2>2 DEF CancelPublish, ClientsConsistent, ClientOwns
    <3>2. recState[client[c].test] # Absent /\ born[client[c].test] # 0
      BY <3>1, ClientAlone, StatesApart DEF Inv, BornFirst
    <3>3. SaidTo(c)'
      BY <2>2, <3>1, <3>2 DEF CancelPublish, Goto
    <3> QED
      BY <1>1, <1>2, <2>1, <3>3 DEF SaidAsRecorded
  <2>3. CASE CancelStats(c)
    <3>1. SaidTo(c)'
      BY <2>3 DEF CancelStats, Goto, recVars, SaidAsRecorded
    <3> QED
      BY <1>1, <1>2, <2>1, <3>1 DEF SaidAsRecorded
  <2>4. CASE ~CancelPublish(c) /\ ~CancelStats(c)
    <3>1. client'[c].pc \notin {"cancelStats", "cancelEvent"}
      <4>1. CASE \E t \in Tests : SubmitInsert(c, t) \/ CancelDequeue(c, t) \/ Remove(c, t) \/ RemoveFile(c, t)
        BY <4>1 DEF SubmitInsert, CancelDequeue, Remove, RemoveFile
      <4>2. CASE ClearHistory(c) \/ SubmitTrim(c) \/ SubmitEnqueue(c) \/ RemoveDone(c)
        BY <4>2 DEF ClearHistory, SubmitTrim, SubmitEnqueue, RemoveDone, Finish, IdleClient
      <4>3. CASE CancelPersist(c) \/ CancelEvent(c) \/ CancelFlag(c)
        BY <4>3 DEF CancelPersist, CancelEvent, CancelFlag, Goto, Finish, IdleClient
      <4>4. CASE CancelLookup(c)
        BY <4>4 DEF CancelLookup, Goto, Finish, IdleClient
      <4> QED
        BY <1>4, <2>4, <4>1, <4>2, <4>3, <4>4 DEF ClientBegins, ClientContinues
    <3> QED
      BY <1>1, <1>2, <2>1, <3>1 DEF SaidAsRecorded
  <2> QED
    BY <2>2, <2>3, <2>4
<1>5. CASE StopRequest \/ StopSteps
  BY <1>5 DEF StopRequest, StopSteps, StopFlags, StopClose, StopJoin, recVars, SaidAsRecorded
<1>6. CASE ProcessEnds
  BY <1>6 DEF ProcessEnds, IdleWorker, IdleClient, SaidAsRecorded
<1>7. CASE Start
  BY <1>7 DEF Start, IdleWorker, SaidAsRecorded, Inv, DownIsEmpty
<1> QED
  BY <1>3, <1>4, <1>5, <1>6, <1>7 DEF Next

\* A test gets at most one final event in all lives of the process, and not
\* before its record is terminal: cancellers, workers, removals, crashes and
\* restarts announce no test twice, and CallbackNotifier finds the verdict.  The
\* event carries the state in the record, unless the record is removed.
THEOREM EngineFinalEventOnce == Spec => []FinalEventOnce
<1>1. Init => SaidAsRecorded
  BY DEF Init, IdleWorker, IdleClient, SaidAsRecorded
<1>2. Inv /\ SaidAsRecorded /\ [Next]_vars => SaidAsRecorded'
  <2> SUFFICES ASSUME Inv, SaidAsRecorded, [Next]_vars PROVE SaidAsRecorded'
    OBVIOUS
  <2>1. CASE Next
    BY <2>1, SaidAsRecordedPreserved, TypesOfEngine DEF Inv
  <2>2. CASE UNCHANGED vars
    BY <2>2 DEF vars, SaidAsRecorded
  <2> QED
    BY <2>1, <2>2
<1>3. HInv /\ SaidAsRecorded => FinalEventOnce
  <2> SUFFICES ASSUME HInv, SaidAsRecorded PROVE FinalEventOnce
    OBVIOUS
  <2>1. ASSUME NEW t \in Tests PROVE finals[t] <= 1 /\ (finals[t] = 1 => recState[t] \notin Active)
    <3>1. NothingTold(t) /\ ToldOnce(t)
      BY Zenon DEF HInv, HistoryOf
    <3> QED
      BY <3>1 DEF NothingTold, ToldOnce
  <2> QED
    BY <2>1 DEF SaidAsRecorded, FinalEventOnce
<1> QED
  BY <1>1, <1>2, <1>3, EngineInvariant, HistoryInvariant, PTL DEF Spec

\* Every finished test is counted exactly once in a life of the process, by the
\* thread that published its verdict or by loadHistory, unless it ended in
\* shutdown or in an exception.
THEOREM EngineCountedOnce == Spec => []CountedOnce
<1>1. HInv => CountedOnce
  <2> SUFFICES ASSUME NEW t \in Tests, ToldOnce(t)
               PROVE  /\ counted[t] <= 1
                      /\ t \in Finished /\ counted[t] = 0 =>
                           \/ t \in unsaved
                           \/ \E c \in Clients : client[c].test = t /\ client[c].pc = "cancelStats"
                           \/ \E w \in Workers : worker[w].test = t /\ worker[w].pc = "stats"
    BY Zenon DEF HInv, HistoryOf, CountedOnce
  <2>1. counted[t] <= 1
    BY DEF ToldOnce
  <2> QED
    BY <2>1 DEF ToldOnce, Finished, Counts, Threads
<1> QED
  BY <1>1, HistoryInvariant, PTL

-----------------------------------------------------------------------------
(* Files: none is left behind.                                             *)

\* Ids wait in a thread's list only while it deletes their files.
FilesListed ==
  \A c \in Clients : client[c].pc \notin {"trimFiles", "removeFiles"} => client[c].files = {}

\* Somebody answers for the file of t: its record, a thread that is about to
\* delete it, or the thread that is about to publish the record.
Answered(t) ==
  \/ t \in Finished
  \/ \E c \in Clients : t \in client[c].files
  \/ \E c \in Clients : client[c].test = t /\ client[c].pc = "cancelPublish"
  \/ \E w \in Workers : worker[w].test = t /\ worker[w].pc = "publish"

FInv == Inv /\ FilesListed /\ NoOrphanFile

LEMMA FilesListedPreserved ==
  ASSUME Types, FInv, Next
  PROVE  FilesListed'
<1> SUFFICES ASSUME NEW c \in Clients, client'[c].pc \notin {"trimFiles", "removeFiles"}
             PROVE  client'[c].files = {}
  BY DEF FilesListed
<1> USE DEF Types, ClientTypes
<1>1. ASSUME client'[c] = client[c] PROVE client'[c].files = {}
  BY <1>1 DEF FInv, FilesListed
<1>2. ASSUME NEW d \in Clients, ClientBegins(d) \/ ClientContinues(d) PROVE client'[c].files = {}
  <2>1. CASE d # c
    BY <1>1, <1>2, <2>1, ClientFrame
  <2>2. CASE \E s \in Tests : SubmitInsert(c, s) \/ CancelDequeue(c, s) \/ Remove(c, s) \/ RemoveFile(c, s)
    BY <2>2 DEF SubmitInsert, CancelDequeue, Remove, RemoveFile, FInv, FilesListed
  <2>3. CASE ClearHistory(c) \/ SubmitTrim(c) \/ SubmitEnqueue(c) \/ RemoveDone(c)
    BY <2>3 DEF ClearHistory, SubmitTrim, SubmitEnqueue, RemoveDone, Finish, IdleClient
  <2>4. CASE \/ CancelLookup(c) \/ CancelPersist(c) \/ CancelPublish(c) \/ CancelStats(c)
             \/ CancelEvent(c) \/ CancelFlag(c)
    BY <2>4 DEF CancelLookup, CancelPersist, CancelPublish, CancelStats, CancelEvent, CancelFlag, Goto,
         Finish, IdleClient, FInv, FilesListed
  <2> QED
    BY <1>2, <2>1, <2>2, <2>3, <2>4 DEF ClientBegins, ClientContinues
<1>3. ASSUME NEW w \in Workers, WorkerSteps(w) \/ WorkerProgress(w) PROVE client' = client
  BY <1>3, WorkerFrame
<1>4. ASSUME StopRequest \/ StopSteps \/ ProcessEnds \/ Start PROVE client'[c] = client[c] \/ client'[c].files = {}
  BY <1>4 DEF StopRequest, StopSteps, StopFlags, StopClose, StopJoin, ProcessEnds, Start, IdleClient
<1> QED
  BY <1>1, <1>2, <1>3, <1>4 DEF Next

\* Whoever erases a finished record takes its file upon itself, and keeps it until
\* it is deleted; whoever publishes ends with a finished record.
LEMMA ClientAnswers ==
  ASSUME Types, FInv, NEW c \in Clients, ClientBegins(c) \/ ClientContinues(c),
         NEW t \in Tests, Answered(t), disk'[t] # Absent
  PROVE  Answered(t)'
<1> USE DEF Types, ClientTypes, RecordTypes
<1>1. worker' = worker /\ \A d \in Clients \ {c} : client'[d] = client[d]
  BY ClientFrame
<1>2. CASE t \in client[c].files
  <2>1. client[c].pc \in {"trimFiles", "removeFiles"}
    BY <1>2 DEF FInv, FilesListed
  <2>2. PICK s \in Tests : RemoveFile(c, s)
    BY <1>2, <2>1 DEF ClientBegins, ClientContinues, SubmitInsert, CancelDequeue, Remove, ClearHistory,
         SubmitTrim, SubmitEnqueue, RemoveDone, CancelLookup, CancelPersist, CancelPublish,
         CancelStats, CancelEvent, CancelFlag
  <2>3. s # t
    BY <2>2 DEF RemoveFile, StoreTypes
  <2>4. t \in client'[c].files
    BY <1>2, <2>2, <2>3 DEF RemoveFile
  <2> QED
    BY <2>4 DEF Answered
<1>3. CASE client[c].test = t /\ client[c].pc = "cancelPublish"
  <2>1. CancelPublish(c)
    BY <1>3 DEF ClientBegins, ClientContinues, SubmitInsert, CancelDequeue, Remove, ClearHistory,
         SubmitTrim, SubmitEnqueue, RemoveFile, RemoveDone, CancelLookup, CancelPersist,
         CancelStats, CancelEvent, CancelFlag
  <2>2. ClientOwns(c, t)
    BY <1>3 DEF ClientOwns, ClientsConsistent
  <2>3. recState[t] \in Active
    BY <2>2, ClientAlone DEF FInv, Inv
  <2>4. recState'[t] = "CANCELLED"
    BY <1>3, <2>1, <2>3, StatesApart DEF CancelPublish
  <2> QED
    BY <2>4 DEF Answered, Finished, Terminal
<1>4. CASE t \in Finished
  <2>1. born[t] # 0
    BY <1>4 DEF Finished, Terminal, Absent, FInv, Inv, BornFirst
  <2>2. CASE recState'[t] = recState[t]
    BY <1>4, <2>2 DEF Answered, Finished
  <2>3. CASE recState'[t] # recState[t]
    <3>1. /\ ~SubmitEnqueue(c) /\ ~RemoveDone(c) /\ ~CancelLookup(c) /\ ~CancelPersist(c)
          /\ ~CancelStats(c) /\ ~CancelEvent(c) /\ ~CancelFlag(c)
          /\ \A s \in Tests : ~RemoveFile(c, s) /\ ~CancelDequeue(c, s)
      BY <2>3 DEF SubmitEnqueue, RemoveFile, RemoveDone, CancelDequeue, CancelLookup, CancelPersist,
           CancelStats, CancelEvent, CancelFlag, recVars
    <3>2. \A s \in Tests : ~SubmitInsert(c, s)
      BY <2>1, <2>3 DEF SubmitInsert
    <3>3. CASE CancelPublish(c)
      <4>1. client[c].test = t
        BY <2>3, <3>3 DEF CancelPublish
      <4> QED
        BY <1>3, <3>3, <4>1 DEF CancelPublish
    <3>4. CASE (\E s \in Tests : Remove(c, s)) \/ ClearHistory(c) \/ SubmitTrim(c)
      <4>1. t \in client'[c].files
        BY <2>3, <3>4 DEF Remove, ClearHistory, SubmitTrim, EraseRecords
      <4> QED
        BY <4>1 DEF Answered
    <3> QED
      BY <3>1, <3>2, <3>3, <3>4 DEF ClientBegins, ClientContinues
  <2> QED
    BY <2>2, <2>3
<1> QED
  BY <1>1, <1>2, <1>3, <1>4 DEF Answered

LEMMA WorkerAnswers ==
  ASSUME Types, FInv, NEW w \in Workers, WorkerSteps(w) \/ WorkerProgress(w),
         NEW t \in Tests, Answered(t)
  PROVE  Answered(t)'
<1> USE DEF Types, WorkerTypes, RecordTypes
<1>1. client' = client /\ \A v \in Workers \ {w} : worker'[v] = worker[v]
  BY WorkerFrame
<1>2. CASE worker[w].test = t /\ worker[w].pc = "publish"
  <2>1. WorkerPublish(w)
    BY <1>2 DEF WorkerSteps, WorkerTop, WorkerWaitEnds, WorkerLoaded, WorkerDequeue, WorkerAbandon,
       WorkerBegin,
         WorkerException, WorkerStart, WorkerProgress, WorkerDecide, WorkerPersist, WorkerStats,
         WorkerEvent
  <2>2. WorkerOwns(w, t) /\ worker[w].verdict \in Terminal
    BY <1>2 DEF WorkerOwns, WorkersConsistent
  <2>3. recState[t] \in Active
    BY <2>2, WorkerAlone DEF FInv, Inv
  <2>4. recState'[t] \in Terminal
    BY <1>2, <2>1, <2>2, <2>3, StatesApart DEF WorkerPublish
  <2> QED
    BY <2>4 DEF Answered, Finished
<1>3. CASE t \in Finished
  <2>1. recState[t] \in Terminal /\ ~WorkerOwns(w, t)
    BY <1>3, StatesApart, NobodyHolds DEF Finished, FInv, Inv
  <2>2. CASE \/ WorkerAbandon(w) \/ WorkerException(w) \/ WorkerStart(w) \/ WorkerProgress(w)
             \/ WorkerPublish(w)
    <3>1. worker[w].pc \in {"got", "load", "reserve", "run", "publish"}
      BY <2>2 DEF WorkerAbandon, WorkerException, WorkerStart, WorkerProgress, WorkerPublish
    <3>2. worker[w].test # t
      BY <2>1, <3>1 DEF WorkerOwns
    <3>3. recState'[t] = recState[t]
      BY <2>2, <3>2 DEF WorkerAbandon, WorkerException, WorkerStart, WorkerProgress, WorkerPublish
    <3> QED
      BY <1>3, <3>3 DEF Answered, Finished
  <2>3. CASE \/ WorkerTop(w) \/ WorkerWaitEnds(w) \/ WorkerLoaded(w) \/ WorkerBegin(w) \/ WorkerDecide(w)
             \/ WorkerPersist(w) \/ WorkerStats(w) \/ WorkerEvent(w)
             \/ \E s \in Tests : WorkerDequeue(w, s)
    <3>1. recState' = recState
      BY <2>3 DEF WorkerTop, WorkerWaitEnds, WorkerLoaded, WorkerBegin, WorkerDecide,
         WorkerPersist, WorkerStats,
           WorkerEvent, WorkerDequeue, recVars
    <3> QED
      BY <1>3, <3>1 DEF Answered, Finished
  <2> QED
    BY <2>2, <2>3 DEF WorkerSteps
<1> QED
  BY <1>1, <1>2, <1>3 DEF Answered

LEMMA NoOrphanFilePreserved ==
  ASSUME Types, FInv, Next
  PROVE  NoOrphanFile'
<1> SUFFICES ASSUME NEW t \in Tests, mode' # "down", disk'[t] # Absent
             PROVE  Answered(t)'
  BY DEF NoOrphanFile, Alive, Answered
<1>1. FileStep(t)
  BY StepOfOneTest DEF FInv
<1>2. ~FileDeleted(t)
  BY DEF FileDeleted
<1>3. CASE FileWritten(t)
  <2>1. ASSUME NEW c \in Clients, client[c].test = t, CancelPersist(c) PROVE Answered(t)'
    BY <2>1 DEF CancelPersist, Goto, Answered, Types, ClientTypes
  <2>2. ASSUME NEW w \in Workers, worker[w].test = t, WorkerPersist(w) PROVE Answered(t)'
    BY <2>2 DEF WorkerPersist, WorkerGoto, Answered, Types, WorkerTypes
  <2> QED
    BY <1>3, <2>1, <2>2 DEF FileWritten
<1>4. CASE disk'[t] = disk[t] /\ mode # "down"
  <2>1. Answered(t)
    BY <1>4 DEF FInv, NoOrphanFile, Alive, Answered
  <2>2. ASSUME StopRequest \/ StopSteps PROVE Answered(t)'
    BY <2>1, <2>2 DEF StopRequest, StopSteps, StopFlags, StopClose, StopJoin, Answered, Finished,
       recVars
  <2>3. ~ProcessEnds /\ ~Start
    BY <1>4 DEF ProcessEnds, Start
  <2> QED
    BY <2>1, <2>2, <2>3, ClientAnswers, WorkerAnswers DEF Next
<1>5. CASE mode = "down" /\ Start
  BY <1>5 DEF Start, Answered, Finished, Types, StoreTypes
<1>6. CASE mode = "down" /\ ~Start
  <2>1. ~StopRequest /\ ~StopSteps /\ ~ProcessEnds
    BY <1>6 DEF StopRequest, StopSteps, StopFlags, StopClose, StopJoin, ProcessEnds
  <2> QED
    BY <1>6, <2>1, ClientFrame, WorkerFrame DEF Next
<1> QED
  BY <1>1, <1>2, <1>3, <1>4, <1>5, <1>6 DEF FileStep

LEMMA FilesInvariant == Spec => []FInv
<1>1. Init /\ Inv => FInv
  BY DEF Init, IdleClient, FInv, FilesListed, NoOrphanFile
<1>2. FInv /\ Inv' /\ [Next]_vars => FInv'
  <2> SUFFICES ASSUME FInv, [Next]_vars PROVE FilesListed' /\ NoOrphanFile'
    BY DEF FInv
  <2>1. Types
    BY TypesOfEngine DEF FInv, Inv
  <2>2. CASE Next
    BY <2>1, <2>2, FilesListedPreserved, NoOrphanFilePreserved
  <2>3. CASE UNCHANGED vars
    BY <2>3 DEF vars, FInv, FilesListed, NoOrphanFile, Alive, Finished
  <2> QED
    BY <2>2, <2>3
<1> QED
  BY <1>1, <1>2, EngineInvariant, PTL DEF Spec

\* A result file belongs to a finished record or is about to be published or
\* deleted: remove, clearHistory, trimHistory and the trimming at a start leave no
\* file that a later start would bring back, between two crashes.
THEOREM EngineNoOrphanFile == Spec => []NoOrphanFile
BY FilesInvariant, PTL DEF FInv

-----------------------------------------------------------------------------
(* Cancellations that were accepted in time.                               *)

\* w has taken the verdict on t and not published it.
Deciding(w, t) == worker[w].test = t /\ worker[w].pc \in {"persist", "publish"}

\* The flag of an unfinished test is in the map: whoever takes the test up finds it.
FlagKept == \A t \in Tests : recState[t] \in Active => t \in cancelFlags

\* The flag stands until the verdict follows it, and the verdict until it is published.
Honoured(t) ==
  t \in acked =>
    /\ born[t] # 0
    /\ recState[t] \in Active =>
         flag[t] /\ \A w \in Workers : Deciding(w, t) => worker[w].verdict = "CANCELLED"
    /\ recState[t] \in Terminal =>
         recState[t] = "CANCELLED" \/ (recState[t] = "TEST_ERROR" /\ t \in unsaved)

CInv ==
  /\ Inv
  /\ mode = "down" => acked = {}
  /\ FlagKept
  /\ \A t \in Tests : Honoured(t)

LEMMA ClientKeepsFlag ==
  ASSUME Types, CInv, NEW c \in Clients, ClientBegins(c) \/ ClientContinues(c),
         NEW t \in Tests, recState'[t] \in Active
  PROVE  t \in cancelFlags'
<1> USE DEF Types, ClientTypes, RecordTypes
<1>1. CASE \E s \in Tests : SubmitInsert(c, s)
  BY <1>1 DEF SubmitInsert, CInv, FlagKept
<1>2. CASE (\E s \in Tests : Remove(c, s)) \/ ClearHistory(c) \/ SubmitTrim(c)
  <2>1. PICK S : EraseRecords(S)
    BY <1>2 DEF Remove, ClearHistory, SubmitTrim
  <2>2. recState[t] \in Active /\ t \notin S
    BY <2>1 DEF EraseRecords, Active, Absent
  <2> QED
    BY <2>1, <2>2 DEF EraseRecords, CInv, FlagKept
<1>3. CASE CancelPublish(c)
  <2>1. recState[t] \in Active /\ client[c].test # t
    BY <1>3 DEF CancelPublish, Active, Absent
  <2> QED
    BY <1>3, <2>1 DEF CancelPublish, CInv, FlagKept
<1>4. CASE \/ SubmitEnqueue(c) \/ RemoveDone(c) \/ CancelLookup(c) \/ CancelPersist(c)
           \/ CancelStats(c) \/ CancelEvent(c) \/ CancelFlag(c)
           \/ \E s \in Tests : RemoveFile(c, s) \/ CancelDequeue(c, s)
  BY <1>4 DEF SubmitEnqueue, RemoveDone, CancelLookup, CancelPersist, CancelStats, CancelEvent,
     CancelFlag, RemoveFile, CancelDequeue, recVars, flagVars, CInv, FlagKept
<1> QED
  BY <1>1, <1>2, <1>3, <1>4 DEF ClientBegins, ClientContinues

LEMMA WorkerKeepsFlag ==
  ASSUME Types, CInv, NEW w \in Workers, WorkerSteps(w) \/ WorkerProgress(w),
         NEW t \in Tests, recState'[t] \in Active
  PROVE  t \in cancelFlags'
<1> USE DEF Types, WorkerTypes, RecordTypes
<1>1. recState[t] \in Active
  BY WorkerRecordStep, StatesApart DEF CInv, Inv, RecordStep, RecordErased, RecordRuns, RecordEnds,
     RecordSubmitted, RecordLoaded
<1>2. t \in cancelFlags
  BY <1>1 DEF CInv, FlagKept
<1>3. CASE WorkerPublish(w)
  <2>1. worker[w].verdict \in Terminal
    BY <1>3 DEF WorkerPublish, WorkersConsistent
  <2>2. worker[w].test # t
    BY <1>1, <1>3, <2>1, StatesApart DEF WorkerPublish
  <2> QED
    BY <1>2, <1>3, <2>2 DEF WorkerPublish
<1>4. CASE ~WorkerPublish(w)
  BY <1>2, <1>4 DEF WorkerSteps, WorkerTop, WorkerWaitEnds, WorkerLoaded, WorkerDequeue,
     WorkerAbandon, WorkerBegin, WorkerException, WorkerStart, WorkerProgress, WorkerDecide,
     WorkerPersist, WorkerStats, WorkerEvent, flagVars
<1> QED
  BY <1>3, <1>4

LEMMA ClientHonours ==
  ASSUME Types, CInv, NEW c \in Clients, ClientBegins(c) \/ ClientContinues(c), NEW t \in Tests
  PROVE  Honoured(t)'
<1> USE DEF Types, ClientTypes, RecordTypes
<1>1. worker' = worker /\ Steady(t)
  BY ClientFrame, ClientSteady DEF CInv
<1>2. CASE CancelFlag(c)
  <2>1. /\ client[c].test \in Tests /\ recState' = recState /\ born' = born /\ unsaved' = unsaved
        /\ flag'[t] = (flag[t] \/ t = client[c].test)
    BY <1>2 DEF CancelFlag, ClientsConsistent, recVars, storeVars
  <2>2. CASE t \in acked
    BY <1>1, <2>1, <2>2 DEF CInv, Honoured, Deciding
  <2>3. CASE t \notin acked
    <3>1. t \in acked' => t = client[c].test /\ Undecided(t)
      BY <1>2, <2>3 DEF CancelFlag
    <3>2. Undecided(t) => /\ recState[t] \in Active /\ born[t] # 0
                         /\ \A w \in Workers : ~Deciding(w, t)
      BY StatesApart DEF Undecided, Deciding, CInv, Inv, BornFirst
    <3> QED
      BY <1>1, <2>1, <3>1, <3>2, StatesApart DEF Honoured, Deciding
  <2> QED
    BY <2>2, <2>3
<1>3. CASE ~CancelFlag(c)
  <2> SUFFICES ASSUME t \in acked' PROVE Honoured(t)'
    BY DEF Honoured
  <2>1. /\ t \in acked
        /\ flag'[t] = flag[t] \/ born[t] = 0
        /\ unsaved \subseteq unsaved'
        /\ recState'[t] \in {recState[t], Absent, "QUEUED"} \/ CancelPublish(c)
    <3>1. CASE \E s \in Tests : SubmitInsert(c, s) \/ CancelDequeue(c, s) \/ Remove(c, s) \/ RemoveFile(c, s)
      BY <3>1 DEF SubmitInsert, CancelDequeue, Remove, RemoveFile, EraseRecords, noteVars, flagVars,
           recVars, storeVars
    <3>2. CASE ClearHistory(c) \/ SubmitTrim(c) \/ SubmitEnqueue(c) \/ RemoveDone(c)
      BY <3>2 DEF ClearHistory, SubmitTrim, SubmitEnqueue, RemoveDone, EraseRecords, noteVars, flagVars,
           recVars, storeVars
    <3>3. CASE CancelLookup(c) \/ CancelPersist(c) \/ CancelPublish(c) \/ CancelStats(c) \/ CancelEvent(c)
      BY <3>3 DEF CancelLookup, CancelPersist, CancelPublish, CancelStats, CancelEvent, Persist,
           noteVars, flagVars, recVars, storeVars
    <3> QED
      BY <1>3, <3>1, <3>2, <3>3 DEF ClientBegins, ClientContinues
  <2>2. born[t] # 0 /\ born'[t] # 0 /\ flag'[t] = flag[t]
    BY <1>1, <2>1 DEF CInv, Honoured, Steady
  <2>3. recState'[t] \in Active => recState[t] \in Active
    BY <1>1, <2>2 DEF Steady
  <2>4. recState'[t] \in Terminal => recState'[t] = recState[t] \/ recState'[t] = "CANCELLED"
    BY <2>1 DEF CancelPublish, Terminal, Absent
  <2> QED
    BY <1>1, <2>1, <2>2, <2>3, <2>4 DEF CInv, Honoured, Deciding
<1> QED
  BY <1>2, <1>3

LEMMA WorkerHonours ==
  ASSUME Types, CInv, NEW w \in Workers, WorkerSteps(w) \/ WorkerProgress(w), NEW t \in Tests
  PROVE  Honoured(t)'
<1> USE DEF Types, WorkerTypes, RecordTypes
<1>1. \A v \in Workers \ {w} : worker'[v] = worker[v]
  BY WorkerFrame
<1>2. acked' = acked /\ born' = born /\ unsaved \subseteq unsaved'
  BY DEF WorkerSteps, WorkerTop, WorkerWaitEnds, WorkerLoaded, WorkerDequeue, WorkerAbandon,
     WorkerBegin, WorkerException, WorkerStart, WorkerProgress, WorkerDecide, WorkerPersist,
     WorkerPublish, WorkerStats, WorkerEvent, Persist, noteVars, recVars, storeVars
<1> SUFFICES ASSUME t \in acked PROVE Honoured(t)'
  BY <1>2 DEF Honoured
<1>3. /\ born[t] # 0
      /\ recState[t] \in Active =>
           flag[t] /\ \A v \in Workers : Deciding(v, t) => worker[v].verdict = "CANCELLED"
      /\ recState[t] \in Terminal =>
           recState[t] = "CANCELLED" \/ (recState[t] = "TEST_ERROR" /\ t \in unsaved)
  BY DEF CInv, Honoured
<1>4. CASE WorkerOwns(w, t)
  <2>1. /\ worker[w].test = t /\ worker[w].pc \in {"got", "load", "reserve", "run", "persist", "publish"}
        /\ recState[t] \in Active /\ recState[t] # Absent /\ recState[t] \notin Terminal
    BY <1>4, WorkerAlone, StatesApart DEF CInv, Inv, WorkerOwns
  <2>2. \A v \in Workers \ {w} : Deciding(v, t)' <=> Deciding(v, t)
    BY <1>1 DEF Deciding
  <2>3. CASE WorkerAbandon(w) \/ WorkerException(w)
    BY <1>2, <1>3, <2>1, <2>3, StatesApart DEF WorkerAbandon, WorkerException, Honoured, Active
  <2>4. CASE WorkerBegin(w)
    <3>1. t \in cancelFlags
      BY <2>1 DEF CInv, FlagKept
    <3>2. recState' = recState /\ flag'[t] = flag[t] /\ ~Deciding(w, t)'
      BY <2>1, <2>4, <3>1 DEF WorkerBegin, WorkerGoto, WorkerLoop, IdleWorker, Deciding, recVars,
         flagVars
    <3> QED
      BY <1>1, <1>2, <1>3, <2>2, <3>2 DEF Honoured, Deciding
  <2>5. CASE WorkerLoaded(w) \/ WorkerStart(w) \/ WorkerProgress(w)
    <3>1. flag' = flag /\ recState'[t] \in Active /\ ~Deciding(w, t)'
      BY <2>1, <2>5 DEF WorkerLoaded, WorkerStart, WorkerProgress, WorkerGoto, Deciding, recVars,
         flagVars,
         Active
    <3> QED
      BY <1>1, <1>2, <1>3, <2>1, <2>2, <3>1, StatesApart DEF Honoured, Deciding
  <2>6. CASE WorkerDecide(w)
    <3>1. flag[t] /\ flag' = flag /\ recState' = recState
      BY <1>3, <2>1, <2>6 DEF WorkerDecide, recVars, flagVars
    <3>2. worker' = [worker EXCEPT ![w].pc = "persist", ![w].verdict = "CANCELLED"]
      BY <2>1, <2>6, <3>1 DEF WorkerDecide
    <3> QED
      BY <1>1, <1>2, <1>3, <2>2, <3>1, <3>2 DEF Honoured, Deciding
  <2>7. CASE WorkerPersist(w)
    <3>1. /\ flag' = flag /\ recState' = recState
          /\ Deciding(w, t) /\ worker'[w].verdict = worker[w].verdict
      BY <2>1, <2>7 DEF WorkerPersist, WorkerGoto, Deciding, recVars, flagVars
    <3> QED
      BY <1>1, <1>2, <1>3, <2>2, <3>1 DEF Honoured, Deciding
  <2>8. CASE WorkerPublish(w)
    <3>1. worker[w].verdict = "CANCELLED"
      BY <1>3, <2>1, <2>8 DEF WorkerPublish, Deciding
    <3>2. recState'[t] = "CANCELLED"
      BY <2>1, <2>8, <3>1 DEF WorkerPublish
    <3> QED
      BY <1>2, <1>3, <3>2 DEF Honoured, Active
  <2> QED
    BY <2>1, <2>3, <2>4, <2>5, <2>6, <2>7, <2>8 DEF WorkerSteps, WorkerTop, WorkerWaitEnds,
       WorkerDequeue, WorkerStats, WorkerEvent
<1>5. CASE ~WorkerOwns(w, t)
  <2>1. worker[w].pc \in {"got", "load", "reserve", "run", "persist", "publish"} => worker[w].test # t
    BY <1>5 DEF WorkerOwns
  <2>2. recState'[t] = recState[t] /\ flag'[t] = flag[t]
    BY <2>1 DEF WorkerSteps, WorkerTop, WorkerWaitEnds, WorkerLoaded, WorkerDequeue, WorkerAbandon,
       WorkerBegin, WorkerException, WorkerStart, WorkerProgress, WorkerDecide, WorkerPersist,
       WorkerPublish, WorkerStats, WorkerEvent, recVars, flagVars
  <2>3. ~Deciding(w, t)'
    <3>1. CASE WorkerDecide(w)
      <4>1. PICK v : worker' = [worker EXCEPT ![w].pc = "persist", ![w].verdict = v]
        BY <3>1 DEF WorkerDecide
      <4>2. worker[w].pc = "run"
        BY <3>1 DEF WorkerDecide
      <4> QED
        BY <2>1, <4>1, <4>2 DEF Deciding
    <3>2. CASE ~WorkerDecide(w)
      BY <2>1, <3>2 DEF Deciding, WorkerSteps, WorkerTop, WorkerWaitEnds, WorkerLoaded, WorkerDequeue,
         WorkerAbandon, WorkerBegin, WorkerException, WorkerStart, WorkerProgress, WorkerPersist,
         WorkerPublish, WorkerStats, WorkerEvent, WorkerGoto, WorkerLoop, IdleWorker
    <3> QED
      BY <3>1, <3>2
  <2> QED
    BY <1>1, <1>2, <1>3, <2>2, <2>3 DEF Honoured, Deciding
<1> QED
  BY <1>4, <1>5

\* A cancellation accepted before the worker has read the flag ends the test as
\* cancelled, or in error when its files cannot be loaded: wherever the test is, no
\* step of another thread resets the flag or replaces it, and no other thread ends
\* the test.
THEOREM EngineCancelHonoured == Spec => []CancelHonoured
<1>1. Init /\ Inv => CInv
  BY DEF Init, CInv, Honoured, FlagKept, Absent, Active
<1>2. CInv /\ Inv' /\ [Next]_vars => CInv'
  <2> SUFFICES ASSUME CInv, [Next]_vars
               PROVE  (mode' = "down" => acked' = {}) /\ FlagKept' /\ \A t \in Tests : Honoured(t)'
    BY DEF CInv
  <2>1. Types
    BY TypesOfEngine DEF CInv, Inv
  <2>2. ASSUME NEW c \in Clients, ClientBegins(c) \/ ClientContinues(c)
        PROVE  (mode' = "down" => acked' = {}) /\ FlagKept' /\ \A t \in Tests : Honoured(t)'
    <3>1. mode # "down"
      BY <2>2 DEF CInv, Inv, DownIsEmpty, ClientBegins, ClientContinues, Alive, SubmitInsert,
         CancelDequeue,
         Remove, ClearHistory, SubmitTrim, SubmitEnqueue, RemoveFile, RemoveDone, CancelLookup,
         CancelPersist, CancelPublish, CancelStats, CancelEvent, CancelFlag
    <3>2. FlagKept'
      BY <2>1, <2>2, ClientKeepsFlag DEF FlagKept
    <3> QED
      BY <2>1, <2>2, <3>1, <3>2, ClientHonours, ClientFrame
  <2>3. ASSUME NEW w \in Workers, WorkerSteps(w) \/ WorkerProgress(w)
        PROVE  (mode' = "down" => acked' = {}) /\ FlagKept' /\ \A t \in Tests : Honoured(t)'
    <3>1. acked' = acked /\ mode' = mode
      BY <2>3 DEF WorkerSteps, WorkerTop, WorkerWaitEnds, WorkerLoaded, WorkerDequeue, WorkerAbandon,
         WorkerBegin, WorkerException, WorkerStart, WorkerProgress, WorkerDecide, WorkerPersist,
         WorkerPublish, WorkerStats, WorkerEvent, noteVars, procVars
    <3>2. FlagKept'
      BY <2>1, <2>3, WorkerKeepsFlag DEF FlagKept
    <3> QED
      BY <2>1, <2>3, <3>1, <3>2, WorkerHonours DEF CInv
  <2>4. CASE StopRequest \/ StopSteps
    <3>1. /\ recState' = recState /\ born' = born /\ worker' = worker /\ acked' = acked
          /\ cancelFlags' = cancelFlags /\ unsaved' = unsaved
          /\ \A t \in Tests : flag[t] => flag'[t]
          /\ mode' # "down"
      BY <2>4 DEF StopRequest, StopSteps, StopFlags, StopClose, StopJoin, recVars, flagVars, noteVars,
         storeVars
    <3> QED
      BY <3>1 DEF CInv, Honoured, FlagKept, Deciding
  <2>5. CASE ProcessEnds
    BY <2>5 DEF ProcessEnds, EraseRecords, CInv, Honoured, FlagKept, Absent, Active
  <2>6. CASE Start
    <3>1. acked' = {} /\ \A t \in Tests : recState'[t] \in Terminal \cup {Absent}
      BY <2>1, <2>6 DEF Start, CInv, Types, StoreTypes
    <3> QED
      BY <3>1, StatesApart DEF CInv, Honoured, FlagKept
  <2>7. CASE UNCHANGED vars
    BY <2>7 DEF vars, CInv, Honoured, FlagKept, Deciding
  <2> QED
    BY <2>2, <2>3, <2>4, <2>5, <2>6, <2>7 DEF Next
<1>3. CInv => CancelHonoured
  BY DEF CInv, Honoured, CancelHonoured, Finished
<1> QED
  BY <1>1, <1>2, <1>3, EngineInvariant, PTL DEF Spec

-----------------------------------------------------------------------------
(* The life cycle of TestLifecycle.                                        *)

\* A worker that has started a test finds it RUNNING until it publishes.
RunningSays ==
  \A w \in Workers : worker[w].pc \in {"run", "persist", "publish"} => recState[worker[w].test] = "RUNNING"

\* Between two processes no worker runs.
DownIsIdle == mode = "down" => \A w \in Workers : worker[w].pc = "exited"

\* Whoever is about to publish a verdict leaves a file of that verdict or none,
\* whether saving it failed or not ...
PublishExact ==
  /\ \A c \in Clients : client[c].pc = "cancelPublish" => disk[client[c].test] \in {"CANCELLED", Absent}
  /\ \A w \in Workers : worker[w].pc = "publish" => disk[worker[w].test] \in {worker[w].verdict, Absent}

\* ... so the file of a finished record never says anything else than the record.
VerdictOnDisk == \A t \in Finished : disk[t] \in {recState[t], Absent}

\* What survives the process must be the state a client saw: that needs the files
\* of unsaved tests too, and the order QUEUED, RUNNING, verdict in the record.
LInv == FInv /\ RunningSays /\ DownIsIdle /\ PublishExact /\ VerdictOnDisk

\* The three ways an API thread changes the state of a record.
LEMMA ClientChanges ==
  ASSUME Types, LInv, NEW c \in Clients, ClientBegins(c) \/ ClientContinues(c),
         NEW t \in Tests, recState'[t] # recState[t]
  PROVE  \/ born[t] = 0 /\ recState'[t] = "QUEUED"
         \/ recState[t] \in Terminal /\ recState'[t] = Absent
         \/ /\ ClientOwns(c, t) /\ client[c].pc = "cancelPublish"
            /\ recState[t] \in Active /\ recState'[t] = "CANCELLED"
<1> USE DEF Types, RecordTypes
<1>1. CASE \E s \in Tests : SubmitInsert(c, s)
  BY <1>1 DEF SubmitInsert
<1>2. CASE (\E s \in Tests : Remove(c, s)) \/ ClearHistory(c) \/ SubmitTrim(c)
  <2>1. PICK S : S \subseteq Finished /\ EraseRecords(S)
    <3>1. TrimVictims(Finished, Present) \subseteq Finished
      BY DEF TrimVictims
    <3> QED
      BY <1>2, <3>1 DEF Remove, ClearHistory, SubmitTrim
  <2> QED
    BY <2>1 DEF EraseRecords, Finished
<1>3. CASE CancelPublish(c)
  <2>1. client[c].test \in Tests /\ ClientOwns(c, client[c].test)
    BY <1>3 DEF CancelPublish, ClientOwns, ClientTypes, ClientsConsistent
  <2>2. recState[client[c].test] \in Active
    BY <2>1, ClientAlone DEF LInv, FInv, Inv
  <2> QED
    BY <1>3, <2>1, <2>2 DEF CancelPublish
<1>4. CASE \/ \E s \in Tests : RemoveFile(c, s) \/ CancelDequeue(c, s)
           \/ SubmitEnqueue(c) \/ RemoveDone(c) \/ CancelLookup(c) \/ CancelPersist(c)
           \/ CancelStats(c) \/ CancelEvent(c) \/ CancelFlag(c)
  BY <1>4 DEF RemoveFile, CancelDequeue, SubmitEnqueue, RemoveDone, CancelLookup, CancelPersist,
       CancelStats, CancelEvent, CancelFlag, recVars
<1> QED
  BY <1>1, <1>2, <1>3, <1>4 DEF ClientBegins, ClientContinues

\* A worker changes only the record of the test it holds, forwards.
LEMMA WorkerChanges ==
  ASSUME Types, LInv, NEW w \in Workers, WorkerSteps(w) \/ WorkerProgress(w),
         NEW t \in Tests, recState'[t] # recState[t]
  PROVE  /\ WorkerOwns(w, t) /\ recState[t] \in Active
         /\ \/ worker[w].pc = "reserve" /\ recState'[t] = "RUNNING"
            \/ worker[w].pc \in {"got", "load"} /\ recState'[t] \in {"CANCELLED", "TEST_ERROR"}
            \/ worker[w].pc = "publish" /\ recState[t] = "RUNNING" /\ recState'[t] = worker[w].verdict
<1> DEFINE s == worker[w].test
<1> USE DEF Types, RecordTypes
<1>1. ASSUME worker[w].pc \in {"got", "load", "reserve", "run", "publish"}
      PROVE  s \in Tests /\ WorkerOwns(w, s) /\ recState[s] \in Active /\ recState[s] # Absent
  <2>1. s \in Tests /\ WorkerOwns(w, s)
    BY <1>1 DEF WorkerOwns, WorkerTypes, WorkersConsistent
  <2> QED
    BY <2>1, WorkerAlone, StatesApart DEF LInv, FInv, Inv
<1>2. CASE WorkerStart(w)
  BY <1>1, <1>2 DEF WorkerStart
<1>3. CASE WorkerProgress(w)
  BY <1>1, <1>3 DEF WorkerProgress, LInv, RunningSays
<1>4. CASE WorkerAbandon(w) \/ WorkerException(w)
  BY <1>1, <1>4 DEF WorkerAbandon, WorkerException
<1>5. CASE WorkerPublish(w)
  BY <1>1, <1>5 DEF WorkerPublish, LInv, RunningSays
<1>6. CASE \/ \E u \in Tests : WorkerDequeue(w, u)
           \/ WorkerTop(w) \/ WorkerWaitEnds(w) \/ WorkerLoaded(w) \/ WorkerBegin(w) \/ WorkerDecide(w)
           \/ WorkerPersist(w) \/ WorkerStats(w) \/ WorkerEvent(w)
  BY <1>6 DEF WorkerDequeue, WorkerTop, WorkerWaitEnds, WorkerLoaded, WorkerBegin, WorkerDecide,
       WorkerPersist, WorkerStats, WorkerEvent, recVars
<1> QED
  BY <1>2, <1>3, <1>4, <1>5, <1>6 DEF WorkerSteps

LEMMA RunningSaysPreserved ==
  ASSUME Types, LInv, Next
  PROVE  RunningSays'
<1> SUFFICES ASSUME NEW w \in Workers, worker'[w].pc \in {"run", "persist", "publish"}
             PROVE  recState'[worker'[w].test] = "RUNNING"
  BY DEF RunningSays
<1> DEFINE t == worker[w].test
<1> USE DEF Types, WorkerTypes, RecordTypes
<1>1. ASSUME worker[w].pc \in {"run", "persist", "publish"}
      PROVE  /\ t \in Tests /\ recState[t] = "RUNNING" /\ born[t] # 0
             /\ \A c \in Clients : ~ClientOwns(c, t)
             /\ \A v \in Workers \ {w} : ~WorkerOwns(v, t)
  <2>1. t \in Tests /\ WorkerOwns(w, t)
    BY <1>1 DEF WorkerOwns, WorkersConsistent
  <2>2. recState[t] = "RUNNING"
    BY <1>1 DEF LInv, RunningSays
  <2>3. born[t] # 0
    BY <2>1, <2>2 DEF LInv, FInv, Inv, BornFirst, Absent
  <2> QED
    BY <2>1, <2>2, <2>3, WorkerAlone DEF LInv, FInv, Inv
<1>2. ASSUME NEW c \in Clients, ClientBegins(c) \/ ClientContinues(c)
      PROVE  recState'[worker'[w].test] = "RUNNING"
  <2>1. worker' = worker
    BY <1>2, ClientFrame
  <2>2. recState'[t] = recState[t]
    BY <1>1, <1>2, <2>1, ClientChanges DEF Terminal
  <2> QED
    BY <1>1, <2>1, <2>2
<1>3. ASSUME NEW v \in Workers \ {w}, WorkerSteps(v) \/ WorkerProgress(v)
      PROVE  recState'[worker'[w].test] = "RUNNING"
  <2>1. worker'[w] = worker[w]
    BY <1>3, WorkerFrame
  <2>2. recState'[t] = recState[t]
    BY <1>1, <1>3, <2>1, WorkerChanges
  <2> QED
    BY <1>1, <2>1, <2>2
<1>4. ASSUME WorkerSteps(w) \/ WorkerProgress(w)
      PROVE  recState'[worker'[w].test] = "RUNNING"
  <2>1. CASE WorkerStart(w) \/ WorkerProgress(w)
    <3>1. t \in Tests /\ WorkerOwns(w, t) /\ worker'[w].test = t
      BY <2>1 DEF WorkerStart, WorkerProgress, WorkerGoto, WorkerOwns, WorkersConsistent
    <3>2. recState[t] # Absent
      BY <3>1, WorkerAlone, StatesApart DEF LInv, FInv, Inv
    <3> QED
      BY <2>1, <3>1, <3>2 DEF WorkerStart, WorkerProgress
  <2>2. CASE WorkerDecide(w)
    <3>1. PICK u : worker' = [worker EXCEPT ![w].pc = "persist", ![w].verdict = u]
      BY <2>2 DEF WorkerDecide
    <3>2. worker[w].pc = "run" /\ recState' = recState
      BY <2>2 DEF WorkerDecide, recVars
    <3> QED
      BY <1>1, <3>1, <3>2
  <2>3. CASE WorkerPersist(w)
    BY <1>1, <2>3 DEF WorkerPersist, WorkerGoto, recVars
  <2>4. CASE \/ \E u \in Tests : WorkerDequeue(w, u)
             \/ WorkerTop(w) \/ WorkerWaitEnds(w) \/ WorkerLoaded(w) \/ WorkerBegin(w) \/ WorkerAbandon(w)
             \/ WorkerException(w) \/ WorkerPublish(w) \/ WorkerStats(w) \/ WorkerEvent(w)
    BY <2>4 DEF WorkerDequeue, WorkerTop, WorkerWaitEnds, WorkerLoaded, WorkerBegin, WorkerAbandon,
       WorkerException,
       WorkerPublish, WorkerStats, WorkerEvent, WorkerGoto, WorkerLoop, IdleWorker
  <2> QED
    BY <1>4, <2>1, <2>2, <2>3, <2>4 DEF WorkerSteps
<1>5. CASE StopRequest \/ StopSteps
  BY <1>1, <1>5 DEF StopRequest, StopSteps, StopFlags, StopClose, StopJoin, recVars
<1>6. CASE ProcessEnds \/ Start
  BY <1>6 DEF ProcessEnds, Start, IdleWorker
<1> QED
  BY <1>2, <1>3, <1>4, <1>5, <1>6 DEF Next

LEMMA DownIsIdlePreserved ==
  ASSUME Types, LInv, Next
  PROVE  DownIsIdle'
<1> SUFFICES ASSUME NEW w \in Workers, mode' = "down" PROVE worker'[w].pc = "exited"
  BY DEF DownIsIdle
<1>1. CASE ProcessEnds
  BY <1>1 DEF ProcessEnds, IdleWorker
<1>2. ASSUME NEW c \in Clients, ClientBegins(c) \/ ClientContinues(c) PROVE worker'[w].pc = "exited"
  BY <1>2, ClientFrame DEF LInv, DownIsIdle
<1>3. ASSUME NEW v \in Workers, WorkerSteps(v) \/ WorkerProgress(v) PROVE worker'[w].pc = "exited"
  <2>1. worker[v].pc = "exited"
    BY <1>3, WorkerFrame DEF LInv, DownIsIdle
  <2> QED
    BY <1>3, <2>1 DEF WorkerSteps, WorkerTop, WorkerWaitEnds, WorkerLoaded, WorkerDequeue,
       WorkerAbandon, WorkerBegin,
       WorkerException, WorkerStart, WorkerProgress, WorkerDecide, WorkerPersist, WorkerPublish,
       WorkerStats, WorkerEvent
<1>4. ~StopRequest /\ ~StopSteps /\ ~Start
  BY DEF StopRequest, StopSteps, StopFlags, StopClose, StopJoin, Start
<1> QED
  BY <1>1, <1>2, <1>3, <1>4 DEF Next

\* A test in the hands of one that has not saved it has no file.
LEMMA NoFileYet ==
  ASSUME Types, LInv, mode # "down", NEW t \in Tests, recState[t] \in Active,
         \A c \in Clients : client[c].test = t => client[c].pc # "cancelPublish",
         \A w \in Workers : worker[w].test = t => worker[w].pc # "publish"
  PROVE  disk[t] = Absent
<1>1. t \notin Finished
  BY StatesApart DEF Finished
<1>2. \A c \in Clients : t \notin client[c].files
  BY StatesApart DEF LInv, FInv, Inv, FilesOfErased
<1> QED
  BY <1>1, <1>2 DEF LInv, FInv, NoOrphanFile, Alive

LEMMA HeldByClient ==
  ASSUME Types, LInv, NEW c \in Clients, NEW t \in Tests, ClientOwns(c, t),
         mode # "down", client[c].pc # "cancelPublish"
  PROVE  disk[t] = Absent
<1>1. /\ recState[t] \in Active
      /\ \A d \in Clients \ {c} : ~ClientOwns(d, t)
      /\ \A w \in Workers : ~WorkerOwns(w, t)
  BY ClientAlone DEF LInv, FInv, Inv
<1>2. \A d \in Clients : client[d].test = t => client[d].pc # "cancelPublish"
  BY <1>1 DEF ClientOwns, Types, ClientTypes, ClientsConsistent
<1>3. \A w \in Workers : worker[w].test = t => worker[w].pc # "publish"
  BY <1>1 DEF WorkerOwns
<1> QED
  BY <1>1, <1>2, <1>3, NoFileYet

LEMMA HeldByWorker ==
  ASSUME Types, LInv, NEW w \in Workers, NEW t \in Tests, WorkerOwns(w, t),
         mode # "down", worker[w].pc # "publish"
  PROVE  disk[t] = Absent
<1>1. /\ recState[t] \in Active
      /\ \A c \in Clients : ~ClientOwns(c, t)
      /\ \A v \in Workers \ {w} : ~WorkerOwns(v, t)
  BY WorkerAlone DEF LInv, FInv, Inv
<1>2. \A c \in Clients : client[c].test = t => client[c].pc # "cancelPublish"
  BY <1>1 DEF ClientOwns, Types, ClientTypes, ClientsConsistent
<1>3. \A v \in Workers : worker[v].test = t => worker[v].pc # "publish"
  BY <1>1 DEF WorkerOwns
<1> QED
  BY <1>1, <1>2, <1>3, NoFileYet

LEMMA PublishExactPreserved ==
  ASSUME Types, LInv, Next
  PROVE  PublishExact'
<1> USE DEF Types, ClientTypes, WorkerTypes, StoreTypes
<1>1. ASSUME NEW c \in Clients, client'[c].pc = "cancelPublish"
      PROVE  disk'[client'[c].test] \in {"CANCELLED", Absent}
  <2> DEFINE t == client[c].test
  <2>1. CASE client'[c] = client[c]
    <3>1. t \in Tests /\ ClientOwns(c, t)
      BY <1>1, <2>1 DEF ClientsConsistent, ClientOwns
    <3>2. /\ recState[t] \in Active
          /\ \A d \in Clients \ {c} : ~ClientOwns(d, t)
          /\ \A w \in Workers : ~WorkerOwns(w, t)
      BY <3>1, ClientAlone DEF LInv, FInv, Inv
    <3>3. \A d \in Clients : client[d].test = t => client[d].pc # "cancelPersist"
      BY <1>1, <2>1, <3>2 DEF ClientOwns, ClientsConsistent
    <3>4. \A w \in Workers : worker[w].test = t => worker[w].pc # "persist"
      BY <3>2 DEF WorkerOwns
    <3>5. disk'[t] = disk[t]
      BY <3>1, <3>2, <3>3, <3>4, HeldFileStays DEF LInv, FInv
    <3> QED
      BY <1>1, <2>1, <3>5 DEF LInv, PublishExact
  <2>2. CASE client'[c] # client[c]
    <3>1. CancelPersist(c)
      BY <1>1, <2>2, EntersCancelPublish
    <3>2. t \in Tests /\ ClientOwns(c, t) /\ client'[c].test = t
      BY <3>1 DEF CancelPersist, Goto, ClientsConsistent, ClientOwns
    <3>3. mode # "down" /\ client[c].pc # "cancelPublish"
      BY <3>1 DEF CancelPersist, LInv, FInv, Inv, DownIsEmpty
    <3>4. disk[t] = Absent
      BY <3>2, <3>3, HeldByClient
    <3> QED
      BY <3>1, <3>2, <3>4 DEF CancelPersist, Persist
  <2> QED
    BY <2>1, <2>2
<1>2. ASSUME NEW w \in Workers, worker'[w].pc = "publish"
      PROVE  disk'[worker'[w].test] \in {worker'[w].verdict, Absent}
  <2> DEFINE t == worker[w].test
  <2>1. CASE worker'[w] = worker[w]
    <3>1. t \in Tests /\ WorkerOwns(w, t)
      BY <1>2, <2>1 DEF WorkersConsistent, WorkerOwns
    <3>2. /\ recState[t] \in Active
          /\ \A c \in Clients : ~ClientOwns(c, t)
          /\ \A v \in Workers \ {w} : ~WorkerOwns(v, t)
      BY <3>1, WorkerAlone DEF LInv, FInv, Inv
    <3>3. \A c \in Clients : client[c].test = t => client[c].pc # "cancelPersist"
      BY <3>2 DEF ClientOwns, ClientsConsistent
    <3>4. \A v \in Workers : worker[v].test = t => worker[v].pc # "persist"
      BY <1>2, <2>1, <3>2 DEF WorkerOwns
    <3>5. disk'[t] = disk[t]
      BY <3>1, <3>2, <3>3, <3>4, HeldFileStays DEF LInv, FInv
    <3> QED
      BY <1>2, <2>1, <3>5 DEF LInv, PublishExact
  <2>2. CASE worker'[w] # worker[w]
    <3>1. WorkerPersist(w)
      BY <1>2, <2>2, EntersPublish
    <3>2. t \in Tests /\ WorkerOwns(w, t) /\ worker'[w].test = t /\ worker'[w].verdict = worker[w].verdict
      BY <3>1 DEF WorkerPersist, WorkerGoto, WorkersConsistent, WorkerOwns
    <3>3. mode # "down" /\ worker[w].pc # "publish"
      BY <3>1 DEF WorkerPersist, LInv, DownIsIdle
    <3>4. disk[t] = Absent
      BY <3>2, <3>3, HeldByWorker
    <3> QED
      BY <3>1, <3>2, <3>4 DEF WorkerPersist, Persist
  <2> QED
    BY <2>1, <2>2
<1> QED
  BY <1>1, <1>2 DEF PublishExact

LEMMA VerdictOnDiskPreserved ==
  ASSUME Types, LInv, Next
  PROVE  VerdictOnDisk'
<1> SUFFICES ASSUME NEW t \in Tests, recState'[t] \in Terminal
             PROVE  disk'[t] \in {recState'[t], Absent}
  BY DEF VerdictOnDisk, Finished
<1>1. FileStep(t)
  BY StepOfOneTest DEF LInv, FInv
<1>2. CASE recState'[t] = recState[t]
  <2>1. disk'[t] = disk[t]
    BY <1>1, <1>2, StatesApart DEF FileStep, FileWritten, FileDeleted
  <2> QED
    BY <1>2, <2>1 DEF LInv, VerdictOnDisk, Finished
<1>3. CASE recState'[t] # recState[t]
  <2>1. ASSUME NEW c \in Clients, ClientBegins(c) \/ ClientContinues(c)
        PROVE  disk'[t] \in {recState'[t], Absent}
    <3>1. ClientOwns(c, t) /\ client[c].pc = "cancelPublish" /\ recState'[t] = "CANCELLED"
      BY <1>3, <2>1, ClientChanges, StatesApart DEF Terminal
    <3>2. ~FileWritten(t) /\ ~FileDeleted(t)
      BY <1>3, <3>1, ClientAlone, StatesApart DEF FileWritten, FileDeleted, LInv, FInv, Inv
    <3> QED
      BY <1>1, <3>1, <3>2 DEF FileStep, ClientOwns, LInv, PublishExact
  <2>2. ASSUME NEW w \in Workers, WorkerSteps(w) \/ WorkerProgress(w)
        PROVE  disk'[t] \in {recState'[t], Absent}
    <3>1. /\ WorkerOwns(w, t) /\ recState[t] \in Active
          /\ worker[w].pc = "publish" => recState'[t] = worker[w].verdict
      BY <1>3, <2>2, WorkerChanges
    <3>2. mode # "down"
      BY <3>1 DEF WorkerOwns, LInv, DownIsIdle
    <3>3. disk'[t] = disk[t]
      BY <1>1, <1>3, <3>1, StatesApart DEF FileStep, FileWritten, FileDeleted
    <3>4. CASE worker[w].pc = "publish"
      BY <3>1, <3>3, <3>4 DEF WorkerOwns, LInv, PublishExact
    <3>5. CASE worker[w].pc # "publish"
      BY <3>1, <3>2, <3>3, <3>5, HeldByWorker
    <3> QED
      BY <3>4, <3>5
  <2>3. CASE Start
    BY <2>3, StatesApart DEF Start
  <2>4. ~StopRequest /\ ~StopSteps /\ ~ProcessEnds
    BY <1>3, StatesApart DEF StopRequest, StopSteps, StopFlags, StopClose, StopJoin, ProcessEnds,
       EraseRecords,
       recVars
  <2> QED
    BY <2>1, <2>2, <2>3, <2>4 DEF Next
<1> QED
  BY <1>2, <1>3

LEMMA LifeInvariant == Spec => []LInv
<1>1. Init /\ FInv => LInv
  BY DEF Init, LInv, IdleClient, IdleWorker, RunningSays, DownIsIdle, PublishExact, VerdictOnDisk,
     Finished, Terminal, Absent
<1>2. LInv /\ FInv' /\ [Next]_vars => LInv'
  <2> SUFFICES ASSUME LInv, [Next]_vars
               PROVE  RunningSays' /\ DownIsIdle' /\ PublishExact' /\ VerdictOnDisk'
    BY DEF LInv
  <2>1. Types
    BY TypesOfEngine DEF LInv, FInv, Inv
  <2>2. CASE Next
    BY <2>1, <2>2, RunningSaysPreserved, DownIsIdlePreserved, PublishExactPreserved,
       VerdictOnDiskPreserved
  <2>3. CASE UNCHANGED vars
    BY <2>3 DEF vars, LInv, RunningSays, DownIsIdle, PublishExact, VerdictOnDisk, Finished
  <2> QED
    BY <2>2, <2>3
<1> QED
  BY <1>1, <1>2, FilesInvariant, PTL DEF Spec

-----------------------------------------------------------------------------
(* Every step is a step of TestLifecycle.                                  *)

\* The state of one test in TestLifecycle.
Life(t) ==
  IF mode = "down" THEN disk[t]
  ELSE IF recState[t] # Absent THEN recState[t]
  ELSE IF disk[t] # Absent THEN "removing" ELSE Absent

Used == {t \in Tests : born[t] # 0}

\* What TestLifecycle lets a step do to one test.
Advances(t) ==
  \/ Life(t)' = Life(t)
  \/ Life(t) = Absent /\ t \notin Used /\ Life(t)' = "QUEUED"
  \/ Life(t) = "QUEUED" /\ Life(t)' \in {"RUNNING", "CANCELLED", "TEST_ERROR"}
  \/ Life(t) = "RUNNING" /\ Life(t)' \in Terminal
  \/ Life(t) \in Terminal /\ Life(t)' \in {"removing", Absent}
  \/ Life(t) = "removing" /\ Life(t)' = Absent

Survives(t) ==
  \/ Life(t) \in Active /\ Life(t)' \in Terminal \cup {Absent}
  \/ Life(t) \in Terminal /\ Life(t)' \in {Life(t), Absent}
  \/ Life(t) = "removing" /\ Life(t)' \in Terminal
  \/ Life(t) = Absent /\ Life(t)' = Absent

Reloads(t) == Life(t) \in Terminal \cup {Absent} /\ Life(t)' \in {Life(t), Absent}

LEMMA AliveAdvances ==
  ASSUME Types, LInv, Next, mode # "down", mode' # "down", NEW t \in Tests
  PROVE  Advances(t)
<1>1. FileStep(t)
  BY StepOfOneTest DEF LInv, FInv
<1>2. CASE recState'[t] = recState[t] /\ recState[t] # Absent
  BY <1>2 DEF Advances, Life
<1>3. CASE recState'[t] = recState[t] /\ recState[t] = Absent
  <2>1. disk'[t] = disk[t] \/ disk'[t] = Absent
    BY <1>1, <1>3, StatesApart DEF FileStep, FileWritten, FileDeleted
  <2> QED
    BY <1>3, <2>1 DEF Advances, Life
<1>4. CASE recState'[t] # recState[t]
  <2>2. ASSUME NEW c \in Clients, ClientBegins(c) \/ ClientContinues(c)
        PROVE  Advances(t)
    <3>1. CASE born[t] = 0 /\ recState'[t] = "QUEUED"
      <4>1. recState[t] = Absent /\ disk[t] = Absent
        BY <3>1 DEF LInv, FInv, Inv, BornFirst
      <4> QED
        BY <3>1, <4>1 DEF Advances, Life, Used, Absent
    <3>2. CASE recState[t] \in Terminal /\ recState'[t] = Absent
      BY <3>2, StatesApart DEF Advances, Life
    <3>3. CASE recState[t] \in Active /\ recState'[t] = "CANCELLED"
      BY <3>3 DEF Advances, Life, Active, Terminal, Absent
    <3> QED
      BY <1>4, <2>2, <3>1, <3>2, <3>3, ClientChanges
  <2>3. ASSUME NEW w \in Workers, WorkerSteps(w) \/ WorkerProgress(w)
        PROVE  Advances(t)
    <3>1. /\ WorkerOwns(w, t) /\ recState[t] \in Active
          /\ \/ worker[w].pc = "reserve" /\ recState'[t] = "RUNNING"
             \/ worker[w].pc \in {"got", "load"} /\ recState'[t] \in {"CANCELLED", "TEST_ERROR"}
             \/ worker[w].pc = "publish" /\ recState[t] = "RUNNING" /\ recState'[t] = worker[w].verdict
      BY <1>4, <2>3, WorkerChanges
    <3>2. worker[w].pc = "publish" => worker[w].verdict \in Terminal
      BY DEF Types, WorkerTypes, WorkersConsistent
    <3>3. Life(t) = recState[t]
      BY <3>1, StatesApart DEF Life
    <3>4. recState'[t] # Absent
      BY <3>1, <3>2, StatesApart DEF Absent
    <3>5. Life(t)' = recState'[t]
      BY <3>4 DEF Life
    <3> QED
      BY <1>4, <3>1, <3>2, <3>3, <3>5 DEF Advances, Active, Terminal
  <2>4. ~StopRequest /\ ~StopSteps /\ ~ProcessEnds /\ ~Start
    BY <1>4 DEF StopRequest, StopSteps, StopFlags, StopClose, StopJoin, ProcessEnds, Start, recVars
  <2> QED
    BY <2>2, <2>3, <2>4 DEF Next
<1> QED
  BY <1>2, <1>3, <1>4

LEMMA DeathSurvived ==
  ASSUME Types, LInv, Next, mode # "down", mode' = "down"
  PROVE  born' = born /\ \A t \in Tests : Survives(t)
<1>1. ProcessEnds
  <2>1. ~StopRequest /\ ~StopSteps /\ ~Start
    BY DEF StopRequest, StopSteps, StopFlags, StopClose, StopJoin, Start
  <2> QED
    BY <2>1, ClientFrame, WorkerFrame DEF Next
<1>2. ASSUME NEW t \in Tests PROVE Survives(t)
  <2>1. Life(t)' = disk[t]
    BY <1>1 DEF ProcessEnds, Life
  <2>2. disk[t] \in Terminal \cup {Absent} /\ recState[t] \in Active \cup Terminal \cup {Absent}
    BY DEF Types, StoreTypes, RecordTypes
  <2>3. recState[t] \in Terminal => disk[t] \in {recState[t], Absent}
    BY DEF LInv, VerdictOnDisk, Finished
  <2> QED
    BY <2>1, <2>2, <2>3, StatesApart DEF Survives, Life
<1> QED
  BY <1>1, <1>2 DEF ProcessEnds

\* Nothing happens between two processes but the start of the next one.
LEMMA StartReloads ==
  ASSUME Types, LInv, Next, mode = "down"
  PROVE  mode' # "down" /\ born' = born /\ \A t \in Tests : Reloads(t)
<1>1. Start
  <2>1. ASSUME NEW c \in Clients, ClientBegins(c) \/ ClientContinues(c) PROVE FALSE
    <3>1. client[c].pc = "idle"
      BY DEF LInv, FInv, Inv, DownIsEmpty
    <3> QED
      BY <2>1, <3>1 DEF ClientBegins, ClientContinues, SubmitInsert, CancelDequeue, Remove,
         ClearHistory,
         SubmitTrim, SubmitEnqueue, RemoveFile, RemoveDone, CancelLookup, CancelPersist,
         CancelPublish, CancelStats, CancelEvent, CancelFlag, Alive
  <2>2. ASSUME NEW w \in Workers, WorkerSteps(w) \/ WorkerProgress(w) PROVE FALSE
    <3>1. worker[w].pc = "exited"
      BY DEF LInv, DownIsIdle
    <3> QED
      BY <2>2, <3>1 DEF WorkerSteps, WorkerTop, WorkerWaitEnds, WorkerLoaded, WorkerDequeue,
         WorkerAbandon, WorkerBegin,
         WorkerException, WorkerStart, WorkerProgress, WorkerDecide, WorkerPersist, WorkerPublish,
         WorkerStats, WorkerEvent
  <2>3. ~StopRequest /\ ~StopSteps /\ ~ProcessEnds
    BY DEF StopRequest, StopSteps, StopFlags, StopClose, StopJoin, ProcessEnds, Alive
  <2> QED
    BY <2>1, <2>2, <2>3 DEF Next
<1>2. ASSUME NEW t \in Tests PROVE Reloads(t)
  <2>1. disk[t] \in Terminal \cup {Absent}
    BY DEF Types, StoreTypes
  <2>2. mode' = "up" /\ recState'[t] = disk'[t] /\ disk'[t] \in {disk[t], Absent}
    BY <1>1 DEF Start
  <2> QED
    BY <2>1, <2>2 DEF Reloads, Life
<1> QED
  BY <1>1, <1>2 DEF Start

\* An id is used from its submission on, and only submissions bring up QUEUED.
LEMMA UsedGrows ==
  ASSUME Types, LInv, LInv', Types', Next
  PROVE  Used' = Used \cup {t \in Tests : Life(t)' = "QUEUED"}
<1> SUFFICES ASSUME NEW t \in Tests
             PROVE  born'[t] # 0 <=> born[t] # 0 \/ Life(t)' = "QUEUED"
  BY DEF Used
<1>1. born'[t] = born[t] \/ RecordSubmitted(t)
  BY StepOfOneTest DEF LInv, FInv
<1>2. Life(t)' = "QUEUED" => born'[t] # 0
  <2> SUFFICES ASSUME Life(t)' = "QUEUED" PROVE born'[t] # 0
    OBVIOUS
  <2>1. disk'[t] \in Terminal \cup {Absent}
    BY DEF Types, StoreTypes
  <2>2. recState'[t] # Absent
    BY <2>1 DEF Life, Terminal, Absent
  <2> QED
    BY <2>2 DEF LInv, FInv, Inv, BornFirst
<1>3. RecordSubmitted(t) => Life(t)' = "QUEUED"
  <2> SUFFICES ASSUME RecordSubmitted(t) PROVE Life(t)' = "QUEUED"
    OBVIOUS
  <2>1. mode' # "down"
    BY DEF RecordSubmitted, LInv, FInv, Inv, DownIsEmpty, Absent
  <2> QED
    BY <2>1 DEF RecordSubmitted, Life, Absent
<1> QED
  BY <1>1, <1>2, <1>3 DEF RecordSubmitted

LEMMA LifeTyped ==
  ASSUME Types', NEW t \in Tests
  PROVE  Life(t)' \in Active \cup Terminal \cup {"removing", Absent}
BY DEF Types, RecordTypes, StoreTypes, Life

\* What the daemon promises about a test holds of the engine with its queue,
\* threads, locks and files: an id is used once, QUEUED leads to RUNNING or to a
\* verdict without a run, a verdict never changes, only the end of the process
\* loses an unfinished test, and a client that asks after a restart reads the
\* verdict it read before it, or nothing.
THEOREM EngineImplementsLifecycle == Spec => ImplementsLifecycle
<1> DEFINE L == [t \in Tests |-> IF ~Alive THEN disk[t]
                                 ELSE IF recState[t] # Absent THEN recState[t]
                                 ELSE IF disk[t] # Absent THEN "removing" ELSE Absent]
<1>1. /\ L = [t \in Tests |-> Life(t)]
      /\ L' = [t \in Tests |-> Life(t)']
  BY DEF Life, Alive
<1>2. Init => Lifecycle!Init
  BY DEF Init, Lifecycle!Init, Alive, Absent
<1>3. LInv => Types
  BY TypesOfEngine DEF LInv, FInv, Inv
<1>4. LInv /\ LInv' /\ Types' /\ [Next]_vars => [Lifecycle!Next]_Lifecycle!vars
  <2> SUFFICES ASSUME LInv, LInv', Types', [Next]_vars PROVE Lifecycle!Next \/ UNCHANGED Lifecycle!vars
    OBVIOUS
  <2>1. Types /\ Types'
    BY <1>3
  <2>2. CASE UNCHANGED vars
    BY <2>2 DEF vars, Lifecycle!vars, Alive
  <2>3. CASE Next
    <3>1. L' \in [Tests -> Lifecycle!Unfinished \cup Lifecycle!Verdict \cup {"removing", "absent"}]
      <4>1. \A t \in Tests : Life(t)' \in Active \cup Terminal \cup {"removing", Absent}
        BY <2>1, LifeTyped
      <4> QED
        BY <1>1, <4>1 DEF Lifecycle!Unfinished, Lifecycle!Verdict, Active, Terminal, Absent
    <3>2. Used' = Used \cup {t \in Tests : L'[t] = "QUEUED"}
      BY <1>1, <2>1, <2>3, UsedGrows
    <3>3. Lifecycle!Work \/ Lifecycle!End \/ Lifecycle!Boot
      <4>1. CASE mode # "down" /\ mode' # "down"
        <5>1. \A t \in Tests : Advances(t)
          BY <2>1, <2>3, <4>1, AliveAdvances
        <5>2. \A t \in Tests : Lifecycle!Advance(t)
          BY <1>1, <5>1 DEF Advances, Lifecycle!Advance, Lifecycle!Verdict, Terminal, Absent, Used
        <5> QED
          BY <4>1, <5>2 DEF Lifecycle!Work, Alive
      <4>2. CASE mode # "down" /\ mode' = "down"
        <5>1. \A t \in Tests : Survives(t)
          BY <2>1, <2>3, <4>2, DeathSurvived
        <5>2. \A t \in Tests : Lifecycle!Survive(t)
          BY <1>1, <5>1 DEF Survives, Lifecycle!Survive, Lifecycle!Verdict, Lifecycle!Unfinished,
             Active, Terminal, Absent
        <5> QED
          BY <4>2, <5>2 DEF Lifecycle!End, Alive
      <4>3. CASE mode = "down"
        <5>1. mode' # "down" /\ \A t \in Tests : Reloads(t)
          BY <2>1, <2>3, <4>3, StartReloads
        <5>2. \A t \in Tests : Lifecycle!Reload(t)
          BY <1>1, <5>1 DEF Reloads, Lifecycle!Reload, Lifecycle!Verdict, Terminal, Absent
        <5> QED
          BY <4>3, <5>1, <5>2 DEF Lifecycle!Boot, Alive
      <4> QED
        BY <4>1, <4>2, <4>3
    <3> QED
      BY <3>1, <3>2, <3>3 DEF Lifecycle!Next, Used
  <2> QED
    BY <2>2, <2>3
<1> QED
  BY <1>2, <1>3, <1>4, LifeInvariant, PTL DEF Spec, ImplementsLifecycle, Lifecycle!Spec
=============================================================================
