------------------------------ MODULE TestQueue ------------------------------
(***************************************************************************)
(* The queue between the API threads and the workers                       *)
(* (src/src/engine/test_queue.h): a deque kept in descending priority and, *)
(* within one priority, in the order of arrival.  Every operation holds    *)
(* mutex_ from beginning to end, so each one is a single action.           *)
(***************************************************************************)
EXTENDS Naturals, Sequences

CONSTANTS
  Tests,      \* the test ids that may be queued
  Priority    \* Priority[t]: the request's priority, as an integer

ASSUME PriorityAssumption == Priority \in [Tests -> Nat]

VARIABLES
  items,      \* items_: sequence of TestTask records
  sequence,   \* sequence_: the last sequence number handed out
  closed      \* closed_: waiters are no longer held back

queueVars == <<items, sequence, closed>>

Task == [id: Tests, sequence: Nat]

Queued(t) == \E i \in DOMAIN items : items[i].id = t

-----------------------------------------------------------------------------
(* Pure operations on the deque.                                           *)

\* Mutant: the newcomer goes in front of its own priority class (<= for <).
InsertPosition_BeforeEqual(q, p) ==
  CHOOSE k \in 1..(Len(q) + 1) :
    /\ \A i \in 1..(k - 1) : Priority[q[i].id] > p
    /\ k <= Len(q) => Priority[q[k].id] <= p

\* find_if of enqueue: the first task of strictly lower priority, or the end.
InsertPosition(q, p) ==
  CHOOSE k \in 1..(Len(q) + 1) :
    /\ \A i \in 1..(k - 1) : Priority[q[i].id] >= p
    /\ k <= Len(q) => Priority[q[k].id] < p

InsertTask(q, task) ==
  LET k == InsertPosition(q, Priority[task.id])
  IN  [i \in 1..(Len(q) + 1) |->
         IF i < k THEN q[i] ELSE IF i = k THEN task ELSE q[i - 1]]

\* find_if of cancel: the first task with this id; some task has it.
PositionOf(q, t) ==
  CHOOSE k \in DOMAIN q : q[k].id = t /\ \A i \in 1..(k - 1) : q[i].id # t

EraseTask(q, t) ==
  LET k == PositionOf(q, t)
  IN  [i \in 1..(Len(q) - 1) |-> IF i < k THEN q[i] ELSE q[i + 1]]

-----------------------------------------------------------------------------
QueueInit ==
  /\ items = <<>>
  /\ sequence = 0
  /\ closed = FALSE

Enqueue(t) ==
  /\ sequence' = sequence + 1
  /\ items' = InsertTask(items, [id |-> t, sequence |-> sequence + 1])
  /\ UNCHANGED closed

\* waitAndDequeue when the wait ends with a task at the front.  A closed
\* queue still hands out what it holds.
DequeueFront(t) ==
  /\ items # <<>>
  /\ Head(items).id = t
  /\ items' = Tail(items)
  /\ UNCHANGED <<sequence, closed>>

\* cancel(taskId) that finds the task; it returns true.
CancelQueued(t) ==
  /\ Queued(t)
  /\ items' = EraseTask(items, t)
  /\ UNCHANGED <<sequence, closed>>

Close ==
  /\ closed' = TRUE
  /\ UNCHANGED <<items, sequence>>

Reopen ==
  /\ closed' = FALSE
  /\ UNCHANGED <<items, sequence>>

QueueNext ==
  \/ \E t \in Tests : (~Queued(t) /\ Enqueue(t)) \/ DequeueFront(t) \/ CancelQueued(t)
  \/ Close
  \/ Reopen

QueueSpec == QueueInit /\ [][QueueNext]_queueVars

-----------------------------------------------------------------------------
(* Properties.                                                             *)

\* The deque holds task records and a counter.
QueueTypeOK ==
  /\ items \in Seq(Task)
  /\ sequence \in Nat
  /\ closed \in BOOLEAN

\* Sequence numbers in the deque are numbers already handed out.
SequencesIssued ==
  \A i \in DOMAIN items : items[i].sequence \in 1..sequence

\* What enqueue's comment promises ("descending priority, ascending sequence"):
\* of two queued tasks the one in front has the higher priority, or the same
\* priority and arrived earlier.  Erasing from the middle must not disturb it.
PriorityFifo ==
  \A i, j \in DOMAIN items : i < j =>
    \/ Priority[items[i].id] > Priority[items[j].id]
    \/ /\ Priority[items[i].id] = Priority[items[j].id]
       /\ items[i].sequence < items[j].sequence

\* No test is queued twice: cancel erases only the first match, so a second
\* entry would still be executed after its cancellation.
NoDuplicates ==
  \A i, j \in DOMAIN items : items[i].id = items[j].id => i = j

\* A task never moves backwards except behind a newcomer of strictly higher
\* priority: whatever overtakes it is more urgent.
OvertakenOnlyByUrgent ==
  [][\A i, j \in DOMAIN items' :
       /\ i < j
       /\ \E k \in DOMAIN items : items[k] = items'[j]
       /\ ~ \E k \in DOMAIN items : items[k] = items'[i]
       => Priority[items'[i].id] > Priority[items'[j].id]]_queueVars
=============================================================================
