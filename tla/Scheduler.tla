----------------------------- MODULE Scheduler ------------------------------
(***************************************************************************)
(* Schedules that submit tests by the clock                                *)
(* (src/src/engine/scheduler.cpp): a thread looks at every schedule a few  *)
(* times a minute, API threads create, change, remove and fire schedules,  *)
(* and every change is written to the schedule's own file.  Each operation *)
(* holds mutex_; the tick takes it anew for every schedule, with the       *)
(* minute it read at its start.  The process may stop or crash, also       *)
(* between a submission and the save that follows it.                      *)
(***************************************************************************)
EXTENDS Naturals, Sequences, FiniteSets, SequencesExt, CronExpr

CONSTANTS
  Ids,            \* schedule ids
  Sources,        \* cron sources clients send, bad ones included
  Times,          \* the minutes of the clock: sequence of broken-down times
  SaveMayFail,    \* saveOne can fail
  MaxEdits,       \* bound: create, update and remove calls
  MaxFireNow,     \* bound: fireNow calls
  MaxFaults       \* bound: crashes and failed saves

ASSUME SchedulerAssumption ==
  /\ IsFiniteSet(Ids)
  /\ Sources \subseteq CronSource
  /\ Times \in Seq(Moment)
  /\ SaveMayFail \in BOOLEAN
  /\ MaxEdits \in Nat /\ MaxFireNow \in Nat /\ MaxFaults \in Nat

VARIABLES
  items,      \* items_: per id a schedule with its parsed expression, or NoItem
  order,      \* order_
  disk,       \* <dir>/<id>.json, or NoItem
  now,        \* the minute it is, an index of Times
  thread,     \* the scheduler's thread: [pc, minute, todo]
  stopping,   \* stopRequested_
  up,         \* the process runs
  log,        \* every submission so far, in order; the test ids are its indices
  active,     \* tests queued or running
  loose,      \* schedules whose skip_if_running was ever off
  edits, faults,   \* changing calls and faults so far
  fireNows         \* per id the fireNow calls so far

vars == <<items, order, disk, now, thread, stopping, up, log, active, loose,
          edits, fireNows, faults>>

NoItem == [none |-> TRUE]
Loaded(id) == id \in {i \in Ids : items[i] # NoItem}
OnDisk(id) == disk[id] # NoItem

IdleThread == [pc |-> "wait", minute |-> 0, todo |-> <<>>]
NoThread   == [IdleThread EXCEPT !.pc = "none"]

Init ==
  /\ items = [i \in Ids |-> NoItem]
  /\ order = <<>>
  /\ disk = [i \in Ids |-> NoItem]
  /\ now = 1
  /\ thread = IdleThread
  /\ stopping = FALSE
  /\ up = TRUE
  /\ log = <<>>
  /\ active = {}
  /\ loose = {}
  /\ edits = 0 /\ faults = 0
  /\ fireNows = [i \in Ids |-> 0]

-----------------------------------------------------------------------------
\* toJson of everything that is stored: all but the parsed expression.
Stored(item) == [f \in DOMAIN item \ {"expr"} |-> item[f]]

\* fromJson, with the expression parsed again.
Restored(file) == [f \in DOMAIN file \cup {"expr"} |->
                     IF f = "expr" THEN Parse(file.cron) ELSE file[f]]

\* saveOne: written under a temporary name and renamed.
Save(id, item) ==
  \/ /\ disk' = [disk EXCEPT ![id] = Stored(item)]
     /\ UNCHANGED faults
  \/ /\ SaveMayFail /\ faults < MaxFaults
     /\ faults' = faults + 1
     /\ UNCHANGED disk

\* Mutant: an active test of the schedule does not hold it back.
MustSkip_Never(item) == FALSE

MustSkip(item) == item.skip /\ item.lastTest \in active

\* A submission on behalf of id: minute 0 when a client asked for it.  The
\* edition is the number of cron texts the schedule had before this one; byHand
\* and faults count the fires by hand and the faults before this submission.
Entry(id, item, minute) ==
  [id |-> id, created |-> item.created, edition |-> item.edition, minute |-> minute,
   byHand |-> fireNows[id], faults |-> faults]

\* fireLocked: the previous test still runs, or the engine refuses, or a test is
\* submitted; the mark that item carries is kept in any case.
Fire(id, item, minute) ==
  \/ /\ items' = [items EXCEPT ![id] = item]
     /\ UNCHANGED <<log, active>>
  \/ /\ ~MustSkip(item)
     /\ log' = Append(log, Entry(id, item, minute))
     /\ active' = active \cup {Len(log) + 1}
     /\ items' = [items EXCEPT ![id] = [item EXCEPT !.lastTest = Len(log) + 1]]

\* The process dies with the test submitted and the file not yet written; the
\* engine forgets its unfinished tests.
DieAfterSubmit(id, item, minute) ==
  /\ ~MustSkip(item)
  /\ faults < MaxFaults
  /\ log' = Append(log, Entry(id, item, minute))
  /\ faults' = faults + 1

Down ==
  /\ up' = FALSE
  /\ items' = [i \in Ids |-> NoItem]
  /\ order' = <<>>
  /\ active' = {}
  /\ thread' = NoThread
  /\ stopping' = FALSE

-----------------------------------------------------------------------------
(* The thread.                                                             *)

\* wait_for has timed out; tick reads the clock and copies the ids.
TickBegin ==
  /\ thread.pc = "wait"
  /\ ~stopping
  /\ order # <<>>
  /\ thread' = [pc |-> "tick", minute |-> now, todo |-> order]
  /\ UNCHANGED <<items, order, disk, now, stopping, up, log, active, loose, edits, fireNows, faults>>

\* Mutant: any other minute than the last one fired for counts as new.
Fires_Again(item, minute) ==
  item.enabled /\ Matches(item.expr, Times[minute])

Fires(item, minute) ==
  /\ item.enabled
  /\ item.lastFired # minute
  /\ Matches(item.expr, Times[minute])

\* The next id of the copy: fired and saved when it is due, else passed over.
TickItem ==
  /\ thread.pc = "tick"
  /\ thread.todo # <<>>
  /\ LET id   == Head(thread.todo)
         item == [items[id] EXCEPT !.lastFired = thread.minute]
     IN  IF Loaded(id) /\ Fires(items[id], thread.minute)
         THEN \/ /\ Fire(id, item, thread.minute)
                 /\ Save(id, items'[id])
                 /\ thread' = [thread EXCEPT !.todo = Tail(@)]
                 /\ UNCHANGED <<order, stopping, up>>
              \/ /\ DieAfterSubmit(id, item, thread.minute)
                 /\ Down
                 /\ UNCHANGED disk
         ELSE /\ thread' = [thread EXCEPT !.todo = Tail(@)]
              /\ UNCHANGED <<items, order, disk, stopping, up, log, active, faults>>
  /\ UNCHANGED <<now, loose, edits, fireNows>>

TickEnd ==
  /\ thread.pc = "tick"
  /\ thread.todo = <<>>
  /\ thread' = IdleThread
  /\ UNCHANGED <<items, order, disk, now, stopping, up, log, active, loose, edits, fireNows, faults>>

-----------------------------------------------------------------------------
(* The API.                                                                *)

Edit ==
  /\ up /\ edits < MaxEdits
  /\ edits' = edits + 1
  /\ UNCHANGED <<now, thread, stopping, up, log, active, fireNows>>

\* A new schedule, unless the text does not parse or the id is taken.
Create(id, source, skip) ==
  /\ Edit
  /\ ParseOk(source)
  /\ ~Loaded(id)
  /\ LET item == [cron |-> source, expr |-> Parse(source), enabled |-> TRUE, skip |-> skip,
                  lastFired |-> 0, lastTest |-> 0,
                  edition |-> edits, created |-> edits]
     IN  /\ items' = [items EXCEPT ![id] = item]
         /\ Save(id, item)
  /\ order' = Append(order, id)
  /\ loose' = IF skip THEN loose \ {id} ELSE loose \cup {id}

\* What update makes of a schedule; a new text may fire in this very minute.
Patched(item, source, enabled, skip) ==
  IF source = item.cron
  THEN [item EXCEPT !.enabled = enabled, !.skip = skip]
  ELSE [item EXCEPT !.enabled = enabled, !.skip = skip, !.cron = source,
                    !.expr = Parse(source), !.lastFired = 0, !.edition = edits]

Update(id, source, enabled, skip) ==
  /\ Edit
  /\ ParseOk(source)
  /\ Loaded(id)
  /\ LET item == Patched(items[id], source, enabled, skip)
     IN  /\ items' = [items EXCEPT ![id] = item]
         /\ Save(id, item)
  /\ loose' = IF skip THEN loose ELSE loose \cup {id}
  /\ UNCHANGED order

RemoveSchedule(id) ==
  /\ Edit
  /\ Loaded(id)
  /\ items' = [items EXCEPT ![id] = NoItem]
  /\ order' = SelectSeq(order, LAMBDA i : i # id)
  /\ disk' = [disk EXCEPT ![id] = NoItem]
  /\ UNCHANGED <<loose, faults>>

\* fireNow: whatever the text says and whether enabled or not.
FireNow(id) ==
  /\ up /\ FoldFunction(LAMBDA a, b : a + b, 0, fireNows) < MaxFireNow
  /\ fireNows' = [fireNows EXCEPT ![id] = @ + 1]
  /\ Loaded(id)
  /\ LET item == [items[id] EXCEPT !.lastFired = now]
     IN  \/ /\ Fire(id, item, 0)
            /\ Save(id, items'[id])
            /\ UNCHANGED <<order, thread, stopping, up>>
         \/ /\ DieAfterSubmit(id, item, 0)
            /\ Down
            /\ UNCHANGED disk
  /\ UNCHANGED <<now, loose, edits>>

-----------------------------------------------------------------------------
(* The clock, the engine, and the life of the process.                     *)

ClockAdvances ==
  /\ now < Len(Times)
  /\ now' = now + 1
  /\ UNCHANGED <<items, order, disk, thread, stopping, up, log, active, loose, edits, fireNows, faults>>

TestEnds(k) ==
  /\ k \in active
  /\ active' = active \ {k}
  /\ UNCHANGED <<items, order, disk, now, thread, stopping, up, log, loose, edits, fireNows, faults>>

StopRequest ==
  /\ up /\ ~stopping
  /\ stopping' = TRUE
  /\ UNCHANGED <<items, order, disk, now, thread, up, log, active, loose, edits, fireNows, faults>>

\* The thread sees the request where it waits and is joined; then the engine
\* ends its tests and the process goes away.
StopJoin ==
  /\ stopping
  /\ thread.pc = "wait"
  /\ Down
  /\ UNCHANGED <<disk, now, log, loose, edits, fireNows, faults>>

Crash ==
  /\ up /\ faults < MaxFaults
  /\ faults' = faults + 1
  /\ Down
  /\ UNCHANGED <<disk, now, log, loose, edits, fireNows>>

\* start: loadAll, then the thread.
Start ==
  /\ ~up
  /\ up' = TRUE
  /\ items' = [i \in Ids |-> IF OnDisk(i) THEN Restored(disk[i]) ELSE NoItem]
  /\ order' = SetToSortSeq({i \in Ids : OnDisk(i)},
                           LAMBDA a, b : disk[a].created < disk[b].created)
  /\ thread' = IdleThread
  /\ UNCHANGED <<disk, now, stopping, log, active, loose, edits, fireNows, faults>>

Next ==
  \/ TickBegin \/ TickItem \/ TickEnd \/ ClockAdvances
  \/ \E k \in active : TestEnds(k)
  \/ \E id \in Ids :
       \/ RemoveSchedule(id) \/ FireNow(id)
       \/ \E source \in Sources, skip \in BOOLEAN :
            \/ Create(id, source, skip)
            \/ \E enabled \in BOOLEAN : Update(id, source, enabled, skip)
  \/ StopRequest \/ StopJoin \/ Crash \/ Start

Spec == Init /\ [][Next]_vars

-----------------------------------------------------------------------------
Automatic == {k \in DOMAIN log : log[k].minute # 0}

\* The thread never submits twice for one minute of one schedule text, however
\* many ticks fall into the minute and whatever is stopped, restarted, updated
\* or fired by hand in between (last_fired_minute and its place in the file).
\* Two things excuse the second submission, and only where they fall between
\* the two: a crash or a failed save, which loses the mark, and a fire by hand
\* of this very schedule, which moves it.
TickOncePerMinute ==
  \A j, k \in Automatic : j < k => log[j] # log[k]

\* A schedule that always asked for it never has two tests at once: the test
\* it submitted last is the only one that can be active (skip_if_running).
NoOverlap ==
  \A id \in Ids \ loose : Loaded(id) =>
    \A k \in active : log[k].id = id /\ log[k].created = items[id].created
                        => k = items[id].lastTest

\* The expression a schedule fires by means what its cron text says, at every
\* minute of the clock: parsed at creation, again on a new text and again from
\* the file after a restart (CronExpr::parse and matches).
CronMeansSource ==
  \A i \in Ids : Loaded(i) =>
    \A t \in DOMAIN Times : Matches(items[i].expr, Times[t]) <=> Due(items[i].cron, Times[t])

=============================================================================
