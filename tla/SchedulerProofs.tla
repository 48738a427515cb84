--------------------------- MODULE SchedulerProofs ---------------------------
(***************************************************************************)
(* Proofs about CronExpr and Scheduler, for any cron sources, any clock    *)
(* and any number of schedules, edits, fires by hand, crashes and failed   *)
(* saves: an expression fires at the minutes its text admits, a minute is  *)
(* submitted once for each text of a schedule, and tests of a schedule     *)
(* that asked for it do not overlap.                                       *)
(***************************************************************************)
EXTENDS Scheduler, SequenceTheorems, TLAPS

-----------------------------------------------------------------------------
(* What an expression matches.                                             *)

\* The bits of one item of a list are the values it admits.
LEMMA ItemMeans ==
  ASSUME NEW i \in FieldItem, NEW min \in Nat, NEW max \in Nat, NEW v \in min..max,
         ItemOk(i, min, max)
  PROVE  v \in ItemBits(i, min, max) <=>
           \/ i.star /\ (v - min) % i.step = 0
           \/ ~i.star /\ v >= i.lo /\ v <= i.hi /\ (v - i.lo) % i.step = 0
<1>1. i.star \in BOOLEAN /\ i.lo \in Nat /\ i.hi \in Nat
  BY DEF FieldItem
<1>2. CASE i.star
  <2>1. ItemBits(i, min, max) = {w \in min..max : (w - min) % i.step = 0}
    BY <1>2 DEF ItemBits
  <2> QED
    BY <1>2, <2>1
<1>3. CASE ~i.star
  <2>1. ItemBits(i, min, max) = {w \in i.lo..i.hi : (w - i.lo) % i.step = 0}
    BY <1>3 DEF ItemBits
  <2>2. v \in i.lo..i.hi <=> v >= i.lo /\ v <= i.hi
    BY <1>1
  <2> QED
    BY <1>3, <2>1, <2>2
<1> QED
  BY <1>1, <1>2, <1>3

\* The bits of a field are the values its text admits.
LEMMA FieldMeans ==
  ASSUME NEW f \in SUBSET FieldItem, NEW min \in Nat, NEW max \in Nat, NEW v \in min..max,
         FieldOk(f, min, max)
  PROVE  v \in FieldBits(f, min, max) <=> Admits(f, min, v)
<1>1. \A i \in f : ItemOk(i, min, max)
  BY DEF FieldOk
<1>2. \A i \in f : v \in ItemBits(i, min, max) <=>
                     \/ i.star /\ (v - min) % i.step = 0
                     \/ ~i.star /\ v >= i.lo /\ v <= i.hi /\ (v - i.lo) % i.step = 0
  BY <1>1, ItemMeans
<1>3. v \in FieldBits(f, min, max) <=> \E i \in f : v \in ItemBits(i, min, max)
  BY Zenon DEF FieldBits
<1> QED
  BY <1>2, <1>3 DEF Admits

\* A star admits every value.
LEMMA StarAdmits ==
  ASSUME NEW min \in Nat, NEW v \in Nat
  PROVE  Admits({Star}, min, v)
<1>1. Star.star = TRUE /\ Star.step = 1
  BY DEF Star
<1>2. (v - min) % 1 = 0
  OBVIOUS
<1> QED
  BY <1>1, <1>2 DEF Admits

\* The weekday bits, with both numbers of Sunday, are the weekdays admitted.
LEMMA WeekdayMeans ==
  ASSUME NEW f \in SUBSET FieldItem, NEW wday \in 0..6, FieldOk(f, 0, 7)
  PROVE  wday \in BothSundays(FieldBits(f, 0, 7)) <=> AdmitsWeekday(f, wday)
<1>1. /\ wday \in FieldBits(f, 0, 7) <=> Admits(f, 0, wday)
      /\ 0 \in FieldBits(f, 0, 7) <=> Admits(f, 0, 0)
      /\ 7 \in FieldBits(f, 0, 7) <=> Admits(f, 0, 7)
  BY FieldMeans
<1> DEFINE bits == FieldBits(f, 0, 7)
<1> HIDE DEF bits
<1>2. wday \in BothSundays(bits) <=> wday \in bits \/ (wday = 0 /\ 7 \in bits)
  BY DEF BothSundays
<1> QED
  BY <1>1, <1>2 DEF AdmitsWeekday, bits

\* The minutes an expression matches are those its source means: the fields as
\* lists of ranges with steps, and, as in Vixie cron, either day when both are
\* restricted (CronExpr::parse, parseField and matches), for every source that
\* parses and every broken-down time.
THEOREM CronMatchesSource ==
  ASSUME NEW c \in CronSource, ParseOk(c), NEW tm \in Moment
  PROVE  Matches(Parse(c), tm) <=> Due(c, tm)
<1> DEFINE e == Parse(c)
           day == Admits(c.dom, 1, tm.mday)
           weekday == AdmitsWeekday(c.dow, tm.wday)
<1>1. /\ c.minute \in SUBSET FieldItem /\ c.hour \in SUBSET FieldItem
      /\ c.dom \in SUBSET FieldItem /\ c.month \in SUBSET FieldItem
      /\ c.dow \in SUBSET FieldItem
  BY DEF CronSource
<1>2. /\ tm.min \in 0..59 /\ tm.hour \in 0..23 /\ tm.mday \in 1..31
      /\ tm.mon \in 1..12 /\ tm.wday \in 0..6
  BY DEF Moment
<1>3. /\ FieldOk(c.minute, 0, 59) /\ FieldOk(c.hour, 0, 23) /\ FieldOk(c.dom, 1, 31)
      /\ FieldOk(c.month, 1, 12) /\ FieldOk(c.dow, 0, 7)
  BY DEF ParseOk
<1>4. /\ e.minute = FieldBits(c.minute, 0, 59) /\ e.hour = FieldBits(c.hour, 0, 23)
      /\ e.dom = FieldBits(c.dom, 1, 31) /\ e.month = FieldBits(c.month, 1, 12)
      /\ e.dow = BothSundays(FieldBits(c.dow, 0, 7))
      /\ e.domAll = (c.dom = {Star}) /\ e.dowAll = (c.dow = {Star})
  BY DEF Parse
<1> HIDE DEF e
<1>5. /\ tm.min \in e.minute <=> Admits(c.minute, 0, tm.min)
      /\ tm.hour \in e.hour <=> Admits(c.hour, 0, tm.hour)
      /\ tm.mon \in e.month <=> Admits(c.month, 1, tm.mon)
      /\ tm.mday \in e.dom <=> day
  BY <1>1, <1>2, <1>3, <1>4, FieldMeans
<1>6. tm.wday \in e.dow <=> weekday
  BY <1>1, <1>2, <1>3, <1>4, WeekdayMeans
<1>7. c.dom = {Star} => day
  BY <1>2, StarAdmits
<1>8. c.dow = {Star} => weekday
  <2>1. Admits({Star}, 0, tm.wday)
    BY <1>2, StarAdmits
  <2> QED
    BY <2>1 DEF AdmitsWeekday
<1>9. {Star} \in {c.dom, c.dow} <=> c.dom = {Star} \/ c.dow = {Star}
  BY Zenon
<1>10. Due(c, tm) <=> /\ tm.min \in e.minute /\ tm.hour \in e.hour /\ tm.mon \in e.month
                      /\ IF c.dom = {Star} \/ c.dow = {Star} THEN day /\ weekday ELSE day \/ weekday
  BY <1>5, <1>9, Zenon DEF Due
<1> HIDE DEF day, weekday
<1>11. Matches(e, tm) <=> /\ tm.min \in e.minute /\ tm.hour \in e.hour /\ tm.mon \in e.month
                          /\ \/ e.domAll /\ e.dowAll
                             \/ e.domAll /\ ~e.dowAll /\ weekday
                             \/ ~e.domAll /\ e.dowAll /\ day
                             \/ ~e.domAll /\ ~e.dowAll /\ (day \/ weekday)
  BY <1>4, <1>5, <1>6 DEF Matches
<1> QED
  BY <1>4, <1>7, <1>8, <1>10, <1>11 DEF e

-----------------------------------------------------------------------------
(* The inductive invariant.                                                *)

Exprs == {Parse(c) : c \in CronSource}

\* What a file keeps of a schedule, and a schedule with the expression its
\* source parses to.
Files ==
  {f \in [cron : CronSource, enabled : BOOLEAN, skip : BOOLEAN, lastFired : Nat,
          lastTest : Nat, edition : Nat, created : Nat] : ParseOk(f.cron)}
Items ==
  {r \in [cron : CronSource, expr : Exprs, enabled : BOOLEAN, skip : BOOLEAN, lastFired : Nat,
          lastTest : Nat, edition : Nat, created : Nat] :
     ParseOk(r.cron) /\ r.expr = Parse(r.cron)}
Entries == [id : Ids, created : Nat, edition : Nat, minute : Nat, byHand : Nat, faults : Nat]

ThreadOK ==
  \E todo : thread = [pc |-> thread.pc, minute |-> thread.minute, todo |-> todo]
  /\ thread.pc \in {"none", "wait", "tick"}
  /\ thread.minute \in Nat

\* The schedules and their files are typed, and so is everything else.
Types ==
  /\ items \in [Ids -> Items \cup {NoItem}]
  /\ disk \in [Ids -> Files \cup {NoItem}]
  /\ now \in Nat \ {0}
  /\ ThreadOK
  /\ stopping \in BOOLEAN /\ up \in BOOLEAN
  /\ log \in Seq(Entries)
  /\ active \subseteq DOMAIN log
  /\ loose \subseteq Ids
  /\ edits \in Nat /\ fireNows \in [Ids -> Nat] /\ faults \in Nat

\* A process that is down has neither schedules nor tests nor thread; one that
\* is up has loaded every file.
DownIsEmpty ==
  ~up => (\A i \in Ids : ~Loaded(i)) /\ active = {} /\ thread.pc = "none"
FilesLoaded ==
  up => \A i \in Ids : OnDisk(i) => Loaded(i)

\* Submissions are from the past: made under a creation, a text, a number of
\* faults and a number of fires by hand that were there already.
LogPast ==
  \A k \in DOMAIN log :
    /\ log[k].created < edits /\ log[k].edition < edits /\ log[k].faults <= faults
    /\ log[k].byHand <= fireNows[log[k].id]

\* The k-th submission was made by the thread, for this text of this schedule,
\* and neither a fault nor a fire of it by hand came since.
MadeFor(k, i, r) ==
  /\ log[k].minute # 0
  /\ log[k].id = i
  /\ log[k].created = r.created
  /\ log[k].edition = r.edition
  /\ log[k].byHand = fireNows[i]
  /\ log[k].faults = faults

\* What is true of a schedule r with id i, in memory or on disk: its numbers
\* are from the past, it never gave up skipping unless it is among the loose
\* ones, and its mark is not behind any submission made for it.
Known(i, r) ==
  /\ r.created < edits /\ r.edition < edits /\ r.lastFired <= now
  /\ i \notin loose => r.skip
  /\ \A k \in DOMAIN log : MadeFor(k, i, r) => log[k].minute <= r.lastFired

ItemsKnown == \A i \in Ids : Loaded(i) => Known(i, items[i])
FilesKnown == \A i \in Ids : OnDisk(i) => Known(i, disk[i])

\* The minute of a tick is one the clock has shown.  A mark is beyond it only
\* after a fire by hand, until the thread submits for that schedule again.
TickNotBehind ==
  thread.pc = "tick" =>
    /\ thread.minute \in 1..now
    /\ \A i \in Ids : \A k \in DOMAIN log :
         Loaded(i) /\ MadeFor(k, i, items[i]) => items[i].lastFired <= thread.minute

\* TickOncePerMinute is about the log alone.  What makes it inductive is the
\* mark: it is carried through memory, file, restart and edit, and lags behind
\* the log only where a fault or a fire by hand of that schedule excuses it.
Inv ==
  /\ Types
  /\ DownIsEmpty
  /\ FilesLoaded
  /\ LogPast
  /\ ItemsKnown
  /\ FilesKnown
  /\ TickNotBehind
  /\ TickOncePerMinute
  /\ NoOverlap

-----------------------------------------------------------------------------
(* Schedules, files and submissions as records.                            *)

LEMMA FieldsOfItem ==
  ASSUME NEW r \in Items
  PROVE  /\ r # NoItem
         /\ r.cron \in CronSource /\ r.expr \in Exprs /\ r.enabled \in BOOLEAN /\ r.skip \in BOOLEAN
         /\ r.lastFired \in Nat /\ r.lastTest \in Nat /\ r.edition \in Nat /\ r.created \in Nat
         /\ ParseOk(r.cron) /\ r.expr = Parse(r.cron)
<1>1. r.cron \in CronSource /\ r.expr \in Exprs /\ r.enabled \in BOOLEAN /\ r.skip \in BOOLEAN
  BY DEF Items
<1>2. r.lastFired \in Nat /\ r.lastTest \in Nat /\ r.edition \in Nat /\ r.created \in Nat
  BY DEF Items
<1>3. r # NoItem
  <2>1. "cron" \in DOMAIN r
    BY DEF Items
  <2>2. "cron" \notin DOMAIN NoItem
    BY DEF NoItem
  <2> QED
    BY <2>1, <2>2
<1>4. ParseOk(r.cron) /\ r.expr = Parse(r.cron)
  BY DEF Items
<1> QED
  BY <1>1, <1>2, <1>3, <1>4

LEMMA FieldsOfFile ==
  ASSUME NEW f \in Files
  PROVE  /\ f # NoItem
         /\ f.cron \in CronSource /\ f.enabled \in BOOLEAN /\ f.skip \in BOOLEAN
         /\ f.lastFired \in Nat /\ f.lastTest \in Nat /\ f.edition \in Nat /\ f.created \in Nat
         /\ ParseOk(f.cron)
<1>1. /\ f.cron \in CronSource /\ f.enabled \in BOOLEAN /\ f.skip \in BOOLEAN
      /\ f.lastFired \in Nat /\ f.lastTest \in Nat /\ f.edition \in Nat /\ f.created \in Nat
  BY DEF Files
<1>2. f # NoItem
  <2>1. "cron" \in DOMAIN f
    BY DEF Files
  <2>2. "cron" \notin DOMAIN NoItem
    BY DEF NoItem
  <2> QED
    BY <2>1, <2>2
<1> QED
  BY <1>1, <1>2 DEF Files

\* toJson keeps everything but the expression.
LEMMA StoredIs ==
  ASSUME NEW r \in Items
  PROVE  /\ Stored(r) \in Files
         /\ Stored(r).cron = r.cron /\ Stored(r).skip = r.skip /\ Stored(r).lastFired = r.lastFired
         /\ Stored(r).edition = r.edition /\ Stored(r).created = r.created
<1> DEFINE Names == {"cron", "enabled", "skip", "lastFired", "lastTest", "edition", "created"}
<1>1. DOMAIN r \ {"expr"} = Names
  BY DEF Items
<1>2. Stored(r) = [f \in Names |-> r[f]]
  BY <1>1 DEF Stored
<1>3. Stored(r) = [cron |-> r.cron, enabled |-> r.enabled, skip |-> r.skip, lastFired |-> r.lastFired,
                   lastTest |-> r.lastTest, edition |-> r.edition, created |-> r.created]
  BY <1>2
<1> HIDE DEF Names
<1> QED
  BY <1>3, FieldsOfItem DEF Files

\* fromJson brings the expression back.
LEMMA RestoredIs ==
  ASSUME NEW f \in Files
  PROVE  /\ Restored(f) \in Items
         /\ Restored(f).skip = f.skip /\ Restored(f).lastFired = f.lastFired
         /\ Restored(f).edition = f.edition /\ Restored(f).created = f.created
<1> DEFINE Names == {"cron", "enabled", "skip", "lastFired", "lastTest", "edition", "created", "expr"}
<1>1. DOMAIN f \cup {"expr"} = Names
  BY DEF Files
<1>2. Restored(f) = [n \in Names |-> IF n = "expr" THEN Parse(f.cron) ELSE f[n]]
  BY <1>1 DEF Restored
<1>3. Restored(f) = [cron |-> f.cron, expr |-> Parse(f.cron), enabled |-> f.enabled, skip |-> f.skip,
                     lastFired |-> f.lastFired, lastTest |-> f.lastTest, edition |-> f.edition,
                     created |-> f.created]
  BY <1>2
<1> HIDE DEF Names
<1>4. Parse(f.cron) \in Exprs
  BY FieldsOfFile DEF Exprs
<1> QED
  BY <1>3, <1>4, FieldsOfFile DEF Items

\* A schedule with its mark moved, or with a new test, is a schedule.
LEMMA MarkedIs ==
  ASSUME NEW r \in Items, NEW m \in Nat, NEW n \in Nat
  PROVE  /\ [r EXCEPT !.lastFired = m] \in Items
         /\ [[r EXCEPT !.lastFired = m] EXCEPT !.lastTest = n] \in Items
BY DEF Items

\* update leaves creation and, with the text, the mark and the edition alone.
LEMMA PatchedIs ==
  ASSUME NEW r \in Items, NEW c \in CronSource, ParseOk(c), NEW enabled \in BOOLEAN,
         NEW skip \in BOOLEAN, edits \in Nat
  PROVE  LET p == Patched(r, c, enabled, skip) IN
         /\ p \in Items
         /\ p.created = r.created /\ p.skip = skip /\ p.lastTest = r.lastTest
         /\ \/ p.edition = r.edition /\ p.lastFired = r.lastFired
            \/ p.edition = edits /\ p.lastFired = 0
<1>1. Parse(c) \in Exprs
  BY DEF Exprs
<1>2. CASE c = r.cron
  <2>1. Patched(r, c, enabled, skip) = [r EXCEPT !.enabled = enabled, !.skip = skip]
    BY <1>2 DEF Patched
  <2> QED
    BY <2>1 DEF Items
<1>3. CASE c # r.cron
  <2>1. Patched(r, c, enabled, skip) =
          [r EXCEPT !.enabled = enabled, !.skip = skip, !.cron = c,
                    !.expr = Parse(c), !.lastFired = 0, !.edition = edits]
    BY <1>3 DEF Patched
  <2>2. Patched(r, c, enabled, skip) =
          [cron |-> c, expr |-> Parse(c), enabled |-> enabled, skip |-> skip, lastFired |-> 0,
           lastTest |-> r.lastTest, edition |-> edits, created |-> r.created]
    BY <2>1 DEF Items
  <2>3. Patched(r, c, enabled, skip) \in Items
    BY <1>1, <2>2, FieldsOfItem DEF Items
  <2> QED
    BY <2>2, <2>3
<1> QED
  BY <1>2, <1>3

\* A submission goes to the end of the log.
LEMMA AppendedIs ==
  ASSUME log \in Seq(Entries), NEW e \in Entries, log' = Append(log, e)
  PROVE  /\ log' \in Seq(Entries)
         /\ Len(log) \in Nat
         /\ DOMAIN log = 1..Len(log) /\ DOMAIN log' = 1..(Len(log) + 1)
         /\ \A k \in DOMAIN log : log'[k] = log[k]
         /\ log'[Len(log) + 1] = e
BY AppendProperties, LenProperties

-----------------------------------------------------------------------------
(* What a step leaves true.                                                *)

\* The log stays as it is, or one submission is made under the present faults
\* and fires by hand.
LogSteps ==
  \/ log' = log
  \/ \E e \in Entries : /\ log' = Append(log, e)
                        /\ e.faults = faults /\ e.byHand = fireNows[e.id]

\* Faults and fires by hand are only counted up.
CountsUp ==
  /\ faults' \in Nat /\ faults <= faults'
  /\ fireNows' \in [Ids -> Nat] /\ \A i \in Ids : fireNows[i] <= fireNows'[i]

\* What is made for a schedule after a step was made for it before, or is the
\* submission of the step, and the step is neither a fault nor a fire by hand.
LEMMA MadeBefore ==
  ASSUME Types, LogPast, LogSteps, CountsUp, NEW i \in Ids, NEW r,
         NEW k \in DOMAIN log', MadeFor(k, i, r)'
  PROVE  /\ faults' = faults /\ fireNows'[i] = fireNows[i]
         /\ k \in DOMAIN log => log'[k] = log[k] /\ MadeFor(k, i, r)
         /\ k \notin DOMAIN log => log'[k] \in Entries /\ log' = Append(log, log'[k])
<1>1. /\ faults \in Nat /\ faults' \in Nat /\ fireNows \in [Ids -> Nat] /\ fireNows' \in [Ids -> Nat]
      /\ faults <= faults' /\ fireNows[i] <= fireNows'[i] /\ log \in Seq(Entries)
  BY DEF Types, CountsUp
<1>2. /\ log'[k].minute # 0 /\ log'[k].id = i /\ log'[k].created = r.created
      /\ log'[k].edition = r.edition /\ log'[k].byHand = fireNows'[i] /\ log'[k].faults = faults'
  BY DEF MadeFor
<1>3. ASSUME k \in DOMAIN log, log'[k] = log[k]
      PROVE  faults' = faults /\ fireNows'[i] = fireNows[i] /\ MadeFor(k, i, r)
  <2>1. log[k] \in Entries
    BY <1>1, <1>3, ElementOfSeq
  <2>2. log[k].faults \in Nat /\ log[k].byHand \in Nat
    BY <2>1 DEF Entries
  <2>3. log[k].faults <= faults /\ log[k].byHand <= fireNows[i]
    BY <1>2, <1>3 DEF LogPast
  <2>4. faults' = faults /\ fireNows'[i] = fireNows[i]
    BY <1>1, <1>2, <1>3, <2>2, <2>3
  <2> QED
    BY <1>2, <1>3, <2>4 DEF MadeFor
<1>4. CASE log' = log
  BY <1>3, <1>4
<1>5. ASSUME NEW e \in Entries, log' = Append(log, e), e.faults = faults, e.byHand = fireNows[e.id]
      PROVE  /\ faults' = faults /\ fireNows'[i] = fireNows[i]
             /\ k \in DOMAIN log => log'[k] = log[k] /\ MadeFor(k, i, r)
             /\ k \notin DOMAIN log => log'[k] \in Entries /\ log' = Append(log, log'[k])
  <2>1. /\ DOMAIN log = 1..Len(log) /\ DOMAIN log' = 1..(Len(log) + 1) /\ Len(log) \in Nat
        /\ \A j \in DOMAIN log : log'[j] = log[j]
        /\ log'[Len(log) + 1] = e
    BY <1>1, <1>5, AppendedIs
  <2>2. CASE k \in DOMAIN log
    BY <1>3, <2>1, <2>2
  <2>3. CASE k \notin DOMAIN log
    <3>1. k = Len(log) + 1
      BY <2>1, <2>3
    <3>2. log'[k] = e
      BY <2>1, <3>1
    <3> QED
      BY <1>2, <1>5, <2>3, <3>2
  <2> QED
    BY <2>2, <2>3
<1> QED
  BY <1>4, <1>5 DEF LogSteps

\* Numbers only grow, a schedule becomes loose and stays so, and whatever is
\* submitted for a schedule whose mark does not say so comes with a fault or a
\* fire of it by hand.
LEMMA KnownKept ==
  ASSUME NEW i \in Ids, NEW r, Known(i, r), r.created \in Nat, r.edition \in Nat, r.lastFired \in Nat,
         Types, LogPast, LogSteps, CountsUp,
         edits' \in Nat, edits <= edits', now' \in Nat, now <= now',
         i \notin loose' => i \notin loose,
         \/ log' = log
         \/ \A e \in Entries : log' = Append(log, e) =>
              \/ fireNows'[i] # fireNows[i] \/ faults' # faults \/ e.id # i \/ e.created # r.created
              \/ e.edition # r.edition \/ e.minute <= r.lastFired
  PROVE  Known(i, r)'
<1>1. edits \in Nat /\ now \in Nat
  BY DEF Types
<1>2. r.created < edits' /\ r.edition < edits' /\ r.lastFired <= now' /\ (i \notin loose' => r.skip)
  BY <1>1 DEF Known
<1>3. ASSUME NEW k \in DOMAIN log', MadeFor(k, i, r)'
      PROVE  log'[k].minute <= r.lastFired
  <2>1. /\ faults' = faults /\ fireNows'[i] = fireNows[i]
        /\ k \in DOMAIN log => log'[k] = log[k] /\ MadeFor(k, i, r)
        /\ k \notin DOMAIN log => log'[k] \in Entries /\ log' = Append(log, log'[k])
    BY <1>3, MadeBefore
  <2>2. CASE k \in DOMAIN log
    BY <2>1, <2>2 DEF Known
  <2>3. CASE k \notin DOMAIN log
    <3>1. log'[k].id = i /\ log'[k].created = r.created /\ log'[k].edition = r.edition
      BY <1>3 DEF MadeFor
    <3> QED
      BY <2>1, <2>3, <3>1
  <2> QED
    BY <2>2, <2>3
<1> QED
  BY <1>2, <1>3 DEF Known

\* A tick that goes on keeps its minute; a schedule in it stays as it was, or
\* has a mark not beyond that minute, or nothing is made for it.
LEMMA TickKept ==
  ASSUME Types, LogPast, TickNotBehind, LogSteps, CountsUp, now' = now,
         thread'.pc = "tick" => thread.pc = "tick" /\ thread'.minute = thread.minute,
         \A i \in Ids : Loaded(i)' =>
           \/ /\ Loaded(i) /\ items'[i] = items[i]
              /\ log' = log \/ \A e \in Entries : log' = Append(log, e) => e.id # i
           \/ thread'.pc = "tick" => items'[i].lastFired <= thread.minute
           \/ \A k \in DOMAIN log' : ~MadeFor(k, i, items[i])'
  PROVE  TickNotBehind'
<1> SUFFICES ASSUME thread'.pc = "tick", NEW i \in Ids, NEW k \in DOMAIN log', Loaded(i)',
                    MadeFor(k, i, items[i])'
             PROVE  items'[i].lastFired <= thread.minute
  BY DEF TickNotBehind
<1>1. PICK r : r = items'[i]
  OBVIOUS
<1>2. MadeFor(k, i, r)'
  BY <1>1 DEF MadeFor
<1>3. CASE /\ Loaded(i) /\ items'[i] = items[i]
           /\ log' = log \/ \A e \in Entries : log' = Append(log, e) => e.id # i
  <2>1. /\ k \in DOMAIN log => MadeFor(k, i, r)
        /\ k \notin DOMAIN log => log'[k] \in Entries /\ log' = Append(log, log'[k])
    BY <1>2, MadeBefore
  <2>2. log'[k].id = i
    BY <1>2 DEF MadeFor
  <2>3. k \in DOMAIN log /\ MadeFor(k, i, items[i])
    BY <1>1, <1>3, <2>1, <2>2
  <2> QED
    BY <1>3, <2>3 DEF TickNotBehind
<1> QED
  BY <1>2, <1>3 DEF MadeFor

\* What an action that leaves the log alone does to it: nothing is submitted
\* twice, and everything submitted is still from the past.
LEMMA LogKept ==
  ASSUME Types, LogPast, TickOncePerMinute, log' = log,
         edits' \in Nat, edits <= edits', CountsUp
  PROVE  LogPast' /\ TickOncePerMinute'
<1>1. /\ edits \in Nat /\ faults \in Nat /\ faults' \in Nat /\ faults <= faults'
      /\ fireNows \in [Ids -> Nat] /\ fireNows' \in [Ids -> Nat]
      /\ \A i \in Ids : fireNows[i] <= fireNows'[i]
      /\ log \in Seq(Entries)
  BY DEF Types, CountsUp
<1>2. ASSUME NEW k \in DOMAIN log
      PROVE  /\ log[k].created \in Nat /\ log[k].edition \in Nat /\ log[k].faults \in Nat
             /\ log[k].byHand \in Nat /\ log[k].id \in Ids
  <2>1. log[k] \in Entries
    BY <1>1, ElementOfSeq
  <2> QED
    BY <2>1 DEF Entries
<1>3. LogPast'
  <2> SUFFICES ASSUME NEW k \in DOMAIN log
               PROVE  /\ log[k].created < edits' /\ log[k].edition < edits' /\ log[k].faults <= faults'
                      /\ log[k].byHand <= fireNows'[log[k].id]
    BY DEF LogPast
  <2>1. /\ log[k].created < edits /\ log[k].edition < edits /\ log[k].faults <= faults
        /\ log[k].byHand <= fireNows[log[k].id]
    BY DEF LogPast
  <2>2. PICK i \in Ids : i = log[k].id
    BY <1>2
  <2>3. fireNows[i] \in Nat /\ fireNows'[i] \in Nat /\ fireNows[i] <= fireNows'[i]
    BY <1>1
  <2> QED
    BY <1>1, <1>2, <2>1, <2>2, <2>3
<1>4. TickOncePerMinute'
  BY DEF TickOncePerMinute, Automatic
<1> QED
  BY <1>3, <1>4

\* A schedule that stays as it is stays known; so does its file.
LEMMA StaysKnown ==
  ASSUME Types, LogPast, ItemsKnown, FilesKnown, NEW i \in Ids, log' = log,
         edits' \in Nat, edits <= edits', now' \in Nat, now <= now', CountsUp,
         i \notin loose' => i \notin loose
  PROVE  /\ Loaded(i) => Known(i, items[i])'  \/ items'[i] # items[i]
         /\ OnDisk(i) => Known(i, disk[i])' \/ disk'[i] # disk[i]
<1>1. Loaded(i) => items[i] \in Items
  BY DEF Types, Loaded
<1>2. OnDisk(i) => disk[i] \in Files
  BY DEF Types, OnDisk
<1>3. ASSUME NEW r, r \in Items \cup Files, Known(i, r) PROVE Known(i, r)'
  <2>1. r.created \in Nat /\ r.edition \in Nat /\ r.lastFired \in Nat
    BY <1>3, FieldsOfItem, FieldsOfFile
  <2> QED
    BY <1>3, <2>1, KnownKept DEF LogSteps
<1>4. ASSUME Loaded(i), items'[i] = items[i] PROVE Known(i, items[i])'
  <2>1. PICK r : r = items[i]
    OBVIOUS
  <2>2. Known(i, r)'
    BY <1>1, <1>3, <1>4, <2>1 DEF ItemsKnown
  <2> QED
    BY <1>4, <2>1, <2>2
<1>5. ASSUME OnDisk(i), disk'[i] = disk[i] PROVE Known(i, disk[i])'
  <2>1. PICK r : r = disk[i]
    OBVIOUS
  <2>2. Known(i, r)'
    BY <1>2, <1>3, <1>5, <2>1 DEF FilesKnown
  <2> QED
    BY <1>5, <2>1, <2>2
<1> QED
  BY <1>4, <1>5

\* What a submission does to the log: it is unlike all others of its kind.
LEMMA LogGrows ==
  ASSUME Types, LogPast, TickOncePerMinute, CountsUp, NEW e \in Entries, log' = Append(log, e),
         e.faults = faults, e.byHand = fireNows[e.id],
         e.created < edits, e.edition < edits, edits' = edits,
         e.minute # 0 => \A k \in DOMAIN log : log[k] # e
  PROVE  log' \in Seq(Entries) /\ LogPast' /\ TickOncePerMinute'
<1>1. /\ edits \in Nat /\ faults \in Nat /\ faults' \in Nat /\ faults <= faults'
      /\ fireNows \in [Ids -> Nat] /\ fireNows' \in [Ids -> Nat]
      /\ \A i \in Ids : fireNows[i] <= fireNows'[i]
      /\ log \in Seq(Entries)
  BY DEF Types, CountsUp
<1>2. /\ log' \in Seq(Entries) /\ Len(log) \in Nat
      /\ DOMAIN log = 1..Len(log) /\ DOMAIN log' = 1..(Len(log) + 1)
      /\ \A k \in DOMAIN log : log'[k] = log[k]
      /\ log'[Len(log) + 1] = e
  BY <1>1, AppendedIs
<1>3. LogPast'
  <2> SUFFICES ASSUME NEW k \in DOMAIN log'
               PROVE  /\ log'[k].created < edits' /\ log'[k].edition < edits'
                      /\ log'[k].faults <= faults' /\ log'[k].byHand <= fireNows'[log'[k].id]
    BY DEF LogPast
  <2>1. PICK x \in Entries : x = log'[k]
    BY <1>2, ElementOfSeq
  <2>2. x.faults <= faults /\ x.byHand <= fireNows[x.id] /\ x.created < edits /\ x.edition < edits
    <3>1. CASE k \in DOMAIN log
      BY <1>2, <2>1, <3>1 DEF LogPast
    <3>2. CASE k \notin DOMAIN log
      <4>1. x = e
        BY <1>2, <2>1, <3>2
      <4>2. fireNows[e.id] \in Nat
        BY <1>1 DEF Entries
      <4> QED
        BY <1>1, <4>1, <4>2
    <3> QED
      BY <3>1, <3>2
  <2>3. /\ x.faults \in Nat /\ x.byHand \in Nat
        /\ fireNows[x.id] \in Nat /\ fireNows'[x.id] \in Nat /\ fireNows[x.id] <= fireNows'[x.id]
    BY <1>1 DEF Entries
  <2> QED
    BY <1>1, <2>1, <2>2, <2>3
<1>4. TickOncePerMinute'
  <2> SUFFICES ASSUME NEW j \in DOMAIN log', NEW k \in DOMAIN log', log'[k].minute # 0,
                      j < k, log'[j] = log'[k]
               PROVE  FALSE
    BY DEF TickOncePerMinute, Automatic
  <2>1. j \in DOMAIN log
    BY <1>2
  <2>2. CASE k \in DOMAIN log
    <3>1. log[j] = log[k] /\ log[k].minute # 0
      BY <1>2, <2>1, <2>2
    <3> QED
      BY <2>1, <2>2, <3>1 DEF TickOncePerMinute, Automatic
  <2>3. CASE k \notin DOMAIN log
    <3>1. log'[k] = e /\ log'[j] = log[j]
      BY <1>2, <2>1, <2>3
    <3> QED
      BY <2>1, <3>1
  <2> QED
    BY <2>2, <2>3
<1> QED
  BY <1>2, <1>3, <1>4

-----------------------------------------------------------------------------
(* Steps that leave the schedules alone.                                   *)

LEMMA SameSchedules ==
  ASSUME Inv, UNCHANGED <<items, disk, up, log, loose, edits, fireNows, faults>>,
         now' \in Nat, now <= now', active' \subseteq active, stopping' \in BOOLEAN,
         ThreadOK', ~up => thread'.pc = "none", TickNotBehind'
  PROVE  Inv'
<1> USE DEF Inv
<1>1. now \in Nat /\ edits \in Nat /\ CountsUp
  BY DEF Types, CountsUp
<1>2. Types'
  BY DEF Types
<1>3. DownIsEmpty' /\ FilesLoaded'
  BY DEF DownIsEmpty, FilesLoaded, Loaded, OnDisk
<1>4. LogPast' /\ TickOncePerMinute'
  BY <1>1, LogKept
<1>5. ItemsKnown' /\ FilesKnown'
  <2>1. ASSUME NEW i \in Ids
        PROVE  (Loaded(i) => Known(i, items[i])') /\ (OnDisk(i) => Known(i, disk[i])')
    BY <1>1, StaysKnown
  <2> QED
    BY <2>1 DEF ItemsKnown, FilesKnown, Loaded, OnDisk
<1>6. NoOverlap'
  BY DEF NoOverlap, Loaded
<1> QED
  BY <1>2, <1>3, <1>4, <1>5, <1>6

LEMMA QuietInv ==
  ASSUME Inv, \/ TickBegin \/ TickEnd \/ ClockAdvances \/ StopRequest \/ UNCHANGED vars
              \/ \E k \in active : TestEnds(k)
  PROVE  Inv'
<1>1. Types /\ ThreadOK /\ now \in Nat /\ now # 0 /\ TickNotBehind /\ DownIsEmpty
  BY DEF Inv, Types
<1>2. CASE TickBegin
  <2>1. thread' = [pc |-> "tick", minute |-> now, todo |-> order] /\ thread.pc = "wait"
    BY <1>2 DEF TickBegin
  <2>2. thread'.pc = "tick" /\ thread'.minute = now
    BY <2>1
  <2>3. ThreadOK'
    BY <1>1, <2>1, <2>2 DEF ThreadOK
  <2>4. ASSUME NEW i \in Ids, Loaded(i) PROVE items[i].lastFired <= now
    BY <2>4 DEF Inv, ItemsKnown, Known
  <2>5. TickNotBehind'
    BY <1>1, <1>2, <2>2, <2>4 DEF TickBegin, TickNotBehind, Loaded, MadeFor
  <2>6. /\ UNCHANGED <<items, disk, up, log, loose, edits, fireNows, faults, now, active, stopping>>
        /\ ~up => FALSE
    BY <1>1, <1>2, <2>1 DEF TickBegin, DownIsEmpty
  <2> QED
    BY <1>1, <2>3, <2>5, <2>6, SameSchedules DEF Types
<1>3. CASE TickEnd
  <2>1. thread' = [pc |-> "wait", minute |-> 0, todo |-> <<>>] /\ thread.pc = "tick"
    BY <1>3 DEF TickEnd, IdleThread
  <2>2. ThreadOK' /\ TickNotBehind'
    BY <2>1 DEF ThreadOK, TickNotBehind
  <2>3. /\ UNCHANGED <<items, disk, up, log, loose, edits, fireNows, faults, now, active, stopping>>
        /\ ~up => FALSE
    BY <1>1, <1>3, <2>1 DEF TickEnd, DownIsEmpty
  <2> QED
    BY <1>1, <2>2, <2>3, SameSchedules DEF Types
<1>4. CASE ClockAdvances
  <2>1. /\ UNCHANGED <<items, disk, up, log, loose, edits, fireNows, faults, active, stopping, thread>>
        /\ now' = now + 1
    BY <1>4 DEF ClockAdvances
  <2>2. ThreadOK' /\ TickNotBehind'
    BY <1>1, <2>1 DEF ThreadOK, TickNotBehind, Loaded, MadeFor
  <2> QED
    BY <1>1, <2>1, <2>2, SameSchedules DEF Types, DownIsEmpty
<1>5. CASE \/ StopRequest \/ UNCHANGED vars \/ \E k \in active : TestEnds(k)
  <2>1. /\ UNCHANGED <<items, disk, up, log, loose, edits, fireNows, faults, now, thread>>
        /\ active' \subseteq active /\ stopping' \in BOOLEAN
    BY <1>1, <1>5 DEF StopRequest, TestEnds, vars, Types
  <2>2. ThreadOK' /\ TickNotBehind'
    BY <1>1, <2>1 DEF ThreadOK, TickNotBehind, Loaded, MadeFor
  <2> QED
    BY <1>1, <2>1, <2>2, SameSchedules DEF DownIsEmpty
<1> QED
  BY <1>2, <1>3, <1>4, <1>5

-----------------------------------------------------------------------------
(* The end of the process and its start.                                   *)

\* What is left of a process that goes away: its files and its submissions.
LEMMA GoneInv ==
  ASSUME Inv, Down, UNCHANGED <<disk, now, loose, edits>>, CountsUp, LogSteps,
         log' \in Seq(Entries), DOMAIN log \subseteq DOMAIN log', LogPast', TickOncePerMinute',
         log' = log \/ faults' # faults
  PROVE  Inv'
<1> USE DEF Inv
<1>1. /\ items' = [i \in Ids |-> NoItem] /\ active' = {} /\ up' = FALSE /\ stopping' = FALSE
      /\ thread' = [pc |-> "none", minute |-> 0, todo |-> <<>>]
  BY DEF Down, NoThread, IdleThread
<1>2. \A i \in Ids : ~Loaded(i)'
  BY <1>1 DEF Loaded
<1>3. thread'.pc = "none" /\ ThreadOK'
  BY <1>1 DEF ThreadOK
<1>4. Types'
  BY <1>1, <1>3 DEF Types, CountsUp
<1>5. DownIsEmpty' /\ FilesLoaded' /\ ItemsKnown' /\ TickNotBehind' /\ NoOverlap'
  BY <1>1, <1>2, <1>3 DEF DownIsEmpty, FilesLoaded, ItemsKnown, TickNotBehind, NoOverlap
<1>6. FilesKnown'
  <2> SUFFICES ASSUME NEW i \in Ids, OnDisk(i) PROVE Known(i, disk[i])'
    BY DEF FilesKnown, OnDisk
  <2>1. PICK f : f = disk[i]
    OBVIOUS
  <2>2. f \in Files /\ Known(i, f)
    BY <2>1 DEF Types, OnDisk, FilesKnown
  <2>3. f.created \in Nat /\ f.edition \in Nat /\ f.lastFired \in Nat
    BY <2>2, FieldsOfFile
  <2>4. now \in Nat /\ edits \in Nat
    BY DEF Types
  <2>5. Known(i, f)'
    BY <2>2, <2>3, <2>4, KnownKept
  <2> QED
    BY <2>1, <2>5
<1> QED
  BY <1>4, <1>5, <1>6

LEMMA EndInv ==
  ASSUME Inv, StopJoin \/ Crash
  PROVE  Inv'
<1>1. /\ Down /\ UNCHANGED <<disk, now, log, loose, edits, fireNows>>
      /\ faults' = faults \/ faults' = faults + 1
  BY DEF StopJoin, Crash
<1>2. /\ faults \in Nat /\ fireNows \in [Ids -> Nat] /\ edits \in Nat /\ log \in Seq(Entries)
      /\ Types /\ LogPast /\ TickOncePerMinute
  BY DEF Inv, Types
<1>3. CountsUp
  BY <1>1, <1>2 DEF CountsUp
<1>4. LogPast' /\ TickOncePerMinute'
  BY <1>1, <1>2, <1>3, LogKept
<1> QED
  BY <1>1, <1>2, <1>3, <1>4, GoneInv DEF LogSteps

LEMMA StartInv ==
  ASSUME Inv, Start
  PROVE  Inv'
<1> USE DEF Inv
<1>1. /\ ~up /\ up'
      /\ items' = [i \in Ids |-> IF OnDisk(i) THEN Restored(disk[i]) ELSE NoItem]
      /\ thread' = [pc |-> "wait", minute |-> 0, todo |-> <<>>]
      /\ UNCHANGED <<disk, now, stopping, log, active, loose, edits, fireNows, faults>>
      /\ up' = TRUE
  BY DEF Start, IdleThread
<1>2. ASSUME NEW i \in Ids, OnDisk(i)
      PROVE  disk[i] \in Files /\ Restored(disk[i]) \in Items /\ items'[i] = Restored(disk[i])
  <2>1. disk[i] \in Files
    BY <1>2 DEF Types, OnDisk
  <2> QED
    BY <1>1, <1>2, <2>1, RestoredIs
<1>3. \A i \in Ids : Loaded(i)' <=> OnDisk(i)
  <2> TAKE i \in Ids
  <2>1. CASE OnDisk(i)
    <3>1. items'[i] # NoItem
      BY <1>2, <2>1, FieldsOfItem
    <3> QED
      BY <2>1, <3>1 DEF Loaded
  <2>2. CASE ~OnDisk(i)
    BY <1>1, <2>2 DEF Loaded
  <2> QED
    BY <2>1, <2>2
<1>4. Types'
  <2>1. items' \in [Ids -> Items \cup {NoItem}]
    BY <1>1, <1>2
  <2>2. ThreadOK'
    BY <1>1 DEF ThreadOK
  <2> QED
    BY <1>1, <2>1, <2>2 DEF Types
<1>5. DownIsEmpty' /\ FilesLoaded' /\ TickNotBehind'
  BY <1>1, <1>3 DEF DownIsEmpty, FilesLoaded, TickNotBehind, OnDisk
<1>6. LogPast' /\ TickOncePerMinute' /\ FilesKnown'
  BY <1>1 DEF LogPast, TickOncePerMinute, Automatic, FilesKnown, Known, MadeFor, OnDisk
<1>7. ItemsKnown'
  <2> SUFFICES ASSUME NEW i \in Ids, OnDisk(i) PROVE Known(i, items[i])'
    BY <1>3 DEF ItemsKnown
  <2>1. PICK f : f = disk[i]
    OBVIOUS
  <2>2. PICK r : r = items'[i]
    OBVIOUS
  <2>3. f \in Files /\ r = Restored(f) /\ Known(i, f)
    BY <1>2, <2>1, <2>2 DEF FilesKnown
  <2>4. r.skip = f.skip /\ r.lastFired = f.lastFired /\ r.edition = f.edition /\ r.created = f.created
    BY <2>3, RestoredIs
  <2>5. Known(i, r)'
    BY <1>1, <2>3, <2>4 DEF Known, MadeFor
  <2> QED
    BY <2>2, <2>5
<1>8. NoOverlap'
  <2>1. active' = {}
    BY <1>1 DEF DownIsEmpty
  <2> QED
    BY <2>1 DEF NoOverlap
<1> QED
  BY <1>4, <1>5, <1>6, <1>7, <1>8

-----------------------------------------------------------------------------
(* Steps that write one schedule and its file.                             *)

LEMMA SavedInv ==
  ASSUME Inv, up, up' = TRUE, NEW id \in Ids, NEW r \in Items, items' = [items EXCEPT ![id] = r],
         Save(id, r), Known(id, r)', now' = now,
         edits' \in Nat, edits <= edits',
         fireNows' \in [Ids -> Nat], \A i \in Ids : fireNows[i] <= fireNows'[i],
         \A i \in Ids : i \notin loose' => i \notin loose \/ (i = id /\ ~OnDisk(id)),
         LogSteps, log' = log \/ \A e \in Entries : log' = Append(log, e) => e.id = id
  PROVE  /\ items' \in [Ids -> Items \cup {NoItem}] /\ disk' \in [Ids -> Files \cup {NoItem}]
         /\ CountsUp
         /\ \A i \in Ids : Loaded(i)' <=> (Loaded(i) \/ i = id)
         /\ DownIsEmpty' /\ FilesLoaded' /\ ItemsKnown' /\ FilesKnown'
<1> USE DEF Inv
<1>1. /\ items \in [Ids -> Items \cup {NoItem}] /\ disk \in [Ids -> Files \cup {NoItem}]
      /\ faults \in Nat /\ now \in Nat /\ edits \in Nat /\ fireNows \in [Ids -> Nat]
      /\ Types /\ LogPast
  BY DEF Types
<1>2. PICK f : f = Stored(r)
  OBVIOUS
<1>3. /\ f \in Files /\ f.skip = r.skip /\ f.lastFired = r.lastFired
      /\ f.edition = r.edition /\ f.created = r.created
  BY <1>2, StoredIs
<1>4. \/ disk' = [disk EXCEPT ![id] = f] /\ faults' = faults
      \/ disk' = disk /\ faults' = faults + 1
  BY <1>2 DEF Save
<1>5. CountsUp
  BY <1>1, <1>4 DEF CountsUp
<1>6. items' \in [Ids -> Items \cup {NoItem}] /\ disk' \in [Ids -> Files \cup {NoItem}]
  BY <1>1, <1>3, <1>4
<1>7. items'[id] = r /\ \A i \in Ids \ {id} : items'[i] = items[i] /\ disk'[i] = disk[i]
  BY <1>1, <1>4
<1>8. r # NoItem
  BY FieldsOfItem
<1>9. \A i \in Ids : Loaded(i)' <=> (Loaded(i) \/ i = id)
  BY <1>7, <1>8 DEF Loaded
<1>10. \A i \in Ids : OnDisk(i)' => OnDisk(i) \/ i = id
  BY <1>7 DEF OnDisk
<1>11. DownIsEmpty' /\ FilesLoaded'
  BY <1>9, <1>10 DEF DownIsEmpty, FilesLoaded
\* The other schedules, and the old file of this one after a failed save.
<1>12. ASSUME NEW i \in Ids, NEW s \in Items \cup Files, Known(i, s),
              i # id \/ (OnDisk(id) /\ faults' # faults)
       PROVE  Known(i, s)'
  <2>1. s.created \in Nat /\ s.edition \in Nat /\ s.lastFired \in Nat
    BY FieldsOfItem, FieldsOfFile
  <2>2. i \notin loose' => i \notin loose
    BY <1>12
  <2>3. \/ log' = log
        \/ \A e \in Entries : log' = Append(log, e) => e.id # i \/ faults' # faults
    BY <1>12
  <2> QED
    BY <1>1, <1>5, <1>12, <2>1, <2>2, <2>3, KnownKept
<1>13. ItemsKnown'
  <2> SUFFICES ASSUME NEW i \in Ids, Loaded(i) \/ i = id PROVE Known(i, items[i])'
    BY <1>9 DEF ItemsKnown
  <2>1. CASE i = id
    BY <1>7, <2>1
  <2>2. CASE i # id
    <3>1. PICK s : s = items[i]
      OBVIOUS
    <3>2. s \in Items /\ Known(i, s)
      BY <1>1, <2>2, <3>1 DEF ItemsKnown, Loaded
    <3>3. Known(i, s)'
      BY <1>12, <2>2, <3>2
    <3> QED
      BY <1>7, <2>2, <3>1, <3>3
  <2> QED
    BY <2>1, <2>2
<1>14. FilesKnown'
  <2> SUFFICES ASSUME NEW i \in Ids, disk'[i] # NoItem PROVE Known(i, disk[i])'
    BY DEF FilesKnown, OnDisk
  <2>1. CASE i = id /\ disk' = [disk EXCEPT ![id] = f]
    <3>1. Known(id, f)'
      BY <1>3 DEF Known, MadeFor
    <3> QED
      BY <1>1, <2>1, <3>1
  <2>2. CASE i # id \/ (disk' = disk /\ faults' = faults + 1)
    <3>1. PICK s : s = disk[i]
      OBVIOUS
    <3>2. s \in Files /\ Known(i, s) /\ disk'[i] = s /\ OnDisk(i)
      BY <1>1, <1>7, <2>2, <3>1 DEF FilesKnown, OnDisk
    <3>3. i # id \/ (OnDisk(id) /\ faults' # faults)
      BY <1>1, <2>2, <3>2
    <3>4. Known(i, s)'
      BY <1>12, <3>2, <3>3
    <3> QED
      BY <3>2, <3>4
  <2> QED
    BY <1>4, <2>1, <2>2
<1> QED
  BY <1>5, <1>6, <1>9, <1>11, <1>13, <1>14

LEMMA CreateInv ==
  ASSUME Inv, NEW id \in Ids, NEW source \in Sources, NEW skip \in BOOLEAN, Create(id, source, skip)
  PROVE  Inv'
<1> USE DEF Inv
<1>1. /\ Types /\ LogPast /\ TickOncePerMinute /\ ThreadOK
      /\ edits \in Nat /\ fireNows \in [Ids -> Nat] /\ now \in Nat /\ faults \in Nat
      /\ log \in Seq(Entries) /\ active \subseteq DOMAIN log /\ loose \subseteq Ids
  BY DEF Types
<1>2. /\ up /\ edits' = edits + 1 /\ ParseOk(source) /\ ~Loaded(id)
      /\ UNCHANGED <<now, thread, stopping, up, log, active, fireNows>>
      /\ loose' = IF skip THEN loose \ {id} ELSE loose \cup {id}
  BY DEF Create, Edit
<1>3. PICK r : r = [cron |-> source, expr |-> Parse(source), enabled |-> TRUE, skip |-> skip,
                    lastFired |-> 0, lastTest |-> 0, edition |-> edits, created |-> edits]
  OBVIOUS
<1>4. items' = [items EXCEPT ![id] = r] /\ Save(id, r)
  BY <1>3 DEF Create
<1>5. r \in Items
  <2>1. source \in CronSource
    BY SchedulerAssumption DEF SchedulerAssumption
  <2>2. Parse(source) \in Exprs
    BY <2>1 DEF Exprs
  <2> QED
    BY <1>1, <1>2, <1>3, <2>1, <2>2 DEF Items
<1>6. Known(id, r)'
  <2>1. r.created = edits /\ r.edition = edits /\ r.lastFired = 0 /\ r.skip = skip
    BY <1>3
  <2>2. ASSUME NEW k \in DOMAIN log PROVE log[k].created # edits
    <3>1. log[k] \in Entries
      BY <1>1, ElementOfSeq
    <3> QED
      BY <1>1, <3>1 DEF LogPast, Entries
  <2> QED
    BY <1>1, <1>2, <2>1, <2>2 DEF Known, MadeFor
<1>7. ~OnDisk(id)
  BY <1>2 DEF FilesLoaded
<1>8. /\ items' \in [Ids -> Items \cup {NoItem}] /\ disk' \in [Ids -> Files \cup {NoItem}]
      /\ CountsUp
      /\ \A i \in Ids : Loaded(i)' <=> (Loaded(i) \/ i = id)
      /\ DownIsEmpty' /\ FilesLoaded' /\ ItemsKnown' /\ FilesKnown'
  <2>1. edits' \in Nat /\ edits <= edits'
    BY <1>1, <1>2
  <2>2. up' = TRUE
    BY <1>2 DEF Types
  <2>3. \A i \in Ids : i \notin loose' => i \notin loose \/ (i = id /\ ~OnDisk(id))
    BY <1>2, <1>7
  <2>4. /\ up /\ now' = now /\ log' = log /\ LogSteps
        /\ fireNows' \in [Ids -> Nat] /\ \A i \in Ids : fireNows[i] <= fireNows'[i]
    BY <1>1, <1>2 DEF LogSteps
  <2> QED
    BY <1>4, <1>5, <1>6, <2>1, <2>2, <2>3, <2>4, SavedInv
<1>9. Types'
  <2>1. ThreadOK'
    BY <1>1, <1>2 DEF ThreadOK
  <2> QED
    BY <1>1, <1>2, <1>8, <2>1 DEF Types, CountsUp
<1>10. LogPast' /\ TickOncePerMinute'
  BY <1>1, <1>2, <1>8, LogKept
<1>11. TickNotBehind'
  <2>1. ASSUME NEW i \in Ids, Loaded(i)'
        PROVE  \/ Loaded(i) /\ items'[i] = items[i]
               \/ thread.pc = "tick" => items'[i].lastFired <= thread.minute
    <3>1. items'[i] = IF i = id THEN r ELSE items[i]
      BY <1>1, <1>4 DEF Types
    <3>2. thread.pc = "tick" => thread.minute \in Nat /\ r.lastFired = 0
      BY <1>1, <1>3 DEF ThreadOK
    <3> QED
      BY <1>8, <2>1, <3>1, <3>2
  <2> QED
    BY <1>1, <1>2, <1>8, <2>1, TickKept DEF LogSteps
<1>12. NoOverlap'
  <2> SUFFICES ASSUME NEW i \in Ids, i \notin loose', Loaded(i)', NEW k \in active,
                      log[k].id = i, log[k].created = items'[i].created
               PROVE  k = items'[i].lastTest
    BY <1>2 DEF NoOverlap
  <2>1. CASE i = id
    <3>1. log[k] \in Entries /\ k \in DOMAIN log
      BY <1>1, ElementOfSeq
    <3>2. items'[i].created = edits
      BY <1>1, <1>3, <1>4, <2>1 DEF Types
    <3> QED
      BY <1>1, <3>1, <3>2 DEF LogPast, Entries
  <2>2. CASE i # id
    <3>1. items'[i] = items[i] /\ Loaded(i) /\ i \notin loose
      BY <1>1, <1>2, <1>4, <1>8, <2>2 DEF Types
    <3> QED
      BY <3>1 DEF NoOverlap
  <2> QED
    BY <2>1, <2>2
<1> QED
  BY <1>8, <1>9, <1>10, <1>11, <1>12

LEMMA UpdateInv ==
  ASSUME Inv, NEW id \in Ids, NEW source \in Sources, NEW enabled \in BOOLEAN, NEW skip \in BOOLEAN,
         Update(id, source, enabled, skip)
  PROVE  Inv'
<1> USE DEF Inv
<1>1. /\ Types /\ LogPast /\ TickOncePerMinute /\ ThreadOK
      /\ edits \in Nat /\ fireNows \in [Ids -> Nat] /\ now \in Nat /\ faults \in Nat
      /\ log \in Seq(Entries) /\ active \subseteq DOMAIN log /\ loose \subseteq Ids
      /\ items \in [Ids -> Items \cup {NoItem}]
  BY DEF Types
<1>2. /\ up /\ edits' = edits + 1 /\ ParseOk(source) /\ Loaded(id)
      /\ UNCHANGED <<now, thread, stopping, up, log, active, fireNows>>
      /\ loose' = IF skip THEN loose ELSE loose \cup {id}
  BY DEF Update, Edit
<1>3. PICK r : r = Patched(items[id], source, enabled, skip)
  OBVIOUS
<1>4. items' = [items EXCEPT ![id] = r] /\ Save(id, r)
  BY <1>3 DEF Update
<1>5. PICK s : s = items[id]
  OBVIOUS
<1>6. s \in Items /\ Known(id, s)
  BY <1>1, <1>2, <1>5 DEF Loaded, ItemsKnown
<1>7. /\ r \in Items
      /\ r.created = s.created /\ r.skip = skip /\ r.lastTest = s.lastTest
      /\ \/ r.edition = s.edition /\ r.lastFired = s.lastFired
         \/ r.edition = edits /\ r.lastFired = 0
  <2>1. source \in CronSource
    BY SchedulerAssumption DEF SchedulerAssumption
  <2> QED
    BY <1>1, <1>2, <1>3, <1>5, <1>6, <2>1, PatchedIs
<1>8. Known(id, r)'
  <2>1. s.created \in Nat /\ s.edition \in Nat /\ s.lastFired \in Nat
    BY <1>6, FieldsOfItem
  <2>2. ASSUME NEW k \in DOMAIN log PROVE log[k].edition # edits
    <3>1. log[k] \in Entries
      BY <1>1, ElementOfSeq
    <3> QED
      BY <1>1, <3>1 DEF LogPast, Entries
  <2>3. r.created < edits' /\ r.edition < edits' /\ r.lastFired <= now'
    BY <1>1, <1>2, <1>6, <1>7, <2>1 DEF Known
  <2>4. id \notin loose' => r.skip
    BY <1>2, <1>7
  <2>5. CASE r.edition = s.edition /\ r.lastFired = s.lastFired
    <3>1. CountsUp
      BY <1>1, <1>2, <1>4 DEF Save, CountsUp
    <3>2. /\ edits' \in Nat /\ edits <= edits' /\ now' \in Nat /\ now <= now' /\ log' = log
          /\ LogSteps /\ (id \notin loose' => id \notin loose)
      BY <1>1, <1>2 DEF LogSteps
    <3>3. Known(id, s)'
      BY <1>1, <1>6, <2>1, <3>1, <3>2, KnownKept
    <3> QED
      BY <1>7, <2>4, <2>5, <3>3 DEF Known, MadeFor
  <2>6. CASE r.edition = edits
    BY <1>2, <2>2, <2>3, <2>4, <2>6 DEF Known, MadeFor
  <2> QED
    BY <1>7, <2>5, <2>6
<1>9. /\ items' \in [Ids -> Items \cup {NoItem}] /\ disk' \in [Ids -> Files \cup {NoItem}]
      /\ CountsUp
      /\ \A i \in Ids : Loaded(i)' <=> (Loaded(i) \/ i = id)
      /\ DownIsEmpty' /\ FilesLoaded' /\ ItemsKnown' /\ FilesKnown'
  <2>1. edits' \in Nat /\ edits <= edits'
    BY <1>1, <1>2
  <2>2. up' = TRUE
    BY <1>2 DEF Types
  <2>3. \A i \in Ids : i \notin loose' => i \notin loose \/ (i = id /\ ~OnDisk(id))
    BY <1>2
  <2>4. /\ up /\ now' = now /\ log' = log /\ LogSteps
        /\ fireNows' \in [Ids -> Nat] /\ \A i \in Ids : fireNows[i] <= fireNows'[i]
    BY <1>1, <1>2 DEF LogSteps
  <2> QED
    BY <1>4, <1>7, <1>8, <2>1, <2>2, <2>3, <2>4, SavedInv
<1>10. Types'
  <2>1. ThreadOK'
    BY <1>1, <1>2 DEF ThreadOK
  <2> QED
    BY <1>1, <1>2, <1>9, <2>1 DEF Types, CountsUp
<1>11. LogPast' /\ TickOncePerMinute'
  BY <1>1, <1>2, <1>9, LogKept
<1>12. \A i \in Ids : items'[i] = IF i = id THEN r ELSE items[i]
  BY <1>1, <1>4
<1>13. TickNotBehind'
  <2>1. ASSUME thread.pc = "tick", r.edition = s.edition, r.lastFired = s.lastFired,
               NEW k \in DOMAIN log', MadeFor(k, id, items[id])'
        PROVE  r.lastFired <= thread.minute
    <3>1. MadeFor(k, id, r)'
      BY <1>12, <2>1 DEF MadeFor
    <3>2. MadeFor(k, id, s) /\ k \in DOMAIN log
      <4>1. MadeFor(k, id, r)
        BY <1>1, <1>2, <1>9, <2>1, <3>1, MadeBefore DEF LogSteps
      <4> QED
        BY <1>2, <1>7, <2>1, <4>1 DEF MadeFor
    <3> QED
      BY <1>2, <1>5, <2>1, <3>2 DEF TickNotBehind
  <2>2. ASSUME thread.pc = "tick", r.lastFired = 0
        PROVE  r.lastFired <= thread.minute
    BY <1>1, <2>2 DEF ThreadOK
  <2>3. ASSUME NEW i \in Ids, Loaded(i)'
        PROVE  \/ Loaded(i) /\ items'[i] = items[i]
               \/ thread.pc = "tick" => items'[i].lastFired <= thread.minute
               \/ \A k \in DOMAIN log' : ~MadeFor(k, i, items[i])'
    BY <1>7, <1>9, <1>12, <2>1, <2>2, <2>3
  <2> QED
    BY <1>1, <1>2, <1>9, <2>3, TickKept DEF LogSteps
<1>14. NoOverlap'
  <2> SUFFICES ASSUME NEW i \in Ids, i \notin loose', Loaded(i)', NEW k \in active,
                      log[k].id = i, log[k].created = items'[i].created
               PROVE  k = items'[i].lastTest
    BY <1>2 DEF NoOverlap
  <2>1. Loaded(i) /\ i \notin loose
    BY <1>2, <1>9
  <2>2. items'[i].created = items[i].created /\ items'[i].lastTest = items[i].lastTest
    BY <1>5, <1>7, <1>12
  <2> QED
    BY <2>1, <2>2 DEF NoOverlap
<1> QED
  BY <1>9, <1>10, <1>11, <1>13, <1>14

LEMMA RemoveInv ==
  ASSUME Inv, NEW id \in Ids, RemoveSchedule(id)
  PROVE  Inv'
<1> USE DEF Inv
<1>1. /\ Types /\ LogPast /\ TickOncePerMinute /\ ThreadOK
      /\ edits \in Nat /\ fireNows \in [Ids -> Nat] /\ now \in Nat /\ faults \in Nat
  BY DEF Types
<1>2. /\ up /\ edits' = edits + 1
      /\ items' = [items EXCEPT ![id] = NoItem] /\ disk' = [disk EXCEPT ![id] = NoItem]
      /\ UNCHANGED <<now, thread, stopping, up, log, active, fireNows, loose, faults>>
  BY DEF RemoveSchedule, Edit
<1>3. Types'
  <2>1. ThreadOK'
    BY <1>1, <1>2 DEF ThreadOK
  <2>2. items' \in [Ids -> Items \cup {NoItem}] /\ disk' \in [Ids -> Files \cup {NoItem}]
    BY <1>2 DEF Types
  <2> QED
    BY <1>1, <1>2, <2>1, <2>2 DEF Types
<1>4. \A i \in Ids : /\ Loaded(i)' => Loaded(i) /\ items'[i] = items[i] /\ i # id
                     /\ OnDisk(i)' => OnDisk(i) /\ disk'[i] = disk[i] /\ i # id
                     /\ i # id => items'[i] = items[i]
  BY <1>2 DEF Types, Loaded, OnDisk
<1>5. DownIsEmpty' /\ FilesLoaded'
  <2>1. \A i \in Ids : i # id /\ Loaded(i) => Loaded(i)'
    BY <1>4 DEF Loaded
  <2> QED
    BY <1>2, <1>4, <2>1 DEF DownIsEmpty, FilesLoaded
<1>6. edits' \in Nat /\ edits <= edits' /\ CountsUp
  BY <1>1, <1>2 DEF CountsUp
<1>7. LogPast' /\ TickOncePerMinute'
  BY <1>1, <1>2, <1>6, LogKept
<1>8. ItemsKnown' /\ FilesKnown'
  <2>1. ASSUME NEW i \in Ids
        PROVE  /\ Loaded(i) => Known(i, items[i])'  \/ items'[i] # items[i]
               /\ OnDisk(i) => Known(i, disk[i])' \/ disk'[i] # disk[i]
    BY <1>1, <1>2, <1>6, StaysKnown
  <2> QED
    BY <1>4, <2>1 DEF ItemsKnown, FilesKnown
<1>9. TickNotBehind' /\ NoOverlap'
  BY <1>2, <1>4 DEF TickNotBehind, NoOverlap, MadeFor
<1> QED
  BY <1>3, <1>5, <1>7, <1>8, <1>9

-----------------------------------------------------------------------------
(* Steps that fire a schedule.                                             *)

\* The submission a schedule makes.  The thread's is a new one: the mark is not
\* behind any earlier submission for this text, and is behind this one.
LEMMA NewEntry ==
  ASSUME Inv, NEW id \in Ids, Loaded(id), NEW m \in Nat, NEW minute \in Nat,
         NEW item, item = [items[id] EXCEPT !.lastFired = m],
         NEW e, e = Entry(id, item, minute)
  PROVE  /\ e \in Entries /\ e.id = id /\ e.minute = minute
         /\ e.faults = faults /\ e.byHand = fireNows[e.id]
         /\ e.created = items[id].created /\ e.edition = items[id].edition
         /\ e.created < edits /\ e.edition < edits
         /\ /\ minute # 0
            /\ thread.pc = "tick" /\ minute = thread.minute /\ items[id].lastFired # minute
            => \A k \in DOMAIN log : log[k] # e
<1> USE DEF Inv
<1>1. faults \in Nat /\ fireNows \in [Ids -> Nat]
  BY DEF Types
<1>2. PICK s : s = items[id]
  OBVIOUS
<1>3. s \in Items /\ Known(id, s)
  BY <1>2 DEF Types, Loaded, ItemsKnown
<1>4. item.created = s.created /\ item.edition = s.edition
  BY <1>2, <1>3 DEF Items
<1>5. e = [id |-> id, created |-> s.created, edition |-> s.edition, minute |-> minute,
           byHand |-> fireNows[id], faults |-> faults]
  BY <1>4 DEF Entry
<1>6. s.created \in Nat /\ s.edition \in Nat /\ s.lastFired \in Nat
  BY <1>3, FieldsOfItem
<1>7. e \in Entries
  BY <1>1, <1>5, <1>6 DEF Entries
<1>8. s.created < edits /\ s.edition < edits
  BY <1>3 DEF Known
<1>9. ASSUME minute # 0, thread.pc = "tick", minute = thread.minute,
             s.lastFired # minute, NEW k \in DOMAIN log, log[k] = e
      PROVE  FALSE
  <2>1. MadeFor(k, id, s)
    BY <1>5, <1>9 DEF MadeFor
  <2>2. minute <= s.lastFired
    BY <1>3, <1>5, <1>9, <2>1 DEF Known
  <2>3. s.lastFired <= minute
    BY <1>2, <1>9, <2>1 DEF TickNotBehind
  <2> QED
    BY <1>6, <1>9, <2>2, <2>3
<1> QED
  BY <1>2, <1>5, <1>7, <1>8, <1>9

\* fireLocked with the save that follows it, of the thread or by hand.
LEMMA FireInv ==
  ASSUME Inv, up, NEW id \in Ids, Loaded(id), NEW m \in 1..now, NEW minute \in Nat,
         NEW item, item = [items[id] EXCEPT !.lastFired = m],
         Fire(id, item, minute), Save(id, items'[id]),
         UNCHANGED <<stopping, up, now, loose, edits>>,
         fireNows' \in [Ids -> Nat], \A i \in Ids : fireNows[i] <= fireNows'[i],
         ThreadOK', thread'.pc = thread.pc, thread'.minute = thread.minute,
         \/ minute = 0 /\ fireNows'[id] # fireNows[id]
         \/ thread.pc = "tick" /\ minute = m /\ m = thread.minute /\ items[id].lastFired # m
  PROVE  Inv'
<1> USE DEF Inv
<1>1. /\ Types /\ LogPast /\ TickOncePerMinute
      /\ edits \in Nat /\ fireNows \in [Ids -> Nat] /\ now \in Nat /\ faults \in Nat
      /\ log \in Seq(Entries) /\ active \subseteq DOMAIN log /\ items \in [Ids -> Items \cup {NoItem}] /\ m \in Nat
  BY DEF Types
<1>2. PICK s : s = items[id]
  OBVIOUS
<1>3. s \in Items /\ Known(id, s)
  BY <1>1, <1>2 DEF Loaded, ItemsKnown
<1>4. s.created \in Nat /\ s.edition \in Nat /\ s.lastFired \in Nat
  BY <1>3, FieldsOfItem
<1>5. PICK n \in Nat : n = Len(log) + 1
  BY <1>1, LenProperties
<1>6. PICK e : e = Entry(id, item, minute)
  OBVIOUS
<1>7. /\ e \in Entries /\ e.id = id /\ e.minute = minute
      /\ e.faults = faults /\ e.byHand = fireNows[e.id]
      /\ e.created = s.created /\ e.edition = s.edition
      /\ e.created < edits /\ e.edition < edits
      /\ e.minute # 0 => \A k \in DOMAIN log : log[k] # e
  BY <1>1, <1>2, <1>6, NewEntry
<1>9. CountsUp
  BY <1>1 DEF Save, CountsUp
\* The schedule with its new mark, and perhaps its new test.
<1>10. PICK r : r = items'[id]
  OBVIOUS
<1>11. \/ r = item /\ log' = log /\ active' = active
       \/ /\ r = [item EXCEPT !.lastTest = n]
          /\ ~MustSkip(item) /\ log' = Append(log, e) /\ active' = active \cup {n}
  BY <1>1, <1>5, <1>6, <1>10 DEF Fire
<1>8. LogSteps
  BY <1>7, <1>11 DEF LogSteps
<1>12. items' = [items EXCEPT ![id] = r]
  BY <1>1, <1>10 DEF Fire
<1>13. item = [s EXCEPT !.lastFired = m]
  BY <1>2
<1>14. item \in Items /\ item.lastTest = s.lastTest /\ item.skip = s.skip
  BY <1>1, <1>3, <1>13 DEF Items
<1>15. /\ r \in Items /\ r.created = s.created /\ r.edition = s.edition /\ r.skip = s.skip
       /\ r.lastFired = m
       /\ r.lastTest = s.lastTest \/ (r.lastTest = n /\ r = [item EXCEPT !.lastTest = n])
  <2>1. CASE r = item
    BY <1>1, <1>3, <1>13, <2>1 DEF Items
  <2>2. CASE r = [item EXCEPT !.lastTest = n]
    BY <1>1, <1>3, <1>13, <2>2 DEF Items
  <2> QED
    BY <1>11, <2>1, <2>2
<1>16. /\ log' \in Seq(Entries) /\ LogPast' /\ TickOncePerMinute'
  <2>1. CASE log' = log
    BY <1>1, <1>9, <2>1, LogKept
  <2>2. CASE log' = Append(log, e)
    BY <1>1, <1>7, <1>9, <2>2, LogGrows
  <2> QED
    BY <1>11, <2>1, <2>2
<1>17. /\ DOMAIN log \subseteq DOMAIN log' /\ \A k \in DOMAIN log : log'[k] = log[k]
       /\ log' = Append(log, e) => n \in DOMAIN log' /\ log'[n] = e /\ n \notin DOMAIN log
  <2>1. CASE log' = Append(log, e)
    BY <1>1, <1>5, <1>7, <2>1, AppendedIs
  <2>2. CASE log' = log /\ log' # Append(log, e)
    BY <2>2
  <2> QED
    BY <1>11, <2>1, <2>2
<1>18. Known(id, r)'
  <2>1. r.created < edits' /\ r.edition < edits' /\ r.lastFired <= now'
    BY <1>1, <1>3, <1>15 DEF Known
  <2>2. id \notin loose' => r.skip
    BY <1>3, <1>15 DEF Known
  <2>3. ASSUME NEW k \in DOMAIN log', MadeFor(k, id, r)'
        PROVE  log'[k].minute <= m
    <3>1. /\ fireNows'[id] = fireNows[id]
          /\ k \in DOMAIN log => log'[k] = log[k] /\ MadeFor(k, id, r)
          /\ k \notin DOMAIN log => log'[k] \in Entries /\ log' = Append(log, log'[k])
      BY <1>1, <1>8, <1>9, <2>3, MadeBefore
    <3>2. thread.pc = "tick" /\ minute = m /\ m = thread.minute
      BY <3>1
    <3>3. CASE k \in DOMAIN log
      <4>1. MadeFor(k, id, s)
        BY <1>15, <3>1, <3>3 DEF MadeFor
      <4>2. log[k].minute <= s.lastFired /\ s.lastFired <= m
        BY <1>2, <1>3, <3>2, <3>3, <4>1 DEF Known, TickNotBehind
      <4>3. log[k].minute \in Nat
        <5>1. log[k] \in Entries
          BY <1>1, <3>3, ElementOfSeq
        <5> QED
          BY <5>1 DEF Entries
      <4> QED
        BY <1>1, <1>4, <3>1, <3>3, <4>2, <4>3
    <3>4. CASE k \notin DOMAIN log
      <4>1. k = n /\ log' = Append(log, e)
        BY <1>1, <1>5, <1>7, <1>11, <2>3, <3>4, AppendedIs
      <4>2. log'[k].minute = minute
        BY <1>7, <1>17, <4>1
      <4> QED
        BY <1>1, <3>2, <4>2
    <3> QED
      BY <3>3, <3>4
  <2> QED
    BY <1>15, <2>1, <2>2, <2>3 DEF Known
<1>19. /\ items' \in [Ids -> Items \cup {NoItem}] /\ disk' \in [Ids -> Files \cup {NoItem}]
       /\ \A i \in Ids : Loaded(i)' <=> (Loaded(i) \/ i = id)
       /\ DownIsEmpty' /\ FilesLoaded' /\ ItemsKnown' /\ FilesKnown'
  <2>1. Save(id, r) /\ up' = TRUE /\ edits' \in Nat /\ edits <= edits'
    BY <1>1, <1>10 DEF Types
  <2>2. \A i \in Ids : i \notin loose' => i \notin loose \/ (i = id /\ ~OnDisk(id))
    OBVIOUS
  <2>3. log' = log \/ \A x \in Entries : log' = Append(log, x) => x.id = id
    BY <1>1, <1>5, <1>7, <1>11, <1>17, AppendedIs
  <2> QED
    BY <1>8, <1>12, <1>15, <1>18, <2>1, <2>2, <2>3, SavedInv
<1>20. Types'
  <2>1. active' \subseteq DOMAIN log'
    BY <1>1, <1>11, <1>17
  <2> QED
    BY <1>1, <1>9, <1>16, <1>19, <2>1 DEF Types, CountsUp
<1>21. \A i \in Ids : items'[i] = IF i = id THEN r ELSE items[i]
  BY <1>1, <1>12
<1>22. TickNotBehind'
  <2>1. log' = log \/ \A x \in Entries : log' = Append(log, x) => x.id = id
    BY <1>1, <1>5, <1>7, <1>11, <1>17, AppendedIs
  <2>2. ASSUME fireNows'[id] # fireNows[id], NEW k \in DOMAIN log'
        PROVE  ~MadeFor(k, id, items[id])'
    <3>1. PICK x : x = items'[id]
      OBVIOUS
    <3>2. ~MadeFor(k, id, x)'
      BY <1>1, <1>8, <1>9, <2>2, MadeBefore
    <3> QED
      BY <3>1, <3>2 DEF MadeFor
  <2>3. thread.pc = "tick" /\ m = thread.minute => r.lastFired <= thread.minute
    BY <1>1, <1>15
  <2>4. ASSUME NEW i \in Ids, Loaded(i)'
        PROVE  \/ /\ Loaded(i) /\ items'[i] = items[i]
                  /\ log' = log \/ \A x \in Entries : log' = Append(log, x) => x.id # i
               \/ thread'.pc = "tick" => items'[i].lastFired <= thread.minute
               \/ \A k \in DOMAIN log' : ~MadeFor(k, i, items[i])'
    <3>1. CASE i = id
      BY <1>21, <2>2, <2>3, <3>1
    <3>2. CASE i # id
      BY <1>19, <1>21, <2>1, <2>4, <3>2
    <3> QED
      BY <3>1, <3>2
  <2> QED
    BY <1>1, <1>8, <1>9, <2>4, TickKept
<1>23. NoOverlap'
  <2> SUFFICES ASSUME NEW i \in Ids, i \notin loose, Loaded(i)', NEW k \in active',
                      log'[k].id = i, log'[k].created = items'[i].created
               PROVE  k = items'[i].lastTest
    BY DEF NoOverlap
  <2>1. Loaded(i)
    BY <1>19
  <2>2. items'[i].created = items[i].created
    BY <1>2, <1>15, <1>21
  <2>3. k \in active => log'[k] = log[k]
    BY <1>1, <1>17
  <2>4. k \in active => k = items[i].lastTest
    BY <2>1, <2>2, <2>3 DEF NoOverlap
  <2>5. CASE i # id
    <3>1. k \in active
      BY <1>7, <1>11, <1>17, <2>5
    <3> QED
      BY <1>21, <2>4, <2>5, <3>1
  <2>6. CASE i = id
    <3>1. CASE r = item /\ active' = active
      BY <1>2, <1>14, <1>21, <2>4, <2>6, <3>1
    <3>2. CASE r = [item EXCEPT !.lastTest = n] /\ ~MustSkip(item) /\ active' = active \cup {n}
      <4>1. r.lastTest = n
        BY <1>14, <3>2 DEF Items
      <4>2. s.skip
        BY <1>3, <2>6 DEF Known
      <4>3. s.lastTest \notin active
        BY <1>14, <3>2, <4>2 DEF MustSkip
      <4>4. k \notin active
        BY <1>2, <2>4, <2>6, <4>3
      <4> QED
        BY <1>21, <2>6, <3>2, <4>1, <4>4
    <3> QED
      BY <1>11, <3>1, <3>2
  <2> QED
    BY <2>5, <2>6
<1> QED
  BY <1>16, <1>19, <1>20, <1>22, <1>23

\* A crash after the submission leaves a fault behind, which excuses it.
LEMMA DieInv ==
  ASSUME Inv, NEW id \in Ids, Loaded(id), NEW m \in Nat, NEW minute \in Nat,
         NEW item, item = [items[id] EXCEPT !.lastFired = m],
         DieAfterSubmit(id, item, minute), Down, UNCHANGED <<disk, now, loose, edits>>,
         fireNows' \in [Ids -> Nat], \A i \in Ids : fireNows[i] <= fireNows'[i],
         \/ minute = 0
         \/ thread.pc = "tick" /\ minute = thread.minute /\ items[id].lastFired # minute
  PROVE  Inv'
<1>1. /\ Types /\ LogPast /\ TickOncePerMinute
      /\ edits \in Nat /\ fireNows \in [Ids -> Nat] /\ faults \in Nat /\ log \in Seq(Entries)
  BY DEF Inv, Types
<1>2. PICK e : e = Entry(id, item, minute)
  OBVIOUS
<1>3. /\ e \in Entries /\ e.id = id /\ e.minute = minute
      /\ e.faults = faults /\ e.byHand = fireNows[e.id]
      /\ e.created < edits /\ e.edition < edits
      /\ e.minute # 0 => \A k \in DOMAIN log : log[k] # e
  BY <1>2, NewEntry
<1>4. log' = Append(log, e) /\ faults' = faults + 1
  BY <1>2 DEF DieAfterSubmit
<1>5. CountsUp /\ LogSteps
  BY <1>1, <1>3, <1>4 DEF CountsUp, LogSteps
<1>6. log' \in Seq(Entries) /\ LogPast' /\ TickOncePerMinute'
  BY <1>1, <1>3, <1>4, <1>5, LogGrows
<1>7. DOMAIN log \subseteq DOMAIN log'
  BY <1>1, <1>3, <1>4, AppendedIs
<1>8. faults' # faults
  BY <1>1, <1>4
<1> QED
  BY <1>5, <1>6, <1>7, <1>8, GoneInv

LEMMA TickItemInv ==
  ASSUME Inv, TickItem
  PROVE  Inv'
<1>1. PICK id : id = Head(thread.todo)
  OBVIOUS
<1>2. PICK m : m = thread.minute
  OBVIOUS
<1>3. PICK item : item = [items[id] EXCEPT !.lastFired = m]
  OBVIOUS
<1>4. /\ ThreadOK /\ thread.pc = "tick" /\ m \in 1..now /\ m \in Nat /\ TickNotBehind
      /\ fireNows \in [Ids -> Nat] /\ edits \in Nat /\ now \in Nat /\ up
  BY <1>2 DEF Inv, Types, TickItem, TickNotBehind, DownIsEmpty
<1>5. UNCHANGED <<now, loose, edits, fireNows>>
  BY DEF TickItem
<1>6. ASSUME thread' = [thread EXCEPT !.todo = Tail(@)]
      PROVE  ThreadOK' /\ thread'.pc = thread.pc /\ thread'.minute = thread.minute
  <2>1. PICK todo : thread = [pc |-> thread.pc, minute |-> thread.minute, todo |-> todo]
    BY <1>4 DEF ThreadOK
  <2>2. thread' = [pc |-> thread.pc, minute |-> thread.minute, todo |-> Tail(thread.todo)]
    BY <1>6, <2>1
  <2>3. thread'.pc = thread.pc /\ thread'.minute = thread.minute
    BY <2>2
  <2> QED
    BY <1>4, <2>2, <2>3 DEF ThreadOK
<1>7. CASE Loaded(id) /\ Fires(items[id], m)
  <2>1. id \in Ids /\ items[id].lastFired # m
    BY <1>7 DEF Loaded, Fires
  <2>2. \/ /\ Fire(id, item, m) /\ Save(id, items'[id])
           /\ thread' = [thread EXCEPT !.todo = Tail(@)] /\ UNCHANGED <<order, stopping, up>>
        \/ DieAfterSubmit(id, item, m) /\ Down /\ UNCHANGED disk
    BY <1>1, <1>2, <1>3, <1>7 DEF TickItem
  <2>3. CASE /\ Fire(id, item, m) /\ Save(id, items'[id])
             /\ thread' = [thread EXCEPT !.todo = Tail(@)] /\ UNCHANGED <<order, stopping, up>>
    BY <1>2, <1>3, <1>4, <1>5, <1>6, <1>7, <2>1, <2>3, FireInv
  <2>4. CASE DieAfterSubmit(id, item, m) /\ Down /\ UNCHANGED disk
    BY <1>2, <1>3, <1>4, <1>5, <1>7, <2>1, <2>4, DieInv
  <2> QED
    BY <2>2, <2>3, <2>4
<1>8. CASE ~(Loaded(id) /\ Fires(items[id], m))
  <2>1. /\ thread' = [thread EXCEPT !.todo = Tail(@)]
        /\ UNCHANGED <<items, order, disk, stopping, up, log, active, faults>>
    BY <1>1, <1>2, <1>8 DEF TickItem
  <2>2. TickNotBehind'
    BY <1>4, <1>5, <1>6, <2>1 DEF TickNotBehind, Loaded, MadeFor
  <2>3. stopping' \in BOOLEAN
    BY <2>1 DEF Inv, Types
  <2> QED
    BY <1>4, <1>5, <1>6, <2>1, <2>2, <2>3, SameSchedules
<1> QED
  BY <1>7, <1>8

LEMMA FireNowInv ==
  ASSUME Inv, NEW id \in Ids, FireNow(id)
  PROVE  Inv'
<1>1. ThreadOK /\ fireNows \in [Ids -> Nat] /\ edits \in Nat /\ now \in Nat /\ now # 0
  BY DEF Inv, Types
<1>2. /\ up /\ Loaded(id) /\ fireNows' = [fireNows EXCEPT ![id] = @ + 1] /\ UNCHANGED <<now, loose, edits>>
  BY DEF FireNow
<1>3. PICK item : item = [items[id] EXCEPT !.lastFired = now]
  OBVIOUS
<1>4. \/ /\ Fire(id, item, 0) /\ Save(id, items'[id])
         /\ UNCHANGED <<order, thread, stopping, up>>
      \/ DieAfterSubmit(id, item, 0) /\ Down /\ UNCHANGED disk
  BY <1>3 DEF FireNow
<1>5. /\ fireNows' \in [Ids -> Nat] /\ \A i \in Ids : fireNows[i] <= fireNows'[i]
      /\ fireNows'[id] # fireNows[id] /\ now \in 1..now
  BY <1>1, <1>2
<1>6. CASE /\ Fire(id, item, 0) /\ Save(id, items'[id])
           /\ UNCHANGED <<order, thread, stopping, up>>
  <2>1. ThreadOK' /\ thread'.pc = thread.pc /\ thread'.minute = thread.minute
    BY <1>1, <1>6 DEF ThreadOK
  <2> QED
    BY <1>2, <1>3, <1>5, <1>6, <2>1, FireInv
<1>7. CASE DieAfterSubmit(id, item, 0) /\ Down /\ UNCHANGED disk
  BY <1>1, <1>2, <1>3, <1>5, <1>7, DieInv
<1> QED
  BY <1>4, <1>6, <1>7

-----------------------------------------------------------------------------
LEMMA InitInv == Init => Inv
<1> SUFFICES ASSUME Init PROVE Inv
  OBVIOUS
<1>1. /\ items = [i \in Ids |-> NoItem] /\ disk = [i \in Ids |-> NoItem]
      /\ thread = [pc |-> "wait", minute |-> 0, todo |-> <<>>]
      /\ log = <<>> /\ active = {} /\ loose = {} /\ now = 1 /\ up = TRUE /\ stopping = FALSE
      /\ edits = 0 /\ fireNows = [i \in Ids |-> 0] /\ faults = 0
  BY DEF Init, IdleThread
<1>2. log \in Seq(Entries) /\ DOMAIN log = {}
  BY <1>1
<1>3. \A i \in Ids : ~Loaded(i) /\ ~OnDisk(i)
  BY <1>1 DEF Loaded, OnDisk
<1>4. ThreadOK
  BY <1>1 DEF ThreadOK
<1>5. Types
  <2>1. items \in [Ids -> Items \cup {NoItem}]
    BY <1>1
  <2>2. disk \in [Ids -> Files \cup {NoItem}]
    BY <1>1
  <2>3. now \in Nat \ {0} /\ edits \in Nat /\ fireNows \in [Ids -> Nat] /\ faults \in Nat
    BY <1>1
  <2>4. stopping \in BOOLEAN /\ up \in BOOLEAN /\ active \subseteq DOMAIN log /\ loose \subseteq Ids
    BY <1>1
  <2> QED
    BY <1>2, <1>4, <2>1, <2>2, <2>3, <2>4 DEF Types
<1>6. DownIsEmpty /\ FilesLoaded /\ LogPast /\ ItemsKnown /\ FilesKnown
  BY <1>1, <1>2, <1>3 DEF DownIsEmpty, FilesLoaded, LogPast, ItemsKnown, FilesKnown
<1>7. TickNotBehind /\ TickOncePerMinute /\ NoOverlap
  BY <1>1, <1>2 DEF TickNotBehind, TickOncePerMinute, Automatic, NoOverlap
<1> QED
  BY <1>5, <1>6, <1>7 DEF Inv

LEMMA NextInv == Inv /\ [Next]_vars => Inv'
<1> SUFFICES ASSUME Inv, [Next]_vars PROVE Inv'
  OBVIOUS
<1>1. CASE \/ TickBegin \/ TickEnd \/ ClockAdvances \/ StopRequest \/ UNCHANGED vars
           \/ \E k \in active : TestEnds(k)
  BY <1>1, QuietInv
<1>2. CASE TickItem
  BY <1>2, TickItemInv
<1>3. CASE \E id \in Ids : RemoveSchedule(id)
  BY <1>3, RemoveInv
<1>4. CASE \E id \in Ids : FireNow(id)
  BY <1>4, FireNowInv
<1>5. CASE \E id \in Ids, source \in Sources, skip \in BOOLEAN : Create(id, source, skip)
  BY <1>5, CreateInv
<1>6. CASE \E id \in Ids, source \in Sources, skip \in BOOLEAN, enabled \in BOOLEAN :
             Update(id, source, enabled, skip)
  BY <1>6, UpdateInv
<1>7. CASE StopJoin \/ Crash
  BY <1>7, EndInv
<1>8. CASE Start
  BY <1>8, StartInv
<1> QED
  BY <1>1, <1>2, <1>3, <1>4, <1>5, <1>6, <1>7, <1>8, Zenon DEF Next

LEMMA SchedulerInvariant == Spec => []Inv
BY InitInv, NextInv, PTL DEF Spec

\* However many ticks fall into a minute, and whatever is edited, stopped or
\* started again in between, the thread submits at most once for each minute of
\* each text of a schedule, unless between the two submissions something failed
\* or that very schedule was fired by hand (Scheduler::tick, fireLocked, saveOne).
THEOREM SchedulerTickOncePerMinute == Spec => []TickOncePerMinute
BY SchedulerInvariant, PTL DEF Inv

\* Of a schedule that always asked to skip while its test runs only the test it
\* submitted last can be active (Scheduler::fireLocked).
THEOREM SchedulerNoOverlap == Spec => []NoOverlap
BY SchedulerInvariant, PTL DEF Inv

\* Every schedule fires by an expression that means what its text says, also
\* after an edit and after a restart (Scheduler::create, update, fromJson).
THEOREM SchedulerMeansSource == Spec => []CronMeansSource
<1>1. Inv => CronMeansSource
  <2> SUFFICES ASSUME Inv, NEW i \in Ids, Loaded(i), NEW t \in DOMAIN Times
               PROVE  Matches(items[i].expr, Times[t]) <=> Due(items[i].cron, Times[t])
    BY DEF CronMeansSource
  <2>1. items[i] \in Items
    BY DEF Inv, Types, Loaded
  <2>2. /\ items[i].cron \in CronSource /\ ParseOk(items[i].cron)
        /\ items[i].expr = Parse(items[i].cron)
    BY <2>1, FieldsOfItem
  <2>3. Times[t] \in Moment
    BY SchedulerAssumption, ElementOfSeq DEF SchedulerAssumption
  <2> QED
    BY <2>2, <2>3, CronMatchesSource
<1> QED
  BY <1>1, SchedulerInvariant, PTL
=============================================================================
