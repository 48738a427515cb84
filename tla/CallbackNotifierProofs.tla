----------------------- MODULE CallbackNotifierProofs -----------------------
(***************************************************************************)
(* Proofs about CallbackNotifier and the event bus under it, for any       *)
(* number of tests, lives and attempts: the posts of a test tell one story *)
(* and the pending counter is exact.                                       *)
(***************************************************************************)
EXTENDS CallbackNotifier, FiniteSetTheorems, SequenceTheorems, WellFoundedInduction, TLAPS

Types  == {Completed, Cancelled, Stopping, <<"none">>} \cup CallbackTypes
Ending == {Completed, Cancelled}
Events == [type : Types, test : Tests \cup {"none"}, stage : {"none", "queued", "running"}]
Jobs   == [test : Tests, type : Ending, attempt : Nat, due : Int]
Places == Tests \cup {Main, Notifier, Api}
Unended == {"queued", "running", "cancelling"}
Ended   == Verdicts \cup {"gone"}
Ids     == {"ws", "completed", "cancelled"}
Patterns == {<<"*">>, Completed, Cancelled}
Entries == [id : Ids, pattern : Patterns]
Payloads == [event : Ending, state : Unended \cup Ended, attempt : Nat]

\* The type of every variable.
BusTypes ==
  /\ handlers \in Seq(Entries)
  /\ queue \in Seq(Events)
  /\ inflight \in [Places -> Events]
  /\ dispatcher \in {"idle", "copy", "call"}
  /\ event \in Events
  /\ targets \in Seq(Ids)

HubStates ==
  {"new", "initialized", "completed", "up", "waiting", "engine", "unsubscribe",
   "unsubscribing", "notify", "join", "ws", "stopped"}

NotifierTypes ==
  /\ record \in [Tests -> Unended \cup Ended]
  /\ note \in [Tests -> Events]
  /\ running \in BOOLEAN
  /\ jobs \in Seq(Jobs)
  /\ stats \in [pending : Nat, delivered : Nat, failed : Nat]
  /\ worker \in [pc : {"off", "top", "locked", "waiting", "timed", "have", "posting", "delivered", "failed"},
                 job : Jobs \cup {NoJob}]
  /\ worker.pc \in {"have", "posting", "delivered", "failed"} => worker.job \in Jobs
  /\ worker.pc = "posting" => worker.job.attempt > 0
  /\ handler \in [pc : {"off", "accept", "schedule"}, job : Jobs \cup {NoJob}]
  /\ handler.pc # "off" => handler.job \in Jobs
  /\ hub \in HubStates
  /\ posts \in [Tests -> Seq(Payloads)]

TypeOK == BusTypes /\ NotifierTypes

-----------------------------------------------------------------------------
(* The inductive invariant.                                                *)

\* The notifier's thread runs only once start() has begun, and pending is kept
\* with the jobs, wherever they are.
Pending ==
  /\ hub \in {"new", "initialized"} => worker.pc = "off"
  /\ PendingExact

\* The handler of an ending event.
Ours == {"completed", "cancelled"}

\* Subscriptions: an id is there once, with its own pattern, and not before its time.
Subscribed ==
  /\ \A i, j \in DOMAIN handlers : handlers[i].id = handlers[j].id => i = j
  /\ \A i \in DOMAIN handlers :
       /\ handlers[i].id = "completed" => handlers[i].pattern = Completed
       /\ handlers[i].id = "cancelled" => handlers[i].pattern = Cancelled
       /\ hub # "new"
       /\ hub = "initialized" => handlers[i].id = "ws"
       /\ hub = "completed" => handlers[i].id # "cancelled"

\* The handlers that are still to be called: each once, and only for its type.
Called ==
  /\ \A i, j \in DOMAIN targets : targets[i] = targets[j] => i = j
  /\ dispatcher = "call" => \A i \in DOMAIN targets :
       /\ targets[i] = "completed" => event.type = Completed
       /\ targets[i] = "cancelled" => event.type = Cancelled
  /\ handler.pc # "off" =>
       /\ dispatcher = "call" /\ targets # <<>> /\ Head(targets) \in Ours
       /\ Final(event) /\ handler.job.attempt = 0
       /\ handler.job.test = event.test /\ handler.job.type = event.type

\* An ending event is published by the thread that ended its test.
Published ==
  /\ \A t \in Tests : note[t] = Bus!NoEvent \/ (Final(note[t]) /\ note[t].test = t)
  /\ \A p \in Places : Final(inflight[p]) => p \in Tests /\ inflight[p].test = p

Hands == {"note", "flight", "queue", "event", "handler", "jobs", "worker"}

\* The end of t, of type y, has been posted n times and is in a hand.
NoteHas(t, y, n)   == note[t].type = y /\ n = 0
FlightHas(t, y, n) == Final(inflight[t]) /\ inflight[t].type = y /\ n = 0
QueueHas(t, y, n)  == n = 0 /\ \E i \in DOMAIN queue : Final(queue[i]) /\ queue[i].test = t /\ queue[i].type = y

\* The dispatcher has the event, and the handler for it has not been called.
EventHas(t, y, n) ==
  /\ Final(event) /\ event.test = t /\ event.type = y /\ n = 0
  /\ \/ dispatcher = "copy"
     \/ dispatcher = "call" /\ handler.pc = "off" /\ \E i \in DOMAIN targets : targets[i] \in Ours

Is(job, t, y, n) == job.test = t /\ job.type = y /\ job.attempt = n

HandlerHas(t, y, n) == handler.pc # "off" /\ Is(handler.job, t, y, n)
JobsHave(t, y, n)   == \E i \in DOMAIN jobs : Is(jobs[i], t, y, n)
WorkerHas(t, y, n)  == worker.pc \in {"have", "posting"} /\ Is(worker.job, t, y, n)

Carries(h, t, y, n) ==
  \/ h = "note" /\ NoteHas(t, y, n)
  \/ h = "flight" /\ FlightHas(t, y, n)
  \/ h = "queue" /\ QueueHas(t, y, n)
  \/ h = "event" /\ EventHas(t, y, n)
  \/ h = "handler" /\ HandlerHas(t, y, n)
  \/ h = "jobs" /\ JobsHave(t, y, n)
  \/ h = "worker" /\ WorkerHas(t, y, n)

\* One hand at most holds the end of a test ...
OneHand ==
  \A t \in Tests, h, k \in Hands, y, z \in Ending, n, m \in Nat :
    Carries(h, t, y, n) /\ Carries(k, t, z, m) => h = k

\* ... and holds it once.
HeldOnce ==
  /\ \A i, j \in DOMAIN queue : Final(queue[i]) /\ Final(queue[j]) /\ queue[i].test = queue[j].test => i = j
  /\ \A i, j \in DOMAIN jobs : jobs[i].test = jobs[j].test => i = j

Attempts ==
  /\ \A i \in DOMAIN jobs : jobs[i].attempt < MaxAttempts
  /\ worker.pc = "have" => worker.job.attempt < MaxAttempts
  /\ worker.pc = "posting" => worker.job.attempt <= MaxAttempts

\* What the holder knows of the test.
Knows(t, y, n) ==
  /\ record[t] \in Ended
  /\ y = Cancelled => record[t] \in {"CANCELLED", "gone"}
  /\ n = Len(posts[t])
  /\ n > 0 => posts[t][1].event = y

HandsKnow ==
  \A t \in Tests, h \in Hands, y \in Ending, n \in Nat : Carries(h, t, y, n) => Knows(t, y, n)

\* What has been posted of t.
Story(t) ==
  /\ Len(posts[t]) <= MaxAttempts
  /\ posts[t] # <<>> => posts[t][1].state \in Verdicts /\ record[t] \in {posts[t][1].state, "gone"}
  /\ \A i \in DOMAIN posts[t] :
       /\ posts[t][i] = [posts[t][1] EXCEPT !.attempt = i]
       /\ posts[t][i].event = Cancelled => posts[t][i].state = "CANCELLED"

Stories == \A t \in Tests : Story(t)

Inv ==
  TypeOK /\ Pending /\ Subscribed /\ Called /\ Published /\ OneHand /\ HeldOnce /\ Attempts /\ HandsKnow /\ Stories

-----------------------------------------------------------------------------
(* Sequences and jobs.                                                     *)

\* Cardinality means the same in EventBus.
LEMMA SameCardinality == \A S : Bus!Cardinality(S) = Cardinality(S)
BY DEF Bus!Cardinality, Cardinality

\* How many places of S are before k.
Rank(S, k) == Bus!Cardinality({j \in S : j < k})

\* The i-th place of a finite set of places exists, for every i up to its size.
LEMMA NthOf ==
  ASSUME NEW S, S \subseteq Nat, IsFiniteSet(S), NEW i \in 1..Cardinality(S)
  PROVE  /\ Bus!Nth(S, i) \in S
         /\ Rank(S, Bus!Nth(S, i)) = i - 1
<1> DEFINE Below(k) == {j \in S : j < k}
           f == [k \in S |-> Cardinality(Below(k))]
           n == Cardinality(S)
<1>1. \A T : Bus!Cardinality(T) = Cardinality(T)
  BY SameCardinality
<1>2. n \in Nat
  BY FS_CardinalityType
<1>3. \A k \in S : IsFiniteSet(Below(k)) /\ Cardinality(Below(k)) \in Nat /\ Cardinality(Below(k)) < n
  <2> TAKE k \in S
  <2>1. Below(k) \in SUBSET S /\ k \notin Below(k)
    OBVIOUS
  <2>2. IsFiniteSet(Below(k)) /\ Cardinality(Below(k)) <= n /\ (n = Cardinality(Below(k)) => S = Below(k))
    BY <2>1, FS_Subset
  <2>3. Cardinality(Below(k)) \in Nat
    BY <2>2, FS_CardinalityType
  <2> QED
    BY <1>2, <2>1, <2>2, <2>3
<1>4. \A k, l \in S : k < l => Cardinality(Below(k)) < Cardinality(Below(l))
  <2> SUFFICES ASSUME NEW k \in S, NEW l \in S, k < l PROVE Cardinality(Below(k)) < Cardinality(Below(l))
    OBVIOUS
  <2>1. Below(k) \in SUBSET Below(l) /\ k \in Below(l) /\ k \notin Below(k)
    <3>1. k \in Nat /\ l \in Nat /\ S \subseteq Nat
      OBVIOUS
    <3>2. \A j \in S : j < k => j < l
      BY <3>1
    <3>3. k < l /\ ~(k < k)
      BY <3>1
    <3> QED
      BY <3>2, <3>3, Zenon
  <2>2. Cardinality(Below(k)) <= Cardinality(Below(l)) /\ Cardinality(Below(k)) # Cardinality(Below(l))
    BY <1>3, <2>1, FS_Subset
  <2> QED
    BY <1>3, <2>2
<1>5. f \in [S -> 0..(n - 1)]
  BY <1>2, <1>3
<1>6. f \in Injection(S, 0..(n - 1))
  <2>1. \A k, l \in S : f[k] = f[l] => k = l
    <3> SUFFICES ASSUME NEW k \in S, NEW l \in S, f[k] = f[l] PROVE k = l
      OBVIOUS
    <3>1. k \in Nat /\ l \in Nat
      OBVIOUS
    <3>2. ~(k < l) /\ ~(l < k)
      BY <1>3, <1>4
    <3> QED
      BY <3>1, <3>2
  <2> QED
    BY <1>5, <2>1, Zenon DEF Injection, IsInjective
<1>7. IsFiniteSet(0..(n - 1)) /\ Cardinality(0..(n - 1)) = n
  <2> HIDE DEF n
  <2>1. n - 1 \in Int /\ (IF 0 > n - 1 THEN 0 ELSE (n - 1) - 0 + 1) = n
    BY <1>2
  <2> QED
    BY <2>1, FS_Interval
<1>8. f \in Surjection(S, 0..(n - 1))
  BY <1>6, <1>7, FS_Injection
<1>9. i - 1 \in 0..(n - 1)
  BY <1>2
<1>10. \E k \in S : Cardinality(Below(k)) = i - 1
  BY <1>8, <1>9 DEF Surjection
<1> QED
  BY <1>1, <1>10 DEF Bus!Nth, Rank

\* What a sequence has at a set of its places: a sequence of these elements,
\* each at a place of its own.
LEMMA OnlyOf ==
  ASSUME NEW E, NEW s \in Seq(E), NEW S, S \subseteq DOMAIN s
  PROVE  /\ Bus!Only(s, S) \in Seq(E)
         /\ \A i \in DOMAIN Bus!Only(s, S) : Bus!Nth(S, i) \in S /\ Bus!Only(s, S)[i] = s[Bus!Nth(S, i)]
         /\ \A i, j \in DOMAIN Bus!Only(s, S) : Bus!Nth(S, i) = Bus!Nth(S, j) => i = j
<1>1. DOMAIN s = 1..Len(s) /\ Len(s) \in Nat
  OBVIOUS
<1>2. IsFiniteSet(S) /\ S \subseteq Nat
  <2>1. IsFiniteSet(1..Len(s))
    BY <1>1, FS_Interval
  <2> QED
    BY <1>1, <2>1, FS_Subset
<1>3. Bus!Cardinality(S) = Cardinality(S) /\ Cardinality(S) \in Nat
  BY <1>2, FS_CardinalityType, SameCardinality
<1>4. \A i \in 1..Cardinality(S) :
        Bus!Nth(S, i) \in S /\ Rank(S, Bus!Nth(S, i)) = i - 1
  BY <1>2, NthOf
<1>5. DOMAIN Bus!Only(s, S) = 1..Cardinality(S)
  BY <1>3 DEF Bus!Only
<1>6. \A i \in 1..Cardinality(S) : Bus!Only(s, S)[i] = s[Bus!Nth(S, i)]
  BY <1>3 DEF Bus!Only
<1>7. \A i \in 1..Cardinality(S) : s[Bus!Nth(S, i)] \in E
  BY <1>1, <1>4
<1>8. Bus!Only(s, S) = [i \in 1..Cardinality(S) |-> s[Bus!Nth(S, i)]]
  BY <1>3 DEF Bus!Only
<1>9. Bus!Only(s, S) \in [1..Cardinality(S) -> E]
  BY <1>7, <1>8
<1>10. Bus!Only(s, S) \in Seq(E)
  BY <1>3, <1>9
<1>11. \A i, j \in 1..Cardinality(S) : Bus!Nth(S, i) = Bus!Nth(S, j) => i = j
  <2> SUFFICES ASSUME NEW i \in 1..Cardinality(S), NEW j \in 1..Cardinality(S), Bus!Nth(S, i) = Bus!Nth(S, j)
               PROVE  i = j
    OBVIOUS
  <2>1. i - 1 = j - 1
    BY <1>4
  <2> QED
    BY <1>3, <2>1
<1> QED
  BY <1>4, <1>5, <1>6, <1>10, <1>11

\* A nonempty set of natural numbers has a least element.
LEMMA LeastNatural ==
  ASSUME NEW T \in SUBSET Nat, T # {}
  PROVE  \E x \in T : \A y \in T : x <= y
<1>1. IsWellFoundedOn(OpToRel(<, Nat), Nat)
  BY NatLessThanWellFounded
<1>2. PICK x \in T : \A y \in T : ~(<<y, x>> \in OpToRel(<, Nat))
  BY <1>1, WFMin, Zenon
<1>3. \A y \in T : ~(y < x)
  BY <1>2, Zenon DEF OpToRel
<1> QED
  BY <1>3

\* The first of the jobs that are due earliest is one of them.
LEMMA EarliestIs ==
  ASSUME jobs \in Seq(Jobs), jobs # <<>>
  PROVE  Earliest \in DOMAIN jobs
<1> DEFINE Best(m, i) == \A k \in 1..m : jobs[i].due <= jobs[k].due /\ (k < i => jobs[k].due > jobs[i].due)
           Bad == {m \in 1..Len(jobs) : ~\E i \in 1..m : Best(m, i)}
<1>1. DOMAIN jobs = 1..Len(jobs) /\ Len(jobs) \in Nat \ {0} /\ \A k \in 1..Len(jobs) : jobs[k].due \in Int
  <2>1. DOMAIN jobs = 1..Len(jobs) /\ Len(jobs) \in Nat /\ Len(jobs) # 0
    BY LenProperties, EmptySeq
  <2>2. \A k \in 1..Len(jobs) : jobs[k] \in Jobs
    BY ElementOfSeq
  <2> QED
    BY <2>1, <2>2 DEF Jobs
<1>2. Bad = {}
  <2> SUFFICES ASSUME Bad # {} PROVE FALSE
    OBVIOUS
  <2>1. PICK m \in Bad : \A l \in Bad : m <= l
    <3>1. Bad \in SUBSET Nat
      BY <1>1
    <3> HIDE DEF Bad
    <3> QED
      BY <3>1, LeastNatural
  <2>2. m \in 1..Len(jobs) /\ ~\E i \in 1..m : Best(m, i)
    BY <2>1
  <2>3. m # 1
    <3>1. m = 1 => Best(m, 1)
      BY <1>1
    <3> QED
      BY <2>2, <3>1
  <2>4. m - 1 \in 1..Len(jobs) /\ m - 1 \notin Bad
    <3>1. m \in Nat /\ m - 1 \in 1..Len(jobs) /\ ~(m <= m - 1)
      BY <1>1, <2>2, <2>3
    <3> HIDE DEF Bad
    <3> QED
      BY <2>1, <3>1
  <2>5. PICK i \in 1..(m - 1) : Best(m - 1, i)
    BY <2>4
  <2>6. i \in 1..m /\ m \in 1..m /\ m \in Nat /\ i < m /\ i \in 1..Len(jobs) /\ m \in 1..Len(jobs)
    BY <1>1, <2>2, <2>5
  <2>7. CASE jobs[m].due < jobs[i].due
    <3>1. ASSUME NEW k \in 1..m PROVE jobs[m].due <= jobs[k].due /\ (k < m => jobs[k].due > jobs[m].due)
      <4>1. /\ jobs[k].due \in Int /\ jobs[m].due \in Int /\ jobs[i].due \in Int
            /\ k = m \/ k \in 1..(m - 1)
        <5> HIDE DEF Bad, Best
        <5>1. k \in 1..Len(jobs)
          BY <1>1, <2>6
        <5>2. k = m \/ k \in 1..(m - 1)
          BY <2>6
        <5> QED
          BY <1>1, <2>6, <5>1, <5>2
      <4>2. CASE k = m
        BY <4>1, <4>2, <2>6
      <4>3. CASE k \in 1..(m - 1)
        <5>1. jobs[i].due <= jobs[k].due
          BY <2>5, <4>3
        <5> HIDE DEF Bad, Best
        <5>2. jobs[k].due > jobs[m].due
          BY <2>7, <4>1, <5>1
        <5> QED
          BY <4>1, <5>2
      <4> QED
        BY <4>1, <4>2, <4>3
    <3>2. Best(m, m)
      BY <3>1
    <3> QED
      BY <2>2, <2>6, <3>2
  <2>8. CASE jobs[i].due <= jobs[m].due
    <3>1. Best(m, i)
      BY <1>1, <2>2, <2>5, <2>6, <2>8
    <3> QED
      BY <2>2, <2>6, <3>1
  <2> QED
    BY <1>1, <2>2, <2>6, <2>7, <2>8
<1>3. PICK i \in 1..Len(jobs) : Best(Len(jobs), i)
  <2>1. Len(jobs) \in 1..Len(jobs) /\ Len(jobs) \notin Bad
    <3> HIDE DEF Bad
    <3> QED
      BY <1>1, <1>2
  <2> QED
    BY <2>1
<1>4. /\ i \in DOMAIN jobs
      /\ \A k \in DOMAIN jobs : jobs[i].due <= jobs[k].due
      /\ \A k \in 1..(i - 1) : jobs[k].due > jobs[i].due
  BY <1>1, <1>3
<1> QED
  BY <1>4 DEF Earliest

-----------------------------------------------------------------------------
(* Types.                                                                  *)

LEMMA InitTypes == Init => TypeOK
<1> SUFFICES ASSUME Init PROVE TypeOK
  OBVIOUS
<1>1. <<>> \in Seq(Entries) /\ <<>> \in Seq(Events) /\ <<>> \in Seq(Ids) /\ <<>> \in Seq(Jobs) /\ <<>> \in Seq(Payloads)
  BY EmptySeq
<1>2. Bus!NoEvent \in Events
  BY DEF Bus!NoEvent, Events, Types
<1>3. BusTypes
  BY <1>1, <1>2 DEF Init, Bus!Init, BusTypes, Places
<1>4. record \in [Tests -> Unended \cup Ended] /\ note \in [Tests -> Events] /\ posts \in [Tests -> Seq(Payloads)]
  BY <1>1, <1>2 DEF Init, Unended, Ended
<1> QED
  BY <1>1, <1>3, <1>4 DEF Init, TypeOK, NotifierTypes, HubStates

\* What publish leaves of the types.
LEMMA PublishTypes ==
  ASSUME BusTypes, NEW p \in Places, NEW e \in Events, Bus!Publish(p, e)
  PROVE  BusTypes'
BY DEF BusTypes, Bus!Publish, Places

LEMMA EngineTypes ==
  ASSUME TypeOK, NEW t \in Tests,
         Dequeue(t) \/ CancelRunning(t) \/ CancelQueued(t) \/ Drop(t) \/ Complete(t) \/ PublishFinal(t)
  PROVE  TypeOK'
<1>1. CASE Dequeue(t)
  BY <1>1 DEF Dequeue, TypeOK, BusTypes, NotifierTypes, EngineOnly, busVars, Unended
<1>2. CASE CancelRunning(t)
  <2>1. Ev(Cancelled, t, "running") \in Events
    BY DEF Ev, Events, Types
  <2>2. BusTypes'
    BY <1>2, <2>1, PublishTypes DEF CancelRunning, TypeOK, Places
  <2>3. NotifierTypes'
    BY <1>2 DEF CancelRunning, TypeOK, NotifierTypes, EngineOnly, Unended
  <2> QED
    BY <2>2, <2>3 DEF TypeOK
<1>3. CASE CancelQueued(t)
  <2>1. Ev(Cancelled, t, "queued") \in Events
    BY DEF Ev, Events, Types
  <2> QED
    BY <1>3, <2>1 DEF CancelQueued, End, TypeOK, BusTypes, NotifierTypes, EngineOnly, busVars, Ended, Verdicts
<1>4. CASE Drop(t)
  BY <1>4 DEF Drop, TypeOK, BusTypes, NotifierTypes, EngineOnly, busVars, Ended
<1>5. CASE Complete(t)
  <2>1. Ev(Completed, t, "none") \in Events
    BY DEF Ev, Events, Types
  <2>2. PICK verdict \in Verdicts : End(t, verdict, Ev(Completed, t, "none"))
    BY <1>5 DEF Complete, Verdicts
  <2> QED
    BY <2>1, <2>2 DEF End, TypeOK, BusTypes, NotifierTypes, EngineOnly, busVars, Ended
<1>6. CASE PublishFinal(t)
  <2>1. note[t] \in Events /\ Bus!NoEvent \in Events
    BY DEF TypeOK, NotifierTypes, Events, Types, Bus!NoEvent
  <2>2. BusTypes'
    BY <1>6, <2>1, PublishTypes DEF PublishFinal, TypeOK, Places
  <2>3. NotifierTypes'
    BY <1>6, <2>1 DEF PublishFinal, TypeOK, NotifierTypes, EngineOnly
  <2> QED
    BY <2>2, <2>3 DEF TypeOK
<1> QED
  BY <1>1, <1>2, <1>3, <1>4, <1>5, <1>6

LEMMA BusStepTypes == TypeOK /\ BusStep => TypeOK'
<1> SUFFICES ASSUME TypeOK, BusStep PROVE TypeOK'
  OBVIOUS
<1>1. NotifierTypes'
  BY DEF BusStep, TypeOK, NotifierTypes, cbVars
<1>2. CASE \E p \in Places : Bus!Enqueue(p)
  <2>1. PICK p \in Places : Bus!Enqueue(p)
    BY <1>2
  <2>2. inflight[p] \in Events /\ Bus!NoEvent \in Events
    BY DEF TypeOK, BusTypes, Events, Types, Bus!NoEvent
  <2>3. Append(queue, inflight[p]) \in Seq(Events)
    BY <2>2 DEF TypeOK, BusTypes
  <2> QED
    BY <1>1, <2>1, <2>2, <2>3 DEF Bus!Enqueue, TypeOK, BusTypes
<1>3. CASE Bus!Take
  <2>1. Head(queue) \in Events /\ Tail(queue) \in Seq(Events)
    BY <1>3, HeadTailProperties DEF Bus!Take, TypeOK, BusTypes
  <2> QED
    BY <1>1, <1>3, <2>1 DEF Bus!Take, TypeOK, BusTypes
<1>4. CASE Bus!CopyHandlers
  <2> DEFINE S == {k \in DOMAIN handlers : Bus!Matches(handlers[k].pattern, event.type)}
             hit == Bus!Only(handlers, S)
  <2>1. hit \in Seq(Entries)
    <3>1. handlers \in Seq(Entries) /\ S \subseteq DOMAIN handlers
      BY DEF TypeOK, BusTypes
    <3> HIDE DEF S
    <3> QED
      BY <3>1, OnlyOf
  <2>2. [i \in DOMAIN hit |-> hit[i].id] \in Seq(Ids)
    <3>1. PICK s \in Seq(Entries) : s = hit
      BY <2>1
    <3>2. DOMAIN s = 1..Len(s) /\ Len(s) \in Nat /\ \A i \in 1..Len(s) : s[i].id \in Ids
      <4>1. DOMAIN s = 1..Len(s) /\ Len(s) \in Nat
        BY LenProperties
      <4>2. \A i \in 1..Len(s) : s[i] \in Entries
        BY ElementOfSeq
      <4> QED
        BY <4>1, <4>2 DEF Entries
    <3>3. [i \in DOMAIN s |-> s[i].id] \in Seq(Ids)
      BY <3>2
    <3> HIDE DEF hit
    <3> QED
      BY <3>1, <3>3
  <2>3. targets' = [i \in DOMAIN hit |-> hit[i].id]
    BY <1>4 DEF Bus!CopyHandlers
  <2> HIDE DEF hit
  <2> QED
    BY <1>1, <1>4, <2>2, <2>3 DEF Bus!CopyHandlers, TypeOK, BusTypes
<1>5. CASE Bus!Dispatched
  <2>1. Bus!NoEvent \in Events
    BY DEF Events, Types, Bus!NoEvent
  <2> QED
    BY <1>1, <1>5, <2>1 DEF Bus!Dispatched, TypeOK, BusTypes
<1> QED
  BY <1>2, <1>3, <1>4, <1>5 DEF BusStep, Places

LEMMA HandlerTypes == TypeOK /\ Called /\ (HandlerStep \/ Broadcast) => TypeOK'
<1> SUFFICES ASSUME TypeOK, Called, HandlerStep \/ Broadcast PROVE TypeOK'
  OBVIOUS
<1>1. Bus!Calls("completed") \/ Bus!Calls("cancelled") \/ Bus!Calls("ws") => Tail(targets) \in Seq(Ids)
  BY HeadTailProperties DEF Bus!Calls, TypeOK, BusTypes
<1>2. CASE HandlerReads
  <2>1. Tail(targets) \in Seq(Ids)
    BY <1>1, <1>2 DEF HandlerReads
  <2>2. BusTypes'
    BY <1>2, <2>1 DEF HandlerReads, TypeOK, BusTypes
  <2>3. CASE handler' = handler
    BY <1>2, <2>2, <2>3 DEF HandlerReads, TypeOK, NotifierTypes
  <2>4. CASE handler' # handler
    <3>1. /\ event.test \in WithCallback /\ Final(event)
          /\ handler' = [pc |-> "accept",
                         job |-> [test |-> event.test, type |-> event.type, attempt |-> 0, due |-> 0]]
      BY <1>2, <2>4 DEF HandlerReads, Relevant
    <3>2. event.test \in Tests /\ event.type \in Ending
      BY <3>1, NotifierAssumption DEF Final, Ending
    <3>3. [test |-> event.test, type |-> event.type, attempt |-> 0, due |-> 0] \in Jobs
      BY <3>2 DEF Jobs
    <3> QED
      BY <1>2, <2>2, <3>1, <3>3 DEF HandlerReads, TypeOK, NotifierTypes
  <2> QED
    BY <2>3, <2>4
<1>3. CASE HandlerAccepts
  <2>1. Tail(targets) \in Seq(Ids)
    BY <1>3, HeadTailProperties DEF HandlerAccepts, Called, TypeOK, BusTypes
  <2>2. PICK n \in Nat : n = stats.pending + 1
    BY DEF TypeOK, NotifierTypes
  <2>3. stats' = [stats EXCEPT !.pending = n] \/ stats' = stats
    BY <1>3, <2>2 DEF HandlerAccepts
  <2>4. stats' \in [pending : Nat, delivered : Nat, failed : Nat]
    BY <2>3 DEF TypeOK, NotifierTypes
  <2>5. /\ handler' \in [pc : {"off", "accept", "schedule"}, job : Jobs \cup {NoJob}]
        /\ handler'.pc # "off" => handler'.job \in Jobs
    BY <1>3 DEF HandlerAccepts, TypeOK, NotifierTypes
  <2>6. targets' \in Seq(Ids)
    BY <1>3, <2>1 DEF HandlerAccepts, TypeOK, BusTypes
  <2> QED
    BY <1>3, <2>4, <2>5, <2>6 DEF HandlerAccepts, TypeOK, BusTypes, NotifierTypes
<1>4. CASE HandlerSchedules
  <2>1. Tail(targets) \in Seq(Ids)
    BY <1>4, HeadTailProperties DEF HandlerSchedules, Called, TypeOK, BusTypes
  <2>2. jobs' \in Seq(Jobs)
    BY <1>4 DEF HandlerSchedules, TypeOK, NotifierTypes
  <2>3. /\ worker' \in [pc : {"off", "top", "locked", "waiting", "timed", "have", "posting", "delivered", "failed"},
                        job : Jobs \cup {NoJob}]
        /\ worker'.pc = worker.pc \/ worker'.pc = "top"
        /\ worker'.job = worker.job
    BY <1>4 DEF HandlerSchedules, Woken, TypeOK, NotifierTypes
  <2> QED
    BY <1>4, <2>1, <2>2, <2>3 DEF HandlerSchedules, Bus!HandlerReturns, TypeOK, BusTypes, NotifierTypes
<1>5. CASE Broadcast
  BY <1>1, <1>5 DEF Broadcast, Bus!HandlerReturns, TypeOK, BusTypes, NotifierTypes, cbVars
<1> QED
  BY <1>2, <1>3, <1>4, <1>5 DEF HandlerStep

\* How many elements of n are left around the i-th of them.
LEMMA CountWithoutOne ==
  ASSUME NEW n \in Nat, NEW i \in Nat, NEW m \in Int, m = i - 1
  PROVE  m + (n - i) = n - 1
OBVIOUS

\* The places of a sequence of n elements, without the i-th of them.
LEMMA PlacesWithoutOne ==
  ASSUME NEW n \in Nat, NEW i \in 1..n, NEW m \in Int, m = i - 1, NEW k \in 1..(n - 1)
  PROVE  /\ m \in Nat /\ k \in 1..(m + (n - i))
         /\ k < i => k <= m /\ k \in 1..m
         /\ ~(k < i) => ~(k <= m) /\ k - m \in 1..(n - i) /\ i + (k - m) = k + 1
OBVIOUS

\* The jobs without one of them.
LEMMA WithoutOne ==
  ASSUME jobs \in Seq(Jobs), NEW i \in DOMAIN jobs
  PROVE  /\ Without(i) \in Seq(Jobs)
         /\ Len(Without(i)) = Len(jobs) - 1
         /\ \A k \in DOMAIN Without(i) :
              Without(i)[k] = jobs[IF k < i THEN k ELSE k + 1]
<1>1. DOMAIN jobs = 1..Len(jobs) /\ Len(jobs) \in Nat
  BY LenProperties
<1>2. /\ SubSeq(jobs, 1, i - 1) \in Seq(Jobs) /\ Len(SubSeq(jobs, 1, i - 1)) = i - 1
      /\ \A k \in 1..(i - 1) : SubSeq(jobs, 1, i - 1)[k] = jobs[k]
  BY <1>1, SubSeqProperties
<1>3. /\ SubSeq(jobs, i + 1, Len(jobs)) \in Seq(Jobs) /\ Len(SubSeq(jobs, i + 1, Len(jobs))) = Len(jobs) - i
      /\ \A k \in 1..(Len(jobs) - i) : SubSeq(jobs, i + 1, Len(jobs))[k] = jobs[i + k]
  BY <1>1, SubSeqProperties
<1>4. PICK n \in Nat : n = Len(jobs) /\ i \in 1..n
  BY <1>1
<1>5. PICK m \in Int : m = i - 1
  BY <1>4
<1>6. PICK a \in Seq(Jobs) : a = SubSeq(jobs, 1, i - 1)
  BY <1>2
<1>7. PICK b \in Seq(Jobs) : b = SubSeq(jobs, i + 1, Len(jobs))
  BY <1>3
<1>8. Len(a) = m /\ Len(b) = n - i /\ Without(i) = a \o b
  BY <1>2, <1>3, <1>4, <1>5, <1>6, <1>7 DEF Without
<1>9. /\ a \o b \in Seq(Jobs) /\ Len(a \o b) = Len(a) + Len(b)
      /\ \A k \in 1..(Len(a) + Len(b)) : (a \o b)[k] = IF k <= Len(a) THEN a[k] ELSE b[k - Len(a)]
  BY ConcatProperties
<1>10. /\ \A k \in 1..m : a[k] = jobs[k]
       /\ \A k \in 1..(n - i) : b[k] = jobs[i + k]
       /\ \A k \in 1..(m + (n - i)) : (a \o b)[k] = IF k <= m THEN a[k] ELSE b[k - m]
  BY <1>2, <1>3, <1>4, <1>5, <1>6, <1>7, <1>8, <1>9
<1>11. m + (n - i) = n - 1
  <2>1. i \in Nat
    BY <1>4
  <2> QED
    BY <1>5, <2>1, CountWithoutOne
<1>12. Len(a \o b) = n - 1 /\ DOMAIN (a \o b) = 1..(n - 1)
  BY <1>8, <1>9, <1>11, LenProperties
<1>13. ASSUME NEW k \in 1..(n - 1) PROVE (a \o b)[k] = jobs[IF k < i THEN k ELSE k + 1]
  <2>1. /\ k \in 1..(m + (n - i))
        /\ k < i => k <= m /\ k \in 1..m
        /\ ~(k < i) => ~(k <= m) /\ k - m \in 1..(n - i) /\ i + (k - m) = k + 1
    BY <1>4, <1>5, PlacesWithoutOne
  <2>2. CASE k < i
    BY <1>10, <2>1, <2>2
  <2>3. CASE ~(k < i)
    <3>1. b[k - m] = jobs[k + 1]
      BY <1>10, <2>1, <2>3
    <3> QED
      BY <1>10, <2>1, <2>3, <3>1
  <2> QED
    BY <2>2, <2>3
<1> QED
  BY <1>4, <1>8, <1>9, <1>12, <1>13

\* A settled callback is not pending any more.
LEMMA SettledIs ==
  ASSUME stats \in [pending : Nat, delivered : Nat, failed : Nat]
  PROVE  /\ Settled(stats) \in [pending : Nat, delivered : Nat, failed : Nat]
         /\ stats.pending > 0 => Settled(stats).pending = stats.pending - 1
<1>1. PICK n \in Nat : n = (IF stats.pending > 0 THEN stats.pending - 1 ELSE 0)
  OBVIOUS
<1>2. Settled(stats) = [stats EXCEPT !.pending = n]
  BY <1>1 DEF Settled
<1> QED
  BY <1>1, <1>2

LEMMA WorkerTypes == TypeOK /\ (WorkerStep \/ Tick) => TypeOK'
<1> SUFFICES ASSUME TypeOK, WorkerStep \/ Tick PROVE TypeOK'
  OBVIOUS
<1>1. CASE WorkerLooks
  <2>1. jobs # <<>> => jobs[Earliest] \in Jobs /\ Without(Earliest) \in Seq(Jobs)
    BY EarliestIs, WithoutOne, ElementOfSeq DEF TypeOK, NotifierTypes
  <2>2. jobs' \in Seq(Jobs)
    BY <1>1, <2>1 DEF WorkerLooks, TypeOK, NotifierTypes
  <2>3. /\ worker' \in [pc : {"off", "top", "locked", "waiting", "timed", "have", "posting", "delivered", "failed"},
                        job : Jobs \cup {NoJob}]
        /\ worker'.pc \in {"have", "posting", "delivered", "failed"} => worker'.job \in Jobs
    BY <1>1, <2>1 DEF WorkerLooks, TypeOK, NotifierTypes
  <2> QED
    BY <1>1, <2>2, <2>3 DEF WorkerLooks, WorkerOnly, busVars, TypeOK, BusTypes, NotifierTypes
<1>2. CASE WorkerWaits
  BY <1>2 DEF WorkerWaits, WorkerOnly, busVars, TypeOK, BusTypes, NotifierTypes
<1>3. CASE WorkerTimedOut
  BY <1>3 DEF WorkerTimedOut, Free, WorkerOnly, busVars, TypeOK, BusTypes, NotifierTypes
<1>4. CASE Process
  <2> DEFINE t == worker.job.test
  <2>1. worker.job \in Jobs /\ t \in Tests
    BY <1>4 DEF Process, TypeOK, NotifierTypes, Jobs
  <2>2. PICK n \in Nat : n = worker.job.attempt + 1
    BY <2>1 DEF Jobs
  <2>3. [worker.job EXCEPT !.attempt = n] \in Jobs
    BY <2>1 DEF Jobs
  <2>4. CASE record[t] = "gone"
    <3>1. Settled(stats) \in [pending : Nat, delivered : Nat, failed : Nat]
      BY SettledIs DEF TypeOK, NotifierTypes
    <3> QED
      BY <1>4, <2>4, <3>1 DEF Process, Free, WorkerOnly, busVars, TypeOK, BusTypes, NotifierTypes
  <2>5. CASE record[t] # "gone"
    <3>1. worker' = [pc |-> "posting", job |-> [worker.job EXCEPT !.attempt = n]]
      BY <1>4, <2>2, <2>5 DEF Process
    <3>2. posts' \in [Tests -> Seq(Payloads)]
      <4>1. Payload(worker.job) \in Payloads
        BY <2>1, <2>2 DEF Payload, Payloads, Jobs, TypeOK, NotifierTypes
      <4>2. Append(posts[t], Payload(worker.job)) \in Seq(Payloads)
        BY <2>1, <4>1 DEF TypeOK, NotifierTypes
      <4> QED
        BY <1>4, <2>1, <2>5, <4>2 DEF Process, TypeOK, NotifierTypes
    <3>3. n > 0 /\ [worker.job EXCEPT !.attempt = n].attempt = n
      BY <2>1, <2>2 DEF Jobs
    <3> QED
      BY <1>4, <2>3, <2>5, <3>1, <3>2, <3>3 DEF Process, WorkerOnly, busVars, TypeOK, BusTypes, NotifierTypes
  <2> QED
    BY <2>4, <2>5
<1>5. CASE Delivered \/ GiveUp
  <2>1. stats' \in [pending : Nat, delivered : Nat, failed : Nat]
    <3> DEFINE Stats == [pending : Nat, delivered : Nat, failed : Nat]
    <3>1. PICK s \in Stats : s = Settled(stats)
      BY SettledIs DEF TypeOK, NotifierTypes
    <3>2. [s EXCEPT !.delivered = @ + 1] \in Stats /\ [s EXCEPT !.failed = @ + 1] \in Stats
      OBVIOUS
    <3> QED
      BY <1>5, <3>1, <3>2 DEF Delivered, GiveUp
  <2> QED
    BY <1>5, <2>1 DEF Delivered, GiveUp, WorkerOnly, busVars, TypeOK, BusTypes, NotifierTypes
<1>6. CASE Retry
  <2>1. worker.job \in Jobs
    BY <1>6 DEF Retry, TypeOK, NotifierTypes
  <2>2. PICK d \in Int : d = Backoff * 2 ^ (worker.job.attempt - 1)
    <3>1. worker.job.attempt - 1 \in Nat /\ Backoff \in Int
      BY <1>6, <2>1, NotifierAssumption DEF Retry, Jobs, TypeOK, NotifierTypes
    <3>2. 2 ^ (worker.job.attempt - 1) \in Int
      BY <3>1
    <3> QED
      BY <3>1, <3>2
  <2>3. [worker.job EXCEPT !.due = d] \in Jobs
    BY <2>1 DEF Jobs
  <2>4. jobs' \in Seq(Jobs)
    BY <1>6, <2>2, <2>3 DEF Retry, TypeOK, NotifierTypes
  <2> QED
    BY <1>6, <2>4 DEF Retry, Free, WorkerOnly, busVars, TypeOK, BusTypes, NotifierTypes
<1>7. CASE PublishOutcome
  <2>1. Ev(<<"callback", worker.pc>>, worker.job.test, "none") \in Events
    BY <1>7 DEF PublishOutcome, Ev, Events, Types, CallbackTypes, TypeOK, NotifierTypes, Jobs
  <2>2. BusTypes'
    BY <1>7, <2>1, PublishTypes DEF PublishOutcome, TypeOK, Places
  <2> QED
    BY <1>7, <2>2 DEF PublishOutcome, Free, WorkerOnly, TypeOK, NotifierTypes
<1>8. CASE Tick
  <2>1. DOMAIN jobs = 1..Len(jobs) /\ Len(jobs) \in Nat /\ \A i \in 1..Len(jobs) : jobs[i] \in Jobs
    BY LenProperties, ElementOfSeq DEF TypeOK, NotifierTypes
  <2>2. \A r \in Jobs : [r EXCEPT !.due = @ - 1] \in Jobs
    BY DEF Jobs
  <2>3. jobs' \in Seq(Jobs)
    BY <1>8, <2>1, <2>2 DEF Tick
  <2> QED
    BY <1>8, <2>3 DEF Tick, busVars, TypeOK, BusTypes, NotifierTypes
<1> QED
  BY <1>1, <1>2, <1>3, <1>4, <1>5, <1>6, <1>7, <1>8 DEF WorkerStep

LEMMA HubTypes == TypeOK /\ (HubStep \/ Stop) => TypeOK'
<1> SUFFICES ASSUME TypeOK, HubStep \/ Stop PROVE TypeOK'
  OBVIOUS
<1>1. ASSUME NEW id \in Ids, NEW p \in Patterns, Bus!Subscribe(id, p) PROVE BusTypes'
  BY <1>1 DEF Bus!Subscribe, TypeOK, BusTypes, Entries
<1>2. ASSUME NEW id \in Ids, Bus!Unsubscribe(id) PROVE BusTypes'
  <2> DEFINE S == {k \in DOMAIN handlers : handlers[k].id # id}
  <2>1. handlers \in Seq(Entries) /\ S \subseteq DOMAIN handlers /\ handlers' = Bus!Only(handlers, S)
    BY <1>2 DEF TypeOK, BusTypes, Bus!Unsubscribe
  <2> HIDE DEF S
  <2>2. handlers' \in Seq(Entries)
    BY <2>1, OnlyOf
  <2> QED
    BY <1>2, <2>2 DEF Bus!Unsubscribe, TypeOK, BusTypes
<1>3. CASE Initialize
  BY <1>1, <1>3 DEF Initialize, HubOnly, HubStates, Ids, Patterns, TypeOK, NotifierTypes
<1>4. CASE StartNotifier
  BY <1>1, <1>4 DEF StartNotifier, Free, HubOnly, HubStates, Ids, Patterns, TypeOK, NotifierTypes
<1>5. CASE SubscribeCancelled
  BY <1>1, <1>5 DEF SubscribeCancelled, HubOnly, HubStates, Ids, Patterns, TypeOK, NotifierTypes
<1>6. CASE WaitedForIdle \/ StopFlag
  BY <1>6 DEF WaitedForIdle, StopFlag, HubOnly, HubStates, busVars, TypeOK, BusTypes, NotifierTypes
<1>7. CASE UnsubscribeCompleted \/ UnsubscribeCancelled \/ StopServers
  BY <1>2, <1>7 DEF UnsubscribeCompleted, UnsubscribeCancelled, StopServers, HubOnly, HubStates, Ids, TypeOK, NotifierTypes
<1>8. CASE NotifyWorker
  BY <1>8 DEF NotifyWorker, Woken, HubOnly, HubStates, busVars, TypeOK, BusTypes, NotifierTypes
<1>9. CASE JoinWorker
  <2>1. stats' \in [pending : Nat, delivered : Nat, failed : Nat] /\ jobs' \in Seq(Jobs)
    BY <1>9, EmptySeq DEF JoinWorker, TypeOK, NotifierTypes
  <2> QED
    BY <1>9, <2>1 DEF JoinWorker, HubStates, busVars, TypeOK, BusTypes, NotifierTypes
<1>10. CASE Stop
  <2>1. Ev(Stopping, "none", "none") \in Events
    BY DEF Ev, Events, Types
  <2>2. BusTypes'
    BY <1>10, <2>1, PublishTypes DEF Stop, TypeOK, Places
  <2> QED
    BY <1>10, <2>2 DEF Stop, HubOnly, HubStates, TypeOK, NotifierTypes
<1> QED
  BY <1>3, <1>4, <1>5, <1>6, <1>7, <1>8, <1>9, <1>10 DEF HubStep

LEMMA NextTypes == TypeOK /\ Called /\ [Next]_vars => TypeOK'
<1> SUFFICES ASSUME TypeOK, Called, [Next]_vars PROVE TypeOK'
  OBVIOUS
<1>1. CASE UNCHANGED vars
  BY <1>1 DEF vars, TypeOK, BusTypes, NotifierTypes
<1> QED
  BY <1>1, EngineTypes, BusStepTypes, HandlerTypes, WorkerTypes, HubTypes DEF Next, EngineEnds

-----------------------------------------------------------------------------
(* The pending counter.                                                    *)

LEMMA NextPending == TypeOK /\ TypeOK' /\ Pending /\ [Next]_vars => Pending'
<1> SUFFICES ASSUME TypeOK, TypeOK', Pending, [Next]_vars PROVE Pending'
  OBVIOUS
<1>1. stats.pending \in Nat /\ Len(jobs) \in Nat /\ jobs \in Seq(Jobs)
  BY LenProperties DEF TypeOK, NotifierTypes
<1>2. CASE UNCHANGED <<jobs, stats, worker, handler, hub>>
  BY <1>2 DEF Pending, PendingExact, Outstanding
<1>3. CASE HandlerReads
  <2>1. handler.pc = "off" /\ handler'.pc # "schedule"
    BY <1>3 DEF HandlerReads
  <2>2. UNCHANGED <<jobs, stats, worker, hub>>
    BY <1>3 DEF HandlerReads
  <2> QED
    BY <2>1, <2>2 DEF Pending, PendingExact, Outstanding
<1>4. CASE HandlerAccepts
  <2>1. CASE running
    <3>1. stats'.pending = stats.pending + 1 /\ handler'.pc = "schedule"
      BY <1>4, <2>1 DEF HandlerAccepts, TypeOK, NotifierTypes
    <3> QED
      BY <1>1, <1>4, <2>1, <3>1 DEF HandlerAccepts, Pending, PendingExact, Outstanding
  <2>2. CASE ~running
    <3>1. handler.pc = "accept" /\ handler'.pc = "off" /\ UNCHANGED <<jobs, stats, worker, hub>>
      BY <1>4, <2>2 DEF HandlerAccepts
    <3> QED
      BY <3>1 DEF Pending, PendingExact, Outstanding
  <2> QED
    BY <2>1, <2>2
<1>5. CASE HandlerSchedules
  <2>1. Len(jobs') = Len(jobs) + 1
    BY <1>1, <1>5, AppendProperties DEF HandlerSchedules, TypeOK, NotifierTypes
  <2>2. /\ worker.pc \in {"have", "posting"} <=> worker'.pc \in {"have", "posting"}
        /\ worker.pc = "off" => worker'.pc = "off"
    BY <1>5 DEF HandlerSchedules, Woken, TypeOK, NotifierTypes
  <2> QED
    BY <1>1, <1>5, <2>1, <2>2 DEF HandlerSchedules, Pending, PendingExact, Outstanding
<1>6. CASE WorkerLooks
  <2>1. CASE worker'.pc = "have"
    <3>1. Len(jobs') = Len(jobs) - 1
      BY <1>1, <1>6, <2>1, EarliestIs, WithoutOne DEF WorkerLooks, TypeOK, NotifierTypes
    <3> QED
      BY <1>1, <1>6, <2>1, <3>1 DEF WorkerLooks, WorkerOnly, Pending, PendingExact, Outstanding
  <2>2. CASE worker'.pc # "have"
    <3>1. jobs' = jobs /\ worker'.pc \notin {"have", "posting"}
      BY <1>1, <1>6, <2>2 DEF WorkerLooks, TypeOK, NotifierTypes
    <3> QED
      BY <1>1, <1>6, <3>1 DEF WorkerLooks, WorkerOnly, Pending, PendingExact, Outstanding
  <2> QED
    BY <2>1, <2>2
<1>7. CASE WorkerWaits \/ WorkerTimedOut \/ PublishOutcome
  <2>1. worker.pc \notin {"off", "have", "posting"} /\ worker'.pc \notin {"have", "posting"}
    BY <1>7 DEF WorkerWaits, WorkerTimedOut, PublishOutcome, Free, TypeOK, NotifierTypes
  <2> QED
    BY <1>7, <2>1 DEF WorkerWaits, WorkerTimedOut, PublishOutcome, WorkerOnly, Pending, PendingExact, Outstanding
<1>8. CASE Process
  <2>1. CASE record[worker.job.test] = "gone"
    <3>1. stats.pending > 0 => stats'.pending = stats.pending - 1
      BY <1>8, <2>1, SettledIs DEF Process, TypeOK, NotifierTypes
    <3> QED
      <4>1. worker.pc = "have" /\ worker'.pc = "top" /\ UNCHANGED <<jobs, handler, hub>>
        BY <1>8, <2>1 DEF Process, Free, WorkerOnly
      <4> QED
        BY <1>1, <3>1, <4>1 DEF Pending, PendingExact, Outstanding
  <2>2. CASE record[worker.job.test] # "gone"
    BY <1>8, <2>2 DEF Process, WorkerOnly, Pending, PendingExact, Outstanding
  <2> QED
    BY <2>1, <2>2
<1>9. CASE Delivered \/ GiveUp
  <2>1. stats.pending > 0 => stats'.pending = stats.pending - 1
    <3>1. Settled(stats) \in [pending : Nat, delivered : Nat, failed : Nat]
      BY SettledIs DEF TypeOK, NotifierTypes
    <3>2. stats'.pending = Settled(stats).pending
      BY <1>9, <3>1 DEF Delivered, GiveUp
    <3> QED
      BY <3>2, SettledIs DEF TypeOK, NotifierTypes
  <2>2. worker.pc = "posting" /\ worker'.pc \notin {"have", "posting"}
    BY <1>9 DEF Delivered, GiveUp, TypeOK, NotifierTypes
  <2> QED
    <3>1. UNCHANGED <<jobs, handler, hub>>
      BY <1>9 DEF Delivered, GiveUp, WorkerOnly
    <3>2. hub \notin {"ws", "stopped"} =>
            stats.pending = Len(jobs) + 1 + (IF handler.pc = "schedule" THEN 1 ELSE 0)
      BY <2>2 DEF Pending, PendingExact, Outstanding
    <3>3. hub \notin {"ws", "stopped"} =>
            stats'.pending = Len(jobs) + (IF handler.pc = "schedule" THEN 1 ELSE 0)
      BY <1>1, <2>1, <3>2
    <3>4. Outstanding' = Len(jobs) + 0 + (IF handler.pc = "schedule" THEN 1 ELSE 0)
      BY <2>2, <3>1 DEF Outstanding
    <3> QED
      BY <1>1, <2>2, <3>1, <3>3, <3>4 DEF Pending, PendingExact
<1>10. CASE Retry
  <2>1. Len(jobs') = Len(jobs) + 1
    BY <1>1, <1>10, AppendProperties DEF Retry, TypeOK, NotifierTypes
  <2> QED
    BY <1>1, <1>10, <2>1 DEF Retry, Free, WorkerOnly, Pending, PendingExact, Outstanding
<1>11. CASE Tick
  <2>1. Len(jobs') = Len(jobs)
    BY <1>1, <1>11, LenProperties DEF Tick, TypeOK, NotifierTypes
  <2> QED
    BY <1>11, <2>1 DEF Tick, Pending, PendingExact, Outstanding
<1>12. CASE Initialize \/ SubscribeCancelled \/ Stop \/ WaitedForIdle \/ StopFlag
              \/ UnsubscribeCompleted \/ UnsubscribeCancelled \/ StopServers
  <2>1. UNCHANGED <<jobs, stats, worker, handler>>
    BY <1>12 DEF Initialize, SubscribeCancelled, Stop, WaitedForIdle, StopFlag, UnsubscribeCompleted,
                 UnsubscribeCancelled, StopServers, HubOnly
  <2>2. /\ hub' \in {"new", "initialized"} => hub \in {"new", "initialized"}
        /\ hub \in {"ws", "stopped"} => hub' \in {"ws", "stopped"}
    BY <1>12 DEF Initialize, SubscribeCancelled, Stop, WaitedForIdle, StopFlag, UnsubscribeCompleted,
                 UnsubscribeCancelled, StopServers
  <2> QED
    BY <2>1, <2>2 DEF Pending, PendingExact, Outstanding
<1>13. CASE StartNotifier
  BY <1>13 DEF StartNotifier, Free, HubOnly, Pending, PendingExact, Outstanding
<1>14. CASE NotifyWorker
  <2>1. worker.pc \in {"have", "posting"} <=> worker'.pc \in {"have", "posting"}
    BY <1>14 DEF NotifyWorker, Woken, TypeOK, NotifierTypes
  <2> QED
    BY <1>14, <2>1 DEF NotifyWorker, HubOnly, Pending, PendingExact, Outstanding
<1>15. CASE JoinWorker
  BY <1>15 DEF JoinWorker, Pending, PendingExact
<1>16. CASE \E t \in Tests : Dequeue(t) \/ CancelRunning(t) \/ CancelQueued(t) \/ Drop(t) \/ Complete(t) \/ PublishFinal(t)
  BY <1>2, <1>16 DEF Dequeue, CancelRunning, CancelQueued, Drop, Complete, PublishFinal, End, EngineOnly
<1>17. CASE BusStep \/ Broadcast
  BY <1>2, <1>17 DEF BusStep, Broadcast, cbVars
<1>18. CASE UNCHANGED vars
  BY <1>2, <1>18 DEF vars
<1> QED
  BY <1>3, <1>4, <1>5, <1>6, <1>7, <1>8, <1>9, <1>10, <1>11, <1>12, <1>13, <1>14, <1>15, <1>16, <1>17, <1>18
  DEF Next, EngineEnds, HandlerStep, WorkerStep, HubStep

-----------------------------------------------------------------------------
(* Subscriptions and calls.                                                *)

\* What the bus's tables are after an id is added or taken.
LEMMA NextSubscribed == TypeOK /\ TypeOK' /\ Subscribed /\ [Next]_vars => Subscribed'
<1> SUFFICES ASSUME TypeOK, TypeOK', Subscribed, [Next]_vars PROVE Subscribed'
  OBVIOUS
<1>1. CASE UNCHANGED <<handlers, hub>>
  BY <1>1 DEF Subscribed
<1>2. ASSUME NEW id \in Ids, NEW p \in Patterns, Bus!Subscribe(id, p)
      PROVE  /\ Len(handlers) \in Nat /\ DOMAIN handlers = 1..Len(handlers)
             /\ DOMAIN handlers' = 1..(Len(handlers) + 1)
             /\ \A i \in 1..Len(handlers) : handlers'[i] = handlers[i]
             /\ handlers'[Len(handlers) + 1] = [id |-> id, pattern |-> p]
  <2>1. PICK e \in Entries : e = [id |-> id, pattern |-> p]
    BY DEF Entries
  <2>2. handlers' = Append(handlers, e) /\ handlers \in Seq(Entries)
    BY <1>2, <2>1 DEF Bus!Subscribe, TypeOK, BusTypes
  <2> QED
    BY <2>1, <2>2, AppendProperties, LenProperties
<1>3. CASE Initialize
  <2>1. DOMAIN handlers = {}
    BY <1>3 DEF Initialize, Subscribed
  <2>2. Bus!Subscribe("ws", <<"*">>) /\ hub' = "initialized"
    BY <1>3 DEF Initialize
  <2>3. Len(handlers) = 0
    BY <1>2, <2>1, <2>2 DEF Ids, Patterns
  <2> QED
    BY <1>2, <2>2, <2>3 DEF Subscribed, Ids, Patterns
<1>4. CASE StartNotifier
  <2>1. Bus!Subscribe("completed", Completed) /\ hub = "initialized" /\ hub' = "completed"
    BY <1>4 DEF StartNotifier
  <2> QED
    BY <1>2, <2>1 DEF Subscribed, Ids, Patterns
<1>5. CASE SubscribeCancelled
  <2>1. Bus!Subscribe("cancelled", Cancelled) /\ hub = "completed" /\ hub' = "up"
    BY <1>5 DEF SubscribeCancelled
  <2> DEFINE n == Len(handlers)
  <2>2. /\ n \in Nat /\ DOMAIN handlers = 1..n /\ DOMAIN handlers' = 1..(n + 1)
        /\ \A i \in 1..n : handlers'[i] = handlers[i]
        /\ handlers'[n + 1].id = "cancelled" /\ handlers'[n + 1].pattern = Cancelled
    BY <1>2, <2>1 DEF Ids, Patterns
  <2>3. \A i \in 1..n : handlers[i].id # "cancelled"
    BY <2>1, <2>2 DEF Subscribed
  <2> HIDE DEF n
  <2>4. \A i \in 1..(n + 1) : i \in 1..n \/ i = n + 1
    BY <2>2
  <2> QED
    BY <2>1, <2>2, <2>3, <2>4 DEF Subscribed
<1>6. CASE UnsubscribeCompleted \/ UnsubscribeCancelled \/ StopServers
  <2>1. PICK id \in Ids : Bus!Unsubscribe(id)
    BY <1>6 DEF UnsubscribeCompleted, UnsubscribeCancelled, StopServers, Ids
  <2> DEFINE S == {k \in DOMAIN handlers : handlers[k].id # id}
  <2>2. handlers \in Seq(Entries) /\ S \subseteq DOMAIN handlers /\ handlers' = Bus!Only(handlers, S)
    BY <2>1 DEF TypeOK, BusTypes, Bus!Unsubscribe
  <2> HIDE DEF S
  <2>3. /\ \A i \in DOMAIN handlers' : Bus!Nth(S, i) \in DOMAIN handlers /\ handlers'[i] = handlers[Bus!Nth(S, i)]
        /\ \A i, j \in DOMAIN handlers' : Bus!Nth(S, i) = Bus!Nth(S, j) => i = j
    BY <2>2, OnlyOf
  <2>4. hub' \notin {"new", "initialized", "completed"}
    BY <1>6 DEF UnsubscribeCompleted, UnsubscribeCancelled, StopServers
  <2> QED
    BY <2>3, <2>4 DEF Subscribed
<1>7. CASE Stop \/ WaitedForIdle \/ StopFlag \/ NotifyWorker \/ JoinWorker
  <2>1. handlers' = handlers /\ hub' \notin {"new", "initialized", "completed"}
    BY <1>7 DEF Stop, WaitedForIdle, StopFlag, NotifyWorker, JoinWorker, Bus!Publish, busVars
  <2> QED
    BY <2>1 DEF Subscribed
<1>8. CASE \E t \in Tests : Dequeue(t) \/ CancelRunning(t) \/ CancelQueued(t) \/ Drop(t) \/ Complete(t) \/ PublishFinal(t)
  BY <1>1, <1>8 DEF Dequeue, CancelRunning, CancelQueued, Drop, Complete, PublishFinal, End, EngineOnly, busVars, Bus!Publish
<1>9. CASE BusStep
  BY <1>1, <1>9 DEF BusStep, Bus!Enqueue, Bus!Take, Bus!CopyHandlers, Bus!Dispatched
<1>10. CASE HandlerStep \/ Broadcast
  BY <1>1, <1>10 DEF HandlerStep, HandlerReads, HandlerAccepts, HandlerSchedules, Broadcast, Bus!HandlerReturns
<1>11. CASE WorkerStep \/ Tick
  BY <1>1, <1>11 DEF WorkerStep, Tick, WorkerLooks, WorkerWaits, WorkerTimedOut, Process, Delivered, Retry, GiveUp,
                     PublishOutcome, WorkerOnly, busVars, Bus!Publish
<1>12. CASE UNCHANGED vars
  BY <1>1, <1>12 DEF vars
<1> QED
  BY <1>3, <1>4, <1>5, <1>6, <1>7, <1>8, <1>9, <1>10, <1>11, <1>12 DEF Next, EngineEnds, HubStep

\* The event types are different.
LEMMA TypesDiffer ==
  /\ Completed # Cancelled
  /\ Stopping \notin Ending /\ <<"none">> \notin Ending /\ CallbackTypes \cap Ending = {}
BY DEF Completed, Cancelled, Stopping, Ending, CallbackTypes

\* The pattern of an ending event matches no other type.
LEMMA MatchesOwn ==
  /\ \A type \in Types : Bus!Matches(Completed, type) => type = Completed
  /\ \A type \in Types : Bus!Matches(Cancelled, type) => type = Cancelled
BY DEF Bus!Matches, Completed, Cancelled

\* The handlers copied for an event are called once each, and for their own type.
LEMMA CallTargets ==
  ASSUME TypeOK, TypeOK', Subscribed, Called, Bus!CopyHandlers, UNCHANGED handler
  PROVE  Called'
<1> DEFINE S == {k \in DOMAIN handlers : Bus!Matches(handlers[k].pattern, event.type)}
<1>1. handlers \in Seq(Entries) /\ S \subseteq DOMAIN handlers
  BY DEF TypeOK, BusTypes
<1>2. PICK hit \in Seq(Entries) :
        /\ hit = Bus!Only(handlers, S)
        /\ \A i \in DOMAIN hit : Bus!Nth(S, i) \in S /\ hit[i] = handlers[Bus!Nth(S, i)]
        /\ \A i, j \in DOMAIN hit : Bus!Nth(S, i) = Bus!Nth(S, j) => i = j
  <2> HIDE DEF S
  <2> QED
    BY <1>1, OnlyOf
<1>3. targets' = [i \in DOMAIN hit |-> hit[i].id] /\ event' = event
  BY <1>2 DEF Bus!CopyHandlers
<1>4. event.type \in Types
  BY DEF TypeOK, BusTypes, Events
<1>5. \A k \in S : /\ k \in DOMAIN handlers
                   /\ handlers[k].id = "completed" => event.type = Completed
                   /\ handlers[k].id = "cancelled" => event.type = Cancelled
  BY <1>4, MatchesOwn DEF Subscribed
<1> HIDE DEF S
<1>6. \A i \in DOMAIN targets' : i \in DOMAIN hit /\ targets'[i] = handlers[Bus!Nth(S, i)].id
  BY <1>2, <1>3
<1>7. \A i, j \in DOMAIN targets' : targets'[i] = targets'[j] => i = j
  BY <1>2, <1>5, <1>6 DEF Subscribed
<1>8. \A i \in DOMAIN targets' : /\ targets'[i] = "completed" => event'.type = Completed
                                 /\ targets'[i] = "cancelled" => event'.type = Cancelled
  BY <1>2, <1>3, <1>5, <1>6
<1>9. handler.pc = "off"
  BY DEF Called, Bus!CopyHandlers
<1> QED
  BY <1>7, <1>8, <1>9 DEF Called

\* Taking the next handler off leaves the others.
LEMMA TargetsTail ==
  ASSUME targets \in Seq(Ids), targets # <<>>, targets' = Tail(targets)
  PROVE  /\ Head(targets) = targets[1] /\ 1 \in DOMAIN targets
         /\ \A i \in DOMAIN targets' : i + 1 \in DOMAIN targets /\ targets'[i] = targets[i + 1]
         /\ \A i \in DOMAIN targets' : i \in Nat \ {0}
<1>1. PICK n \in Nat : n = Len(targets)
  BY LenProperties
<1>2. DOMAIN targets = 1..n /\ n # 0
  BY <1>1, LenProperties, EmptySeq
<1>3. Head(targets) = targets[1] /\ Tail(targets) \in Seq(Ids) /\ Len(Tail(targets)) = n - 1
  BY <1>1, HeadTailProperties
<1>4. DOMAIN targets' = 1..(n - 1)
  BY <1>3, LenProperties
<1>5. \A i \in 1..(n - 1) : targets'[i] = targets[i + 1]
  BY <1>1, <1>3, HeadTailProperties
<1> QED
  BY <1>1, <1>2, <1>3, <1>4, <1>5

LEMMA NextCalled == TypeOK /\ TypeOK' /\ Subscribed /\ Called /\ [Next]_vars => Called'
<1> SUFFICES ASSUME TypeOK, TypeOK', Subscribed, Called, [Next]_vars PROVE Called'
  OBVIOUS
<1>1. CASE UNCHANGED <<dispatcher, event, targets, handler>>
  BY <1>1 DEF Called, Final
<1>2. targets \in Seq(Ids)
  BY DEF TypeOK, BusTypes
<1>3. ASSUME targets # <<>>, targets' = Tail(targets), handler'.pc = "off", UNCHANGED <<dispatcher, event>>
      PROVE  Called'
  BY <1>2, <1>3, TargetsTail DEF Called
<1>4. CASE HandlerReads
  <2>1. handler.pc = "off" /\ dispatcher = "call" /\ targets # <<>> /\ Head(targets) \in Ours
    BY <1>4 DEF HandlerReads, Bus!Calls, Ours
  <2>2. CASE handler' = handler
    BY <1>3, <1>4, <2>1, <2>2 DEF HandlerReads
  <2>3. CASE handler' # handler
    <3>1. /\ Final(event) /\ UNCHANGED <<targets, dispatcher, event>>
          /\ handler'.job.attempt = 0 /\ handler'.job.test = event.test /\ handler'.job.type = event.type
      BY <1>4, <2>3 DEF HandlerReads, Relevant
    <3> QED
      BY <2>1, <3>1 DEF Called, Final
  <2> QED
    BY <2>2, <2>3
<1>5. CASE HandlerAccepts
  <2>1. CASE running
    <3>1. handler'.pc = "schedule" /\ handler'.job = handler.job /\ UNCHANGED <<targets, dispatcher, event>>
      BY <1>5, <2>1 DEF HandlerAccepts, TypeOK, NotifierTypes
    <3>2. handler.pc # "off"
      BY <1>5 DEF HandlerAccepts
    <3> QED
      BY <3>1, <3>2 DEF Called, Final
  <2>2. CASE ~running
    BY <1>3, <1>5, <2>2 DEF HandlerAccepts, Called
  <2> QED
    BY <2>1, <2>2
<1>6. CASE HandlerSchedules
  BY <1>3, <1>6 DEF HandlerSchedules, Bus!HandlerReturns, Called
<1>7. CASE Broadcast
  <2>1. handler.pc = "off"
    BY <1>7 DEF Broadcast, Bus!Calls, Called, Ours
  <2> QED
    BY <1>3, <1>7, <2>1 DEF Broadcast, Bus!Calls, Bus!HandlerReturns, cbVars
<1>8. CASE BusStep
  <2>1. UNCHANGED handler
    BY <1>8 DEF BusStep, cbVars
  <2>2. CASE \E p \in Places : Bus!Enqueue(p)
    BY <1>1, <2>1, <2>2 DEF Bus!Enqueue
  <2>3. CASE Bus!Take
    BY <2>1, <2>3 DEF Bus!Take, Called
  <2>4. CASE Bus!CopyHandlers
    BY <2>1, <2>4, CallTargets
  <2>5. CASE Bus!Dispatched
    BY <2>1, <2>5 DEF Bus!Dispatched, Called
  <2> QED
    BY <1>8, <2>2, <2>3, <2>4, <2>5 DEF BusStep, Places
<1>9. CASE \E t \in Tests : Dequeue(t) \/ CancelRunning(t) \/ CancelQueued(t) \/ Drop(t) \/ Complete(t) \/ PublishFinal(t)
  BY <1>1, <1>9 DEF Dequeue, CancelRunning, CancelQueued, Drop, Complete, PublishFinal, End, EngineOnly, busVars, Bus!Publish
<1>10. CASE WorkerStep \/ Tick
  BY <1>1, <1>10 DEF WorkerStep, Tick, WorkerLooks, WorkerWaits, WorkerTimedOut, Process, Delivered, Retry, GiveUp,
                     PublishOutcome, WorkerOnly, busVars, Bus!Publish
<1>11. CASE HubStep \/ Stop
  BY <1>1, <1>11 DEF HubStep, Stop, Initialize, StartNotifier, SubscribeCancelled, WaitedForIdle, StopFlag,
                     UnsubscribeCompleted, UnsubscribeCancelled, NotifyWorker, JoinWorker, StopServers,
                     HubOnly, busVars, Bus!Publish, Bus!Subscribe, Bus!Unsubscribe
<1>12. CASE UNCHANGED vars
  BY <1>1, <1>12 DEF vars
<1> QED
  BY <1>4, <1>5, <1>6, <1>7, <1>8, <1>9, <1>10, <1>11, <1>12 DEF Next, EngineEnds, HandlerStep

LEMMA NextPublished == TypeOK /\ TypeOK' /\ Published /\ [Next]_vars => Published'
<1> SUFFICES ASSUME TypeOK, TypeOK', Published, [Next]_vars PROVE Published'
  OBVIOUS
<1>1. CASE UNCHANGED <<note, inflight>>
  BY <1>1 DEF Published, Final
<1>2. ASSUME NEW p \in Places, NEW e, Bus!Publish(p, e), Final(e) => p \in Tests /\ e.test = p,
             UNCHANGED note \/ \E t \in Tests : note' = [note EXCEPT ![t] = Bus!NoEvent]
      PROVE  Published'
  <2>1. \A t \in Tests : note'[t] = note[t] \/ note'[t] = Bus!NoEvent
    BY <1>2 DEF TypeOK, NotifierTypes
  <2>2. \A q \in Places : inflight'[q] = inflight[q] \/ (q = p /\ inflight'[q] = e)
    BY <1>2 DEF Bus!Publish, TypeOK, BusTypes
  <2> QED
    BY <1>2, <2>1, <2>2 DEF Published, Final
<1>3. ASSUME NEW t \in Tests, NEW v, NEW e, End(t, v, e), Final(e), e.test = t PROVE Published'
  <2>1. \A q \in Tests : note'[q] = note[q] \/ (q = t /\ note'[q] = e)
    BY <1>3 DEF End, TypeOK, NotifierTypes
  <2>2. inflight' = inflight
    BY <1>3 DEF End, busVars
  <2> QED
    BY <1>3, <2>1, <2>2 DEF Published, Final
<1>4. ASSUME NEW t \in Tests, CancelRunning(t) PROVE Published'
  <2>1. ~Final(Ev(Cancelled, t, "running"))
    BY TypesDiffer DEF Final, Ev
  <2> QED
    BY <1>2, <1>4, <2>1 DEF CancelRunning, Places
<1>5. ASSUME NEW t \in Tests, CancelQueued(t) PROVE Published'
  <2>1. Final(Ev(Cancelled, t, "queued")) /\ Ev(Cancelled, t, "queued").test = t
    BY DEF Final, Ev
  <2> QED
    BY <1>3, <1>5, <2>1 DEF CancelQueued
<1>6. ASSUME NEW t \in Tests, Complete(t) PROVE Published'
  <2>1. Final(Ev(Completed, t, "none")) /\ Ev(Completed, t, "none").test = t
    BY DEF Final, Ev
  <2> QED
    BY <1>3, <1>6, <2>1 DEF Complete
<1>7. ASSUME NEW t \in Tests, PublishFinal(t) PROVE Published'
  <2>1. Final(note[t]) /\ note[t].test = t
    BY <1>7 DEF PublishFinal, Published
  <2> QED
    BY <1>2, <1>7, <2>1 DEF PublishFinal, Places
<1>8. ASSUME NEW t \in Tests, Dequeue(t) \/ Drop(t) PROVE Published'
  BY <1>1, <1>8 DEF Dequeue, Drop, busVars
<1>9. CASE Stop
  <2>1. ~Final(Ev(Stopping, "none", "none"))
    BY TypesDiffer DEF Final, Ev, Ending
  <2> QED
    BY <1>2, <1>9, <2>1 DEF Stop, Places, HubOnly
<1>10. CASE PublishOutcome
  <2>1. ~Final(Ev(<<"callback", worker.pc>>, worker.job.test, "none"))
    BY <1>10, TypesDiffer DEF PublishOutcome, Final, Ev, Ending, CallbackTypes
  <2> QED
    BY <1>2, <1>10, <2>1 DEF PublishOutcome, Places, WorkerOnly
<1>11. CASE BusStep
  <2>1. UNCHANGED note
    BY <1>11 DEF BusStep
  <2>2. ASSUME NEW p \in Places, Bus!Enqueue(p) PROVE Published'
    <3>1. \A q \in Places : inflight'[q] = inflight[q] \/ inflight'[q] = Bus!NoEvent
      BY <2>2 DEF Bus!Enqueue, TypeOK, BusTypes
    <3>2. ~Final(Bus!NoEvent)
      BY TypesDiffer DEF Final, Bus!NoEvent, Ending
    <3> QED
      BY <2>1, <3>1, <3>2 DEF Published, Final
  <2>3. CASE Bus!Take \/ Bus!CopyHandlers \/ Bus!Dispatched
    BY <1>1, <2>1, <2>3 DEF Bus!Take, Bus!CopyHandlers, Bus!Dispatched
  <2> QED
    BY <1>11, <2>2, <2>3 DEF BusStep, Places
<1>12. CASE HandlerStep \/ Broadcast
  BY <1>1, <1>12 DEF HandlerStep, HandlerReads, HandlerAccepts, HandlerSchedules, Broadcast, Bus!HandlerReturns
<1>13. CASE WorkerLooks \/ WorkerWaits \/ WorkerTimedOut \/ Process \/ Delivered \/ Retry \/ GiveUp \/ Tick
  BY <1>1, <1>13 DEF Tick, WorkerLooks, WorkerWaits, WorkerTimedOut, Process, Delivered, Retry, GiveUp, WorkerOnly, busVars
<1>14. CASE HubStep
  BY <1>1, <1>14 DEF HubStep, Initialize, StartNotifier, SubscribeCancelled, WaitedForIdle, StopFlag,
                     UnsubscribeCompleted, UnsubscribeCancelled, NotifyWorker, JoinWorker, StopServers,
                     HubOnly, busVars, Bus!Subscribe, Bus!Unsubscribe
<1>15. CASE UNCHANGED vars
  BY <1>1, <1>15 DEF vars
<1> QED
  BY <1>4, <1>5, <1>6, <1>7, <1>8, <1>9, <1>10, <1>11, <1>12, <1>13, <1>14, <1>15 DEF Next, EngineEnds, WorkerStep

LEMMA NextAttempts == TypeOK /\ TypeOK' /\ Called /\ Attempts /\ [Next]_vars => Attempts'
<1> SUFFICES ASSUME TypeOK, TypeOK', Called, Attempts, [Next]_vars PROVE Attempts'
  OBVIOUS
<1>0. MaxAttempts \in Nat /\ 0 < MaxAttempts
  BY NotifierAssumption
<1>1. CASE UNCHANGED <<jobs, worker>>
  BY <1>1 DEF Attempts
<1>2. ASSUME NEW r \in Jobs, jobs' = Append(jobs, r), r.attempt < MaxAttempts
      PROVE  \A i \in DOMAIN jobs' : jobs'[i].attempt < MaxAttempts
  <2>1. jobs \in Seq(Jobs)
    BY DEF TypeOK, NotifierTypes
  <2>2. /\ DOMAIN jobs = 1..Len(jobs) /\ Len(jobs) \in Nat
        /\ DOMAIN jobs' = 1..(Len(jobs) + 1)
        /\ \A i \in 1..Len(jobs) : jobs'[i] = jobs[i]
        /\ jobs'[Len(jobs) + 1] = r
    BY <1>2, <2>1, AppendProperties, LenProperties
  <2>3. \A i \in 1..(Len(jobs) + 1) : i \in 1..Len(jobs) \/ i = Len(jobs) + 1
    BY <2>2
  <2> QED
    BY <1>2, <2>2, <2>3 DEF Attempts
<1>3. CASE HandlerSchedules
  <2>1. handler.job \in Jobs /\ handler.job.attempt = 0 /\ jobs' = Append(jobs, handler.job)
    BY <1>3 DEF HandlerSchedules, Called, TypeOK, NotifierTypes
  <2>2. worker'.job = worker.job /\ (worker'.pc = worker.pc \/ worker'.pc = "top")
    BY <1>3 DEF HandlerSchedules, Woken, TypeOK, NotifierTypes
  <2> QED
    BY <1>0, <1>2, <2>1, <2>2 DEF Attempts
<1>4. CASE WorkerLooks
  <2>1. CASE worker'.pc = "have"
    <3>1. /\ jobs \in Seq(Jobs) /\ Earliest \in DOMAIN jobs
          /\ jobs' = Without(Earliest) /\ worker'.job = jobs[Earliest]
      BY <1>4, <2>1, EarliestIs DEF WorkerLooks, TypeOK, NotifierTypes
    <3>2. PICK e \in DOMAIN jobs : e = Earliest
      BY <3>1
    <3>3. \A k \in DOMAIN jobs' : \E i \in DOMAIN jobs : jobs'[k] = jobs[i]
      <4>1. /\ DOMAIN jobs = 1..Len(jobs) /\ Len(jobs) \in Nat
            /\ DOMAIN jobs' = 1..(Len(jobs) - 1)
            /\ \A k \in DOMAIN jobs' : jobs'[k] = jobs[IF k < e THEN k ELSE k + 1]
        BY <3>1, <3>2, WithoutOne, LenProperties
      <4>2. \A k \in DOMAIN jobs' : (IF k < e THEN k ELSE k + 1) \in DOMAIN jobs
        BY <4>1
      <4> QED
        BY <4>1, <4>2
    <3> QED
      BY <2>1, <3>1, <3>3 DEF Attempts
  <2>2. CASE worker'.pc # "have"
    <3>1. jobs' = jobs /\ worker'.pc \notin {"have", "posting"}
      BY <1>4, <2>2 DEF WorkerLooks, TypeOK, NotifierTypes
    <3> QED
      BY <3>1 DEF Attempts
  <2> QED
    BY <2>1, <2>2
<1>5. CASE WorkerWaits \/ WorkerTimedOut \/ PublishOutcome \/ Delivered \/ GiveUp \/ StartNotifier \/ NotifyWorker
  <2>1. jobs' = jobs /\ ((worker'.pc = worker.pc /\ worker'.job = worker.job) \/ worker'.pc \notin {"have", "posting"})
    BY <1>5 DEF WorkerWaits, WorkerTimedOut, PublishOutcome, Delivered, GiveUp, StartNotifier, NotifyWorker, Free, Woken,
                TypeOK, NotifierTypes
  <2> QED
    BY <2>1 DEF Attempts
<1>6. CASE Process
  <2>1. worker.job.attempt \in Nat /\ worker.job \in Jobs /\ worker.job.attempt < MaxAttempts
    BY <1>6 DEF Process, Attempts, TypeOK, NotifierTypes, Jobs
  <2>2. worker'.pc = "top" \/ (worker'.pc = "posting" /\ worker'.job.attempt = worker.job.attempt + 1)
    <3>1. PICK n \in Nat : n = worker.job.attempt + 1
      BY <2>1
    <3>2. [worker.job EXCEPT !.attempt = n].attempt = n
      BY <2>1 DEF Jobs
    <3>3. worker' = Free => worker'.pc = "top"
      BY DEF Free
    <3>4. worker' = [pc |-> "posting", job |-> [worker.job EXCEPT !.attempt = n]]
            => worker'.pc = "posting" /\ worker'.job = [worker.job EXCEPT !.attempt = n]
      OBVIOUS
    <3>5. worker' = Free \/ worker' = [pc |-> "posting", job |-> [worker.job EXCEPT !.attempt = n]]
      BY <1>6, <3>1 DEF Process
    <3> QED
      BY <3>1, <3>2, <3>3, <3>4, <3>5
  <2>3. jobs' = jobs
    BY <1>6 DEF Process
  <2> QED
    BY <1>0, <2>1, <2>2, <2>3 DEF Attempts
<1>7. CASE Retry
  <2>1. worker.job \in Jobs /\ worker.job.attempt < MaxAttempts /\ worker'.pc = "top"
    BY <1>7 DEF Retry, MayRetry, Free, TypeOK, NotifierTypes
  <2>2. PICK d : d = Backoff * 2 ^ (worker.job.attempt - 1)
    OBVIOUS
  <2>3. PICK r : r = [worker.job EXCEPT !.due = d]
    OBVIOUS
  <2>4. r.attempt = worker.job.attempt /\ jobs' = Append(jobs, r)
    BY <1>7, <2>1, <2>2, <2>3 DEF Retry, Jobs
  <2>5. r \in Jobs
    <3>1. jobs \in Seq(Jobs) /\ jobs' \in Seq(Jobs)
      BY DEF TypeOK, NotifierTypes
    <3>2. /\ Len(jobs) + 1 \in DOMAIN jobs' /\ jobs'[Len(jobs) + 1] = r
      BY <2>4, <3>1, AppendProperties, LenProperties
    <3> QED
      BY <3>1, <3>2, ElementOfSeq, LenProperties
  <2> QED
    BY <1>2, <2>1, <2>4, <2>5 DEF Attempts
<1>8. CASE Tick
  <2>1. jobs \in Seq(Jobs) /\ \A i \in DOMAIN jobs : jobs[i] \in Jobs
    BY ElementOfSeq, LenProperties DEF TypeOK, NotifierTypes
  <2>2. \A i \in DOMAIN jobs : jobs'[i].attempt = jobs[i].attempt
    BY <1>8, <2>1 DEF Tick, Jobs
  <2> QED
    BY <1>8, <2>2 DEF Tick, Attempts
<1>9. CASE JoinWorker
  BY <1>9 DEF JoinWorker, Attempts
<1>10. CASE \E t \in Tests : Dequeue(t) \/ CancelRunning(t) \/ CancelQueued(t) \/ Drop(t) \/ Complete(t) \/ PublishFinal(t)
  BY <1>1, <1>10 DEF Dequeue, CancelRunning, CancelQueued, Drop, Complete, PublishFinal, End, EngineOnly
<1>11. CASE BusStep \/ HandlerReads \/ HandlerAccepts \/ Broadcast
  BY <1>1, <1>11 DEF BusStep, HandlerReads, HandlerAccepts, Broadcast, cbVars
<1>12. CASE Initialize \/ SubscribeCancelled \/ Stop \/ WaitedForIdle \/ StopFlag
            \/ UnsubscribeCompleted \/ UnsubscribeCancelled \/ StopServers
  BY <1>1, <1>12 DEF Initialize, SubscribeCancelled, Stop, WaitedForIdle, StopFlag, UnsubscribeCompleted,
                     UnsubscribeCancelled, StopServers
<1>13. CASE UNCHANGED vars
  BY <1>1, <1>13 DEF vars
<1> QED
  BY <1>3, <1>4, <1>5, <1>6, <1>7, <1>8, <1>9, <1>10, <1>11, <1>12, <1>13
  DEF Next, EngineEnds, HandlerStep, WorkerStep, HubStep

-----------------------------------------------------------------------------
(* The end of a test goes from hand to hand.                               *)

\* How a record changes when its test does not end: it goes on, or is dropped.
Fades ==
  \A t \in Tests :
    \/ record'[t] = record[t]
    \/ record[t] \in Unended /\ record'[t] \in Unended
    \/ record[t] \in Verdicts /\ record'[t] = "gone"

\* No hand holds a test that has not ended, and nothing was posted of it.
LEMMA NothingOfUnended ==
  ASSUME TypeOK, HandsKnow, Stories, NEW t \in Tests, record[t] \in Unended
  PROVE  /\ \A h \in Hands, y \in Ending, n \in Nat : ~Carries(h, t, y, n)
         /\ posts[t] = <<>>
<1>1. record[t] \notin Ended
  BY DEF Unended, Ended, Verdicts
<1>2. \A h \in Hands, y \in Ending, n \in Nat : ~Carries(h, t, y, n)
  BY <1>1 DEF HandsKnow, Knows
<1>3. posts[t] = <<>>
  BY <1>1 DEF Stories, Story, Ended, Verdicts
<1> QED
  BY <1>2, <1>3

\* What was posted stays true of a record that fades.
LEMMA StoriesStay ==
  ASSUME TypeOK, HandsKnow, Stories, Fades, posts' = posts
  PROVE  Stories'
<1> SUFFICES ASSUME NEW t \in Tests PROVE Story(t)'
  BY DEF Stories
<1>1. posts[t] # <<>> => record[t] \notin Unended /\ record[t] \in {posts[t][1].state, "gone"}
  BY NothingOfUnended DEF Stories, Story
<1>2. posts[t] # <<>> => record'[t] \in {posts[t][1].state, "gone"}
  BY <1>1 DEF Fades
<1> QED
  BY <1>2 DEF Stories, Story

LEMMA HandsStay ==
  ASSUME TypeOK, OneHand, HandsKnow, Stories, Fades, posts' = posts,
         \A t \in Tests, h \in Hands, y \in Ending, n \in Nat : Carries(h, t, y, n)' => Carries(h, t, y, n)
  PROVE  OneHand' /\ HandsKnow' /\ Stories'
<1>1. OneHand'
  BY DEF OneHand
<1>2. ASSUME NEW t \in Tests, NEW h \in Hands, NEW y \in Ending, NEW n \in Nat, Carries(h, t, y, n)'
      PROVE  Knows(t, y, n)'
  <2>1. Carries(h, t, y, n) /\ Knows(t, y, n)
    BY <1>2 DEF HandsKnow
  <2>2. record[t] \notin Unended
    BY <2>1, NothingOfUnended
  <2> QED
    BY <2>1, <2>2 DEF Knows, Fades, Ended, Verdicts
<1>3. HandsKnow'
  BY <1>2 DEF HandsKnow
<1> QED
  BY <1>1, <1>3, StoriesStay

LEMMA HandedOver ==
  ASSUME TypeOK, OneHand, HandsKnow, Stories, Fades, posts' = posts, NEW u \in Tests, NEW k \in Hands,
         \A t \in Tests, h \in Hands, y \in Ending, n \in Nat :
           Carries(h, t, y, n)' => IF t = u THEN h = k /\ \E g \in Hands : Carries(g, t, y, n)
                                   ELSE Carries(h, t, y, n)
  PROVE  OneHand' /\ HandsKnow' /\ Stories'
<1>1. OneHand'
  <2> SUFFICES ASSUME NEW t \in Tests, NEW h \in Hands, NEW l \in Hands, NEW y \in Ending, NEW z \in Ending,
                      NEW n \in Nat, NEW m \in Nat, Carries(h, t, y, n)', Carries(l, t, z, m)'
               PROVE  h = l
    BY DEF OneHand
  <2>1. CASE t = u
    BY <2>1
  <2>2. CASE t # u
    BY <2>2 DEF OneHand
  <2> QED
    BY <2>1, <2>2
<1>2. ASSUME NEW t \in Tests, NEW h \in Hands, NEW y \in Ending, NEW n \in Nat, Carries(h, t, y, n)'
      PROVE  Knows(t, y, n)'
  <2>1. PICK g \in Hands : Carries(g, t, y, n)
    BY <1>2
  <2>2. Knows(t, y, n) /\ record[t] \notin Unended
    BY <2>1, NothingOfUnended DEF HandsKnow
  <2> QED
    BY <2>2 DEF Knows, Fades, Ended, Verdicts
<1>3. HandsKnow'
  BY <1>2 DEF HandsKnow
<1> QED
  BY <1>1, <1>3, StoriesStay

\* A test ends: its end is in one hand, and nothing was posted of it before.
LEMMA HandBorn ==
  ASSUME TypeOK, OneHand, HandsKnow, Stories, posts' = posts, NEW u \in Tests, NEW v \in Verdicts, NEW x \in Ending,
         record[u] \in Unended, record' = [record EXCEPT ![u] = v], x = Cancelled => v = "CANCELLED",
         \A t \in Tests, h \in Hands, y \in Ending, n \in Nat :
           Carries(h, t, y, n)' => IF t = u THEN h = "note" /\ y = x /\ n = 0
                                   ELSE Carries(h, t, y, n)
  PROVE  OneHand' /\ HandsKnow' /\ Stories'
<1>1. OneHand'
  <2> SUFFICES ASSUME NEW t \in Tests, NEW h \in Hands, NEW l \in Hands, NEW y \in Ending, NEW z \in Ending,
                      NEW n \in Nat, NEW m \in Nat, Carries(h, t, y, n)', Carries(l, t, z, m)'
               PROVE  h = l
    BY DEF OneHand
  <2>1. CASE t = u
    BY <2>1
  <2>2. CASE t # u
    BY <2>2 DEF OneHand
  <2> QED
    BY <2>1, <2>2
<1>2. \A t \in Tests : record'[t] = IF t = u THEN v ELSE record[t]
  BY DEF TypeOK, NotifierTypes
<1>3. posts[u] = <<>> /\ Len(<<>>) = 0
  BY NothingOfUnended
<1>4. ASSUME NEW t \in Tests, NEW h \in Hands, NEW y \in Ending, NEW n \in Nat, Carries(h, t, y, n)'
      PROVE  Knows(t, y, n)'
  <2>1. CASE t = u
    BY <1>2, <1>3, <1>4, <2>1 DEF Knows, Ended
  <2>2. CASE t # u
    BY <1>2, <1>4, <2>2 DEF HandsKnow, Knows
  <2> QED
    BY <2>1, <2>2
<1>5. ASSUME NEW t \in Tests PROVE Story(t)'
  <2>1. CASE t = u
    <3>1. MaxAttempts \in Nat /\ 0 <= MaxAttempts
      BY NotifierAssumption
    <3> QED
      BY <1>3, <2>1, <3>1 DEF Story
  <2>2. CASE t # u
    BY <1>2, <2>2 DEF Stories, Story
  <2> QED
    BY <2>1, <2>2
<1> QED
  BY <1>1, <1>4, <1>5 DEF HandsKnow, Stories

\* The thread posts: the story goes on with the same verdict.
LEMMA HandPosts ==
  ASSUME TypeOK, TypeOK', OneHand, HandsKnow, Stories, UNCHANGED record,
         NEW u \in Tests, NEW x \in Ending, NEW n \in Nat,
         n < MaxAttempts, record[u] # "gone", Carries("worker", u, x, n),
         posts' = [posts EXCEPT ![u] = Append(posts[u], [event |-> x, state |-> record[u], attempt |-> n + 1])],
         \A t \in Tests, h \in Hands, y \in Ending, m \in Nat :
           Carries(h, t, y, m)' => IF t = u THEN h = "worker" /\ y = x /\ m = n + 1
                                   ELSE Carries(h, t, y, m)
  PROVE  OneHand' /\ HandsKnow' /\ Stories'
<1> DEFINE p == [event |-> x, state |-> record[u], attempt |-> n + 1]
<1>1. Knows(u, x, n)
  BY DEF HandsKnow, Hands
<1>2. record[u] \in Verdicts /\ n = Len(posts[u]) /\ (x = Cancelled => record[u] = "CANCELLED")
  BY <1>1 DEF Knows, Ended, Verdicts
<1>3. posts[u] \in Seq(Payloads) /\ p \in Payloads
  <2>1. posts \in [Tests -> Seq(Payloads)]
    BY DEF TypeOK, NotifierTypes
  <2>2. posts[u] \in Seq(Payloads)
    BY <2>1
  <2>3. x \in Ending /\ record[u] \in Unended \cup Ended /\ n + 1 \in Nat
    BY <1>2 DEF Ended
  <2> QED
    BY <2>2, <2>3 DEF Payloads
<1>4. PICK q \in Payloads : q = p
  BY <1>3
<1>5. q.event = x /\ q.state = record[u] /\ q.attempt = n + 1
  BY <1>4
<1>6. PICK s \in Seq(Payloads) : s = posts[u]
  BY <1>3
<1>7. PICK w \in Seq(Payloads) : w = Append(s, q)
  BY AppendProperties
<1>8. /\ Len(w) = n + 1 /\ DOMAIN w = 1..(n + 1) /\ DOMAIN s = 1..n
      /\ \A i \in 1..n : w[i] = s[i]
      /\ w[n + 1] = q
  BY <1>2, <1>6, <1>7, AppendProperties, LenProperties
<1>9. \A t \in Tests : posts'[t] = IF t = u THEN w ELSE posts[t]
  BY <1>3, <1>4, <1>6, <1>7 DEF TypeOK, NotifierTypes
<1>10. w[1].event = x /\ w[1].state = record[u]
  <2>1. CASE n = 0
    BY <1>5, <1>8, <2>1
  <2>2. CASE n # 0
    <3>1. posts[u] # <<>> /\ posts[u][1].event = x
      BY <1>1, <1>2, <2>2 DEF Knows
    <3>2. record[u] = posts[u][1].state
      BY <3>1 DEF Stories, Story
    <3>3. w[1] = posts[u][1]
      BY <1>6, <1>8, <2>2
    <3> QED
      BY <3>1, <3>2, <3>3
  <2> QED
    BY <2>1, <2>2
<1>11. OneHand'
  <2> SUFFICES ASSUME NEW t \in Tests, NEW h \in Hands, NEW l \in Hands, NEW y \in Ending, NEW z \in Ending,
                      NEW m \in Nat, NEW o \in Nat, Carries(h, t, y, m)', Carries(l, t, z, o)'
               PROVE  h = l
    BY DEF OneHand
  <2>1. CASE t = u
    BY <2>1
  <2>2. CASE t # u
    BY <2>2 DEF OneHand
  <2> QED
    BY <2>1, <2>2
<1>12. ASSUME NEW t \in Tests, NEW h \in Hands, NEW y \in Ending, NEW m \in Nat, Carries(h, t, y, m)'
       PROVE  Knows(t, y, m)'
  <2>1. CASE t = u
    BY <1>1, <1>8, <1>9, <1>10, <1>12, <2>1 DEF Knows
  <2>2. CASE t # u
    BY <1>9, <1>12, <2>2 DEF HandsKnow, Knows
  <2> QED
    BY <2>1, <2>2
<1>13. ASSUME NEW t \in Tests PROVE Story(t)'
  <2>1. CASE t = u
    <3>1. n + 1 <= MaxAttempts
      BY NotifierAssumption
    <3>2. ASSUME NEW i \in 1..(n + 1) PROVE w[i] = [w[1] EXCEPT !.attempt = i]
      <4>1. w[1] \in Payloads
        BY <1>8
      <4>2. CASE i = n + 1
        BY <1>5, <1>8, <1>10, <4>1, <4>2 DEF Payloads
      <4>3. CASE i \in 1..n
        <5>1. 1 \in 1..n /\ i \in DOMAIN posts[u]
          BY <1>6, <1>8, <4>3
        <5>2. posts[u][i] = [posts[u][1] EXCEPT !.attempt = i]
          BY <5>1 DEF Stories, Story
        <5> QED
          BY <1>6, <1>8, <4>3, <5>1, <5>2
      <4> QED
        BY <4>2, <4>3
    <3>3. \A i \in 1..(n + 1) : w[i].event = w[1].event /\ w[i].state = w[1].state
      <4>1. w[1] \in Payloads
        BY <1>8
      <4> QED
        BY <3>2, <4>1 DEF Payloads
    <3>4. posts'[u] = w /\ record' = record /\ Len(w) <= MaxAttempts
      BY <1>8, <1>9, <3>1
    <3>5. record[u] = w[1].state /\ w[1].state \in Verdicts /\ (w[1].event = Cancelled => w[1].state = "CANCELLED")
      BY <1>2, <1>10
    <3>6. \A i \in DOMAIN w : w[i] = [w[1] EXCEPT !.attempt = i] /\ (w[i].event = Cancelled => w[i].state = "CANCELLED")
      BY <1>8, <3>2, <3>3, <3>5
    <3>7. posts'[t] = w /\ record'[t] = record[u]
      BY <2>1, <3>4
    <3> HIDE DEF p
    <3>8. /\ Len(posts'[t]) <= MaxAttempts
          /\ posts'[t] # <<>> => posts'[t][1].state \in Verdicts /\ record'[t] \in {posts'[t][1].state, "gone"}
      BY <3>4, <3>5, <3>7
    <3>9. \A i \in DOMAIN posts'[t] :
            /\ posts'[t][i] = [posts'[t][1] EXCEPT !.attempt = i]
            /\ posts'[t][i].event = Cancelled => posts'[t][i].state = "CANCELLED"
      BY <3>6, <3>7, Zenon
    <3> QED
      BY <3>8, <3>9, Zenon DEF Story
  <2>2. CASE t # u
    BY <1>9, <2>2 DEF Stories, Story
  <2> QED
    BY <2>1, <2>2
<1> QED
  BY <1>11, <1>12, <1>13 DEF HandsKnow, Stories

\* What an action does not touch, the hands still hold.
LEMMA HandsFrame ==
  ASSUME NEW t, NEW y, NEW n
  PROVE  /\ UNCHANGED note => (NoteHas(t, y, n)' <=> NoteHas(t, y, n))
         /\ UNCHANGED inflight => (FlightHas(t, y, n)' <=> FlightHas(t, y, n))
         /\ UNCHANGED queue => (QueueHas(t, y, n)' <=> QueueHas(t, y, n))
         /\ UNCHANGED <<dispatcher, event, targets, handler>> => (EventHas(t, y, n)' <=> EventHas(t, y, n))
         /\ UNCHANGED handler => (HandlerHas(t, y, n)' <=> HandlerHas(t, y, n))
         /\ UNCHANGED jobs => (JobsHave(t, y, n)' <=> JobsHave(t, y, n))
         /\ UNCHANGED worker => (WorkerHas(t, y, n)' <=> WorkerHas(t, y, n))
BY DEF NoteHas, FlightHas, QueueHas, EventHas, HandlerHas, JobsHave, WorkerHas, Final, Is

\* Nothing but the named hand holds.
LEMMA HandsApart ==
  ASSUME NEW t, NEW y, NEW n
  PROVE  /\ Carries("note", t, y, n) <=> NoteHas(t, y, n)
         /\ Carries("flight", t, y, n) <=> FlightHas(t, y, n)
         /\ Carries("queue", t, y, n) <=> QueueHas(t, y, n)
         /\ Carries("event", t, y, n) <=> EventHas(t, y, n)
         /\ Carries("handler", t, y, n) <=> HandlerHas(t, y, n)
         /\ Carries("jobs", t, y, n) <=> JobsHave(t, y, n)
         /\ Carries("worker", t, y, n) <=> WorkerHas(t, y, n)
BY DEF Carries

\* The hands after a step, in the words of what they hold.
LEMMA HandsApartNext ==
  ASSUME NEW h \in Hands, NEW t, NEW y, NEW n, Carries(h, t, y, n)'
  PROVE  \/ h = "note" /\ NoteHas(t, y, n)'
         \/ h = "flight" /\ FlightHas(t, y, n)'
         \/ h = "queue" /\ QueueHas(t, y, n)'
         \/ h = "event" /\ EventHas(t, y, n)'
         \/ h = "handler" /\ HandlerHas(t, y, n)'
         \/ h = "jobs" /\ JobsHave(t, y, n)'
         \/ h = "worker" /\ WorkerHas(t, y, n)'
BY DEF Carries

\* The steps of the engine and of its tests' ends.
LEMMA EngineHands ==
  ASSUME Inv, TypeOK',
         \E t \in Tests : Dequeue(t) \/ CancelRunning(t) \/ CancelQueued(t) \/ Drop(t) \/ Complete(t) \/ PublishFinal(t)
  PROVE  OneHand' /\ HandsKnow' /\ Stories'
<1>0. TypeOK /\ OneHand /\ HandsKnow /\ Stories /\ Published
  BY DEF Inv
<1> DEFINE Good == OneHand' /\ HandsKnow' /\ Stories'
<1>1. UNCHANGED <<queue, dispatcher, event, targets, handler, jobs, worker, posts>>
  BY DEF Dequeue, CancelRunning, CancelQueued, Drop, Complete, PublishFinal, End, EngineOnly, busVars, Bus!Publish
<1>2. ASSUME NEW t \in Tests, NEW h \in Hands, NEW y \in Ending, NEW n \in Nat, Carries(h, t, y, n)',
             h # "note", h # "flight"
      PROVE  Carries(h, t, y, n)
  BY <1>1, <1>2, HandsApart, HandsApartNext, HandsFrame
<1>3. ASSUME UNCHANGED note, Fades,
             \A t \in Tests, y \in Ending, n \in Nat : FlightHas(t, y, n)' => FlightHas(t, y, n)
      PROVE  Good
  <2>1. \A t \in Tests, h \in Hands, y \in Ending, n \in Nat : Carries(h, t, y, n)' => Carries(h, t, y, n)
    BY <1>2, <1>3, HandsApart, HandsApartNext, HandsFrame
  <2>2. posts' = posts
    BY <1>1
  <2> QED
    BY <1>0, <1>3, <2>1, <2>2, HandsStay
<1>4. ASSUME NEW t \in Tests, Dequeue(t) PROVE Good
  <2>1. Fades
    BY <1>0, <1>4 DEF Dequeue, Fades, TypeOK, NotifierTypes, Unended
  <2> QED
    BY <1>3, <1>4, <2>1, HandsFrame DEF Dequeue, busVars
<1>5. ASSUME NEW t \in Tests, Drop(t) PROVE Good
  <2>1. Fades
    BY <1>0, <1>5 DEF Drop, Fades, TypeOK, NotifierTypes
  <2> QED
    BY <1>3, <1>5, <2>1, HandsFrame DEF Drop, busVars
<1>6. ASSUME NEW t \in Tests, CancelRunning(t) PROVE Good
  <2>1. Fades
    BY <1>0, <1>6 DEF CancelRunning, Fades, TypeOK, NotifierTypes, Unended
  <2>2. ~Final(Ev(Cancelled, t, "running"))
    BY TypesDiffer DEF Final, Ev
  <2>3. inflight' = [inflight EXCEPT ![Api] = Ev(Cancelled, t, "running")]
    BY <1>6 DEF CancelRunning, Bus!Publish
  <2>4. \A u \in Tests : inflight'[u] = inflight[u] \/ inflight'[u] = Ev(Cancelled, t, "running")
    BY <1>0, <2>3 DEF TypeOK, BusTypes, Places
  <2>5. \A u \in Tests, y \in Ending, n \in Nat : FlightHas(u, y, n)' => FlightHas(u, y, n)
    BY <2>2, <2>4 DEF FlightHas, Final
  <2> QED
    BY <1>3, <1>6, <2>1, <2>5 DEF CancelRunning
<1>7. ASSUME NEW u \in Tests, NEW v \in Verdicts, NEW x \in Ending, NEW e \in Events, End(u, v, e), e.type = x,
             record[u] \in Unended, x = Cancelled => v = "CANCELLED"
      PROVE  Good
  <2>1. UNCHANGED inflight
    BY <1>7 DEF End, busVars
  <2>2. ASSUME NEW t \in Tests, NEW h \in Hands, NEW y \in Ending, NEW n \in Nat, Carries(h, t, y, n)'
        PROVE  IF t = u THEN h = "note" /\ y = x /\ n = 0 ELSE Carries(h, t, y, n)
    <3>1. CASE h = "note"
      <4>1. NoteHas(t, y, n)'
        BY <2>2, <3>1, HandsApartNext
      <4>2. note' = [note EXCEPT ![u] = e] /\ note \in [Tests -> Events]
        BY <1>0, <1>7 DEF End, TypeOK, NotifierTypes
      <4>3. CASE t = u
        BY <1>7, <3>1, <4>1, <4>2, <4>3 DEF NoteHas
      <4>4. CASE t # u
        BY <3>1, <4>1, <4>2, <4>4 DEF NoteHas, Carries
      <4> QED
        BY <4>3, <4>4
    <3>2. CASE h # "note"
      <4>1. Carries(h, t, y, n)
        BY <1>2, <2>1, <2>2, <3>2, HandsApart, HandsApartNext, HandsFrame
      <4>2. t # u
        BY <1>0, <1>7, <4>1, NothingOfUnended
      <4> QED
        BY <4>1, <4>2
    <3> QED
      BY <3>1, <3>2
  <2>3. record' = [record EXCEPT ![u] = v]
    BY <1>7 DEF End
  <2> QED
    BY <1>0, <1>1, <1>7, <2>2, <2>3, HandBorn
<1>8. ASSUME NEW t \in Tests, CancelQueued(t) PROVE Good
  <2>1. /\ Ev(Cancelled, t, "queued") \in Events /\ Ev(Cancelled, t, "queued").type = Cancelled
        /\ Cancelled \in Ending /\ "CANCELLED" \in Verdicts
    BY DEF Ev, Events, Types, Ending, Verdicts
  <2>2. record[t] \in Unended /\ End(t, "CANCELLED", Ev(Cancelled, t, "queued"))
    BY <1>8 DEF CancelQueued, Unended
  <2> QED
    BY <1>7, <2>1, <2>2
<1>9. ASSUME NEW t \in Tests, Complete(t) PROVE Good
  <2>1. /\ Ev(Completed, t, "none") \in Events /\ Ev(Completed, t, "none").type = Completed
        /\ Completed \in Ending /\ Completed # Cancelled
    BY TypesDiffer DEF Ev, Events, Types, Ending
  <2>2. record[t] \in Unended
    BY <1>9 DEF Complete, Unended
  <2>3. PICK v \in Verdicts : End(t, v, Ev(Completed, t, "none"))
    BY <1>9 DEF Complete, Verdicts
  <2> QED
    BY <1>7, <2>1, <2>2, <2>3
<1>10. ASSUME NEW u \in Tests, PublishFinal(u) PROVE Good
  <2>1. Fades
    BY <1>10 DEF PublishFinal, Fades
  <2>2. /\ note' = [note EXCEPT ![u] = Bus!NoEvent] /\ inflight' = [inflight EXCEPT ![u] = note[u]]
        /\ note \in [Tests -> Events] /\ inflight \in [Places -> Events] /\ u \in Places
    BY <1>0, <1>10 DEF PublishFinal, Bus!Publish, TypeOK, NotifierTypes, BusTypes, Places
  <2>3. \A t \in Tests : /\ t # u => note'[t] = note[t] /\ inflight'[t] = inflight[t]
                         /\ t = u => note'[t] = Bus!NoEvent /\ inflight'[t] = note[t]
    BY <2>2 DEF Places
  <2>4. ASSUME NEW t \in Tests, NEW h \in Hands, NEW y \in Ending, NEW n \in Nat, Carries(h, t, y, n)'
        PROVE  IF t = u THEN h = "flight" /\ \E g \in Hands : Carries(g, t, y, n)
                        ELSE Carries(h, t, y, n)
    <3>1. CASE h = "note"
      <4>1. NoteHas(t, y, n)'
        BY <2>4, <3>1, HandsApartNext
      <4>2. t # u
        BY <2>3, <4>1, TypesDiffer DEF NoteHas, Bus!NoEvent
      <4> QED
        BY <2>3, <3>1, <4>1, <4>2 DEF NoteHas, Carries
    <3>2. CASE h = "flight"
      <4>1. FlightHas(t, y, n)'
        BY <2>4, <3>2, HandsApartNext
      <4>2. CASE t = u
        <5>1. NoteHas(t, y, n)
          BY <2>3, <4>1, <4>2 DEF FlightHas, NoteHas
        <5> QED
          BY <3>2, <4>2, <5>1 DEF Carries, Hands
      <4>3. CASE t # u
        BY <2>3, <3>2, <4>1, <4>3 DEF FlightHas, Final, Carries
      <4> QED
        BY <4>2, <4>3
    <3>3. CASE h # "note" /\ h # "flight"
      <4>1. Carries(h, t, y, n)
        BY <1>2, <2>4, <3>3
      <4>2. t # u
        <5>1. note[u] # Bus!NoEvent
          BY <1>10 DEF PublishFinal
        <5>2. Final(note[u]) /\ note[u].type \in Ending
          BY <1>0, <5>1 DEF Published, Final, Ending
        <5>3. ASSUME t = u PROVE FALSE
          <6>1. PICK z \in Ending : z = note[u].type
            BY <5>2
          <6>2. Carries("note", t, z, 0) /\ "note" \in Hands /\ 0 \in Nat
            BY <5>3, <6>1 DEF Carries, NoteHas, Hands
          <6> QED
            BY <1>0, <3>3, <4>1, <6>2 DEF OneHand
        <5> QED
          BY <5>3
      <4> QED
        BY <4>1, <4>2
    <3> QED
      BY <3>1, <3>2, <3>3
  <2>5. "flight" \in Hands
    BY DEF Hands
  <2> QED
    BY <1>0, <1>1, <2>1, <2>4, <2>5, HandedOver
<1> QED
  BY <1>4, <1>5, <1>6, <1>8, <1>9, <1>10

\* What one hand holds no other does.
LEMMA NoOther ==
  ASSUME OneHand, NEW t \in Tests, NEW g \in Hands, NEW x \in Ending, NEW m \in Nat, Carries(g, t, x, m),
         NEW h \in Hands, NEW y \in Ending, NEW n \in Nat, Carries(h, t, y, n)
  PROVE  h = g
BY DEF OneHand

\* Appending one element to a sequence.
LEMMA Appended ==
  ASSUME NEW E, NEW s \in Seq(E), NEW e \in E
  PROVE  /\ Len(s) \in Nat /\ DOMAIN s = 1..Len(s)
         /\ DOMAIN Append(s, e) = 1..(Len(s) + 1)
         /\ \A i \in DOMAIN s : i \in DOMAIN Append(s, e) /\ Append(s, e)[i] = s[i]
         /\ Len(s) + 1 \in DOMAIN Append(s, e)
         /\ \A i \in DOMAIN Append(s, e) : i \in DOMAIN s \/ (i = Len(s) + 1 /\ Append(s, e)[i] = e)
<1>1. PICK n \in Nat : n = Len(s)
  BY LenProperties
<1>2. DOMAIN s = 1..n
  BY <1>1, LenProperties
<1>3. PICK w \in Seq(E) : w = Append(s, e)
  BY AppendProperties
<1>4. Len(w) = n + 1 /\ \A i \in 1..n : w[i] = s[i]
  BY <1>1, <1>3, AppendProperties
<1>5. w[n + 1] = e /\ DOMAIN w = 1..(n + 1)
  BY <1>1, <1>3, <1>4, AppendProperties, LenProperties
<1> QED
  BY <1>1, <1>2, <1>3, <1>4, <1>5

LEMMA EnqueueHands ==
  ASSUME Inv, TypeOK', NEW p \in Places, Bus!Enqueue(p), UNCHANGED <<record, note, life, hub, seen, posts>>, UNCHANGED cbVars
  PROVE  OneHand' /\ HandsKnow' /\ Stories'
<1>0. TypeOK /\ OneHand /\ HandsKnow /\ Stories /\ Published
  BY DEF Inv
<1>1. UNCHANGED <<note, dispatcher, event, targets, handler, jobs, worker, record, posts>>
  BY DEF Bus!Enqueue, cbVars
<1>2. /\ inflight' = [inflight EXCEPT ![p] = Bus!NoEvent] /\ inflight \in [Places -> Events]
      /\ queue' = Append(queue, inflight[p]) /\ queue \in Seq(Events) /\ inflight[p] \in Events
  BY <1>0 DEF Bus!Enqueue, TypeOK, BusTypes
<1>3. \A i \in DOMAIN queue' : (i \in DOMAIN queue /\ queue'[i] = queue[i]) \/ queue'[i] = inflight[p]
  BY <1>2, Appended
<1>4. ~Final(Bus!NoEvent)
  BY TypesDiffer DEF Final, Bus!NoEvent, Ending
<1>5. \A t \in Tests, y \in Ending, n \in Nat : FlightHas(t, y, n)' => t # p /\ FlightHas(t, y, n)
  <2>1. \A t \in Tests : inflight'[t] = IF t = p THEN Bus!NoEvent ELSE inflight[t]
    BY <1>2 DEF Places
  <2> QED
    BY <1>4, <2>1 DEF FlightHas, Final
<1>6. ASSUME NEW t \in Tests, NEW h \in Hands, NEW y \in Ending, NEW n \in Nat, Carries(h, t, y, n)', h # "queue"
      PROVE  Carries(h, t, y, n) /\ (h = "flight" => t # p)
  BY <1>1, <1>5, <1>6, HandsApart, HandsApartNext, HandsFrame
<1>7. ASSUME NEW t \in Tests, NEW y \in Ending, NEW n \in Nat, QueueHas(t, y, n)',
             ~(Final(inflight[p]) /\ inflight[p].test = t /\ inflight[p].type = y)
      PROVE  QueueHas(t, y, n)
  BY <1>3, <1>7 DEF QueueHas, Final
<1>8. Fades
  BY <1>1 DEF Fades
<1>9. CASE ~Final(inflight[p])
  <2>1. ASSUME NEW t \in Tests, NEW h \in Hands, NEW y \in Ending, NEW n \in Nat, Carries(h, t, y, n)'
        PROVE  Carries(h, t, y, n)
    BY <1>6, <1>7, <1>9, <2>1, HandsApart, HandsApartNext
  <2> QED
    BY <1>0, <1>1, <1>8, <2>1, HandsStay
<1>10. CASE Final(inflight[p])
  <2>1. p \in Tests /\ inflight[p].test = p
    BY <1>0, <1>10 DEF Published
  <2>2. PICK x \in Ending : x = inflight[p].type
    BY <1>10 DEF Final, Ending
  <2>3. Carries("flight", p, x, 0) /\ "flight" \in Hands /\ 0 \in Nat
    BY <1>10, <2>2 DEF Carries, FlightHas, Hands
  <2>4. ASSUME NEW t \in Tests, NEW h \in Hands, NEW y \in Ending, NEW n \in Nat, Carries(h, t, y, n)'
        PROVE  IF t = p THEN h = "queue" /\ \E g \in Hands : Carries(g, t, y, n) ELSE Carries(h, t, y, n)
    <3>1. CASE h # "queue"
      <4>1. Carries(h, t, y, n) /\ (h = "flight" => t # p)
        BY <1>6, <2>4, <3>1
      <4>2. t # p
        BY <1>0, <2>1, <2>3, <4>1, NoOther
      <4> QED
        BY <4>1, <4>2
    <3>2. CASE h = "queue"
      <4>1. QueueHas(t, y, n)'
        BY <2>4, <3>2, HandsApartNext
      <4>2. CASE t = p
        <5>1. CASE inflight[p].type = y
          <6>1. n = 0
            BY <4>1 DEF QueueHas
          <6> QED
            BY <2>2, <2>3, <3>2, <4>2, <5>1, <6>1
        <5>2. CASE inflight[p].type # y
          BY <1>7, <3>2, <4>1, <4>2, <5>2, HandsApart
        <5> QED
          BY <5>1, <5>2
      <4>3. CASE t # p
        BY <1>7, <2>1, <3>2, <4>1, <4>3, HandsApart
      <4> QED
        BY <4>2, <4>3
    <3> QED
      BY <3>1, <3>2
  <2>5. "queue" \in Hands /\ posts' = posts
    BY <1>1 DEF Hands
  <2> QED
    BY <1>0, <1>8, <2>1, <2>4, <2>5, HandedOver
<1> QED
  BY <1>9, <1>10

LEMMA TakeHands ==
  ASSUME Inv, TypeOK', Bus!Take, UNCHANGED <<record, note, life, hub, seen, posts>>, UNCHANGED cbVars
  PROVE  OneHand' /\ HandsKnow' /\ Stories'
<1>0. TypeOK /\ OneHand /\ HandsKnow /\ Stories /\ HeldOnce
  BY DEF Inv
<1>1. UNCHANGED <<note, inflight, targets, handler, jobs, worker, record, posts>>
  BY DEF Bus!Take, cbVars
<1>2. queue \in Seq(Events) /\ queue # <<>> /\ queue' = Tail(queue) /\ event' = Head(queue)
  BY <1>0 DEF Bus!Take, TypeOK, BusTypes
<1>3. /\ event' = queue[1] /\ 1 \in DOMAIN queue
      /\ \A i \in DOMAIN queue' : i \in Nat /\ i + 1 # 1 /\ i + 1 \in DOMAIN queue /\ queue'[i] = queue[i + 1]
  <2>1. PICK n \in Nat : n = Len(queue)
    BY <1>2, LenProperties
  <2>2. DOMAIN queue = 1..n /\ n # 0
    BY <1>2, <2>1, LenProperties, EmptySeq
  <2>3. Head(queue) = queue[1] /\ Tail(queue) \in Seq(Events) /\ Len(Tail(queue)) = n - 1
    BY <1>2, <2>1, HeadTailProperties
  <2>4. DOMAIN queue' = 1..(n - 1)
    BY <1>2, <2>3, LenProperties
  <2>5. \A i \in 1..(n - 1) : queue'[i] = queue[i + 1]
    BY <1>2, <2>1, <2>3, HeadTailProperties
  <2> QED
    BY <1>2, <2>1, <2>2, <2>3, <2>4, <2>5
<1>4. ASSUME NEW t \in Tests, NEW y \in Ending, NEW n \in Nat, QueueHas(t, y, n)'
      PROVE  QueueHas(t, y, n) /\ ~(Final(event') /\ event'.test = t)
  <2>1. PICK i \in DOMAIN queue' : Final(queue'[i]) /\ queue'[i].test = t /\ queue'[i].type = y
    BY <1>4 DEF QueueHas, Final
  <2>2. i + 1 \in DOMAIN queue /\ i + 1 # 1 /\ queue'[i] = queue[i + 1]
    BY <1>3
  <2>3. QueueHas(t, y, n)
    BY <1>4, <2>1, <2>2 DEF QueueHas
  <2>4. ASSUME Final(event'), event'.test = t PROVE FALSE
    BY <1>0, <1>3, <2>1, <2>2, <2>4 DEF HeldOnce
  <2> QED
    BY <2>3, <2>4
<1>5. ASSUME NEW t \in Tests, NEW h \in Hands, NEW y \in Ending, NEW n \in Nat, Carries(h, t, y, n)', h # "event"
      PROVE  Carries(h, t, y, n) /\ (h = "queue" => ~(Final(event') /\ event'.test = t))
  BY <1>1, <1>4, <1>5, HandsApart, HandsApartNext, HandsFrame
<1>6. \A t \in Tests, y \in Ending, n \in Nat :
        EventHas(t, y, n)' => Final(event') /\ event'.test = t /\ event'.type = y /\ n = 0
  BY DEF EventHas, Final
<1>7. Fades
  BY <1>1 DEF Fades
<1>8. CASE ~(Final(event') /\ event'.test \in Tests)
  <2>1. ASSUME NEW t \in Tests, NEW h \in Hands, NEW y \in Ending, NEW n \in Nat, Carries(h, t, y, n)'
        PROVE  Carries(h, t, y, n)
    BY <1>5, <1>6, <1>8, <2>1, HandsApart, HandsApartNext
  <2> QED
    BY <1>0, <1>1, <1>7, <2>1, HandsStay
<1>9. CASE Final(event') /\ event'.test \in Tests
  <2>1. PICK u \in Tests : u = event'.test
    BY <1>9
  <2>2. PICK x \in Ending : x = event'.type
    BY <1>9 DEF Final, Ending
  <2>3. Carries("queue", u, x, 0) /\ "queue" \in Hands /\ 0 \in Nat
    BY <1>3, <1>9, <2>1, <2>2 DEF Carries, QueueHas, Hands
  <2>4. ASSUME NEW t \in Tests, NEW h \in Hands, NEW y \in Ending, NEW n \in Nat, Carries(h, t, y, n)'
        PROVE  IF t = u THEN h = "event" /\ \E g \in Hands : Carries(g, t, y, n) ELSE Carries(h, t, y, n)
    <3>1. CASE h # "event"
      <4>1. Carries(h, t, y, n) /\ (h = "queue" => t # u)
        BY <1>5, <1>9, <2>1, <2>4, <3>1
      <4>2. t # u
        BY <1>0, <2>3, <4>1, NoOther
      <4> QED
        BY <4>1, <4>2
    <3>2. CASE h = "event"
      <4>1. t = u /\ y = x /\ n = 0
        BY <1>6, <2>1, <2>2, <2>4, <3>2, HandsApartNext
      <4> QED
        BY <2>3, <3>2, <4>1
    <3> QED
      BY <3>1, <3>2
  <2>5. "event" \in Hands /\ posts' = posts
    BY <1>1 DEF Hands
  <2> QED
    BY <1>0, <1>7, <2>4, <2>5, HandedOver
<1> QED
  BY <1>8, <1>9

LEMMA BusHands ==
  ASSUME Inv, TypeOK', BusStep PROVE OneHand' /\ HandsKnow' /\ Stories'
<1>1. UNCHANGED <<record, note, life, hub, seen, posts>> /\ UNCHANGED cbVars
  BY DEF BusStep
<1>2. CASE \E p \in Places : Bus!Enqueue(p)
  BY <1>1, <1>2, EnqueueHands
<1>3. CASE Bus!Take
  BY <1>1, <1>3, TakeHands
<1>4. CASE Bus!CopyHandlers \/ Bus!Dispatched
  <2>1. UNCHANGED <<note, inflight, queue, handler, jobs, worker, record, posts>>
    BY <1>1, <1>4 DEF cbVars, Bus!CopyHandlers, Bus!Dispatched
  <2>2. \A t \in Tests, y \in Ending, n \in Nat : EventHas(t, y, n)' => EventHas(t, y, n)
    <3>1. CASE Bus!CopyHandlers
      BY <3>1 DEF EventHas, Final, Bus!CopyHandlers
    <3>2. CASE Bus!Dispatched
      BY <3>2, TypesDiffer DEF EventHas, Final, Bus!Dispatched, Bus!NoEvent, Ending
    <3> QED
      BY <1>4, <3>1, <3>2
  <2>3. \A t \in Tests, h \in Hands, y \in Ending, n \in Nat : Carries(h, t, y, n)' => Carries(h, t, y, n)
    BY <2>1, <2>2, HandsApart, HandsApartNext, HandsFrame
  <2>4. Fades
    BY <2>1 DEF Fades
  <2> QED
    BY <2>1, <2>3, <2>4, HandsStay DEF Inv
<1> QED
  BY <1>2, <1>3, <1>4 DEF BusStep, Places

\* Once the handler of an ending event is done, no other is left for it.
LEMMA OneHandler ==
  ASSUME TypeOK, Called, dispatcher = "call", targets # <<>>, Head(targets) \in Ours, targets' = Tail(targets),
         NEW i \in DOMAIN targets', targets'[i] \in Ours
  PROVE  FALSE
<1>1. targets \in Seq(Ids)
  BY DEF TypeOK, BusTypes
<1>2. /\ Head(targets) = targets[1] /\ 1 \in DOMAIN targets
      /\ i + 1 \in DOMAIN targets /\ targets'[i] = targets[i + 1] /\ i \in Nat \ {0}
  BY <1>1, TargetsTail
<1>3. targets[1] = targets[i + 1]
  BY <1>2, TypesDiffer DEF Called, Ours
<1>4. 1 = i + 1
  BY <1>2, <1>3 DEF Called
<1> QED
  BY <1>2, <1>4

\* What is not among the targets is not in their tail.
LEMMA TailLess ==
  ASSUME TypeOK, targets # <<>>, targets' = Tail(targets), UNCHANGED <<dispatcher, event, handler>>,
         NEW t, NEW y, NEW n, EventHas(t, y, n)'
  PROVE  EventHas(t, y, n)
<1>1. targets \in Seq(Ids)
  BY DEF TypeOK, BusTypes
<1>2. \A i \in DOMAIN targets' : i + 1 \in DOMAIN targets /\ targets'[i] = targets[i + 1]
  BY <1>1, TargetsTail
<1> QED
  BY <1>2 DEF EventHas, Final

LEMMA ReadsHands ==
  ASSUME Inv, TypeOK', HandlerReads PROVE OneHand' /\ HandsKnow' /\ Stories'
<1>0. TypeOK /\ OneHand /\ HandsKnow /\ Stories /\ Called
  BY DEF Inv
<1>1. /\ UNCHANGED <<note, inflight, queue, dispatcher, event, jobs, worker, record, posts>>
      /\ dispatcher = "call" /\ targets # <<>> /\ Head(targets) \in Ours /\ handler.pc = "off"
  BY DEF HandlerReads, Bus!Calls, Ours
<1>2. Fades
  BY <1>1 DEF Fades
<1>3. CASE handler' = handler
  <2>1. targets' = targets \/ targets' = Tail(targets)
    BY <1>3 DEF HandlerReads
  <2>2. \A t \in Tests, y \in Ending, n \in Nat : EventHas(t, y, n)' => EventHas(t, y, n)
    BY <1>0, <1>1, <1>3, <2>1, TailLess, HandsFrame
  <2>3. \A t \in Tests, h \in Hands, y \in Ending, n \in Nat : Carries(h, t, y, n)' => Carries(h, t, y, n)
    BY <1>1, <1>3, <2>2, HandsApart, HandsApartNext, HandsFrame
  <2> QED
    BY <1>0, <1>1, <1>2, <2>3, HandsStay
<1>4. CASE handler' # handler
  <2>1. /\ Final(event) /\ event.test \in Tests
        /\ handler' = [pc |-> "accept", job |-> [test |-> event.test, type |-> event.type, attempt |-> 0, due |-> 0]]
    BY <1>4, NotifierAssumption DEF HandlerReads, Relevant
  <2>2. PICK u \in Tests : u = event.test
    BY <2>1
  <2>3. handler'.pc # "off" /\ handler'.job.test = u /\ handler'.job.type = event.type /\ handler'.job.attempt = 0
    BY <2>1, <2>2
  <2>4. PICK x \in Ending : x = event.type
    BY <2>1 DEF Final, Ending
  <2>5. Carries("event", u, x, 0) /\ "event" \in Hands /\ 0 \in Nat
    <3>1. targets \in Seq(Ids)
      BY <1>0 DEF TypeOK, BusTypes
    <3>2. 1 \in DOMAIN targets /\ targets[1] \in Ours
      <4>1. Head(targets) = targets[1] /\ Len(targets) \in Nat /\ Len(targets) # 0
        BY <1>1, <3>1, HeadTailProperties, EmptySeq, LenProperties
      <4> QED
        BY <1>1, <3>1, <4>1, LenProperties
    <3> QED
      BY <1>1, <2>1, <2>2, <2>4, <3>2 DEF Carries, EventHas, Hands
  <2>6. ASSUME NEW t \in Tests, NEW h \in Hands, NEW y \in Ending, NEW n \in Nat, Carries(h, t, y, n)'
        PROVE  IF t = u THEN h = "handler" /\ \E g \in Hands : Carries(g, t, y, n) ELSE Carries(h, t, y, n)
    <3>1. CASE h = "handler"
      <4>1. t = u /\ y = x /\ n = 0
        BY <2>3, <2>4, <2>6, <3>1, HandsApartNext DEF HandlerHas, Is
      <4> QED
        BY <2>5, <3>1, <4>1
    <3>2. CASE h # "handler"
      <4>1. ~EventHas(t, y, n)'
        BY <1>1, <2>3 DEF EventHas
      <4>2. Carries(h, t, y, n) /\ h # "event"
        BY <1>1, <2>6, <3>2, <4>1, HandsApart, HandsApartNext, HandsFrame
      <4>3. t # u
        BY <1>0, <2>5, <4>2, NoOther
      <4> QED
        BY <4>2, <4>3
    <3> QED
      BY <3>1, <3>2
  <2>7. "handler" \in Hands /\ posts' = posts
    BY <1>1 DEF Hands
  <2> QED
    BY <1>0, <1>2, <2>6, <2>7, HandedOver
<1> QED
  BY <1>3, <1>4

LEMMA AcceptsHands ==
  ASSUME Inv, TypeOK', HandlerAccepts PROVE OneHand' /\ HandsKnow' /\ Stories'
<1>0. TypeOK /\ OneHand /\ HandsKnow /\ Stories /\ Called
  BY DEF Inv
<1>1. /\ UNCHANGED <<note, inflight, queue, dispatcher, event, jobs, worker, record, posts>>
      /\ handler.pc = "accept" /\ dispatcher = "call" /\ targets # <<>> /\ Head(targets) \in Ours
  BY <1>0 DEF HandlerAccepts, Called
<1>2. Fades
  BY <1>1 DEF Fades
<1>3. CASE running
  <2>1. handler'.pc = "schedule" /\ handler'.job = handler.job
    BY <1>0, <1>3 DEF HandlerAccepts, TypeOK, NotifierTypes
  <2>2. \A t \in Tests, y \in Ending, n \in Nat : /\ ~EventHas(t, y, n)'
                                                  /\ HandlerHas(t, y, n)' => HandlerHas(t, y, n)
    BY <1>1, <2>1 DEF EventHas, HandlerHas, Is
  <2>3. \A t \in Tests, h \in Hands, y \in Ending, n \in Nat : Carries(h, t, y, n)' => Carries(h, t, y, n)
    BY <1>1, <2>2, HandsApart, HandsApartNext, HandsFrame
  <2> QED
    BY <1>0, <1>1, <1>2, <2>3, HandsStay
<1>4. CASE ~running
  <2>1. handler'.pc = "off" /\ targets' = Tail(targets)
    BY <1>4 DEF HandlerAccepts
  <2>2. \A t \in Tests, y \in Ending, n \in Nat : ~EventHas(t, y, n)' /\ ~HandlerHas(t, y, n)'
    BY <1>0, <1>1, <2>1, OneHandler DEF EventHas, HandlerHas
  <2>3. \A t \in Tests, h \in Hands, y \in Ending, n \in Nat : Carries(h, t, y, n)' => Carries(h, t, y, n)
    BY <1>1, <2>2, HandsApart, HandsApartNext, HandsFrame
  <2> QED
    BY <1>0, <1>1, <1>2, <2>3, HandsStay
<1> QED
  BY <1>3, <1>4

\* A thread that is woken holds what it held.
LEMMA WokenHas ==
  ASSUME TypeOK, worker' = Woken(worker), NEW t, NEW y, NEW n, WorkerHas(t, y, n)'
  PROVE  WorkerHas(t, y, n)
<1>1. worker'.pc \in {"have", "posting"} => worker' = worker
  BY DEF Woken, TypeOK, NotifierTypes
<1> QED
  BY <1>1 DEF WorkerHas, Is

\* A job is appended to the jobs.
LEMMA JobsAppended ==
  ASSUME TypeOK, TypeOK', NEW r, jobs' = Append(jobs, r)
  PROVE  /\ r \in Jobs
         /\ \A i \in DOMAIN jobs' : (i \in DOMAIN jobs /\ jobs'[i] = jobs[i]) \/ (i = Len(jobs) + 1 /\ jobs'[i] = r)
<1>1. jobs \in Seq(Jobs) /\ jobs' \in Seq(Jobs)
  BY DEF TypeOK, NotifierTypes
<1>2. r \in Jobs
  <2>1. PICK n \in Nat : n = Len(jobs)
    BY <1>1, LenProperties
  <2>2. Len(jobs') = n + 1 /\ jobs'[n + 1] = r
    BY <1>1, <2>1
  <2> QED
    BY <1>1, <2>1, <2>2, ElementOfSeq
<1> QED
  BY <1>1, <1>2, Appended

LEMMA SchedulesHands ==
  ASSUME Inv, TypeOK', HandlerSchedules PROVE OneHand' /\ HandsKnow' /\ Stories'
<1>0. TypeOK /\ OneHand /\ HandsKnow /\ Stories /\ Called
  BY DEF Inv
<1>1. /\ UNCHANGED <<note, inflight, queue, dispatcher, event, record, posts>>
      /\ dispatcher = "call" /\ targets # <<>> /\ Head(targets) \in Ours
      /\ targets' = Tail(targets) /\ handler'.pc = "off" /\ handler.pc # "off"
      /\ jobs' = Append(jobs, handler.job) /\ worker' = Woken(worker)
  BY <1>0 DEF HandlerSchedules, Bus!HandlerReturns, Called
<1>2. Fades
  BY <1>1 DEF Fades
<1>3. \A i \in DOMAIN jobs' : (i \in DOMAIN jobs /\ jobs'[i] = jobs[i]) \/ jobs'[i] = handler.job
  BY <1>0, <1>1, JobsAppended
<1>4. handler.job \in Jobs
  BY <1>0, <1>1 DEF TypeOK, NotifierTypes
<1>5. PICK u \in Tests : u = handler.job.test
  BY <1>4 DEF Jobs
<1>6. PICK x \in Ending : x = handler.job.type
  BY <1>4 DEF Jobs
<1>7. PICK m \in Nat : m = handler.job.attempt
  BY <1>4 DEF Jobs
<1>8. Carries("handler", u, x, m) /\ "handler" \in Hands
  BY <1>1, <1>5, <1>6, <1>7 DEF Carries, HandlerHas, Is, Hands
<1>9. ASSUME NEW t \in Tests, NEW y \in Ending, NEW n \in Nat, JobsHave(t, y, n)'
      PROVE  JobsHave(t, y, n) \/ (t = u /\ y = x /\ n = m)
  BY <1>3, <1>5, <1>6, <1>7, <1>9 DEF JobsHave, Is
<1>10. \A t \in Tests, y \in Ending, n \in Nat : /\ ~EventHas(t, y, n)' /\ ~HandlerHas(t, y, n)'
                                                 /\ WorkerHas(t, y, n)' => WorkerHas(t, y, n)
  BY <1>0, <1>1, OneHandler, WokenHas DEF EventHas, HandlerHas
<1>11. ASSUME NEW t \in Tests, NEW h \in Hands, NEW y \in Ending, NEW n \in Nat, Carries(h, t, y, n)'
       PROVE  IF t = u THEN h = "jobs" /\ \E g \in Hands : Carries(g, t, y, n) ELSE Carries(h, t, y, n)
  <2>1. CASE h = "jobs"
    <3>1. JobsHave(t, y, n) \/ (t = u /\ y = x /\ n = m)
      BY <1>9, <1>11, <2>1, HandsApartNext
    <3> QED
      BY <1>8, <2>1, <3>1, HandsApart
  <2>2. CASE h # "jobs"
    <3>1. Carries(h, t, y, n) /\ h # "handler"
      BY <1>1, <1>10, <1>11, <2>2, HandsApart, HandsApartNext, HandsFrame
    <3>2. t # u
      BY <1>0, <1>8, <3>1, NoOther
    <3> QED
      BY <3>1, <3>2
  <2> QED
    BY <2>1, <2>2
<1>12. "jobs" \in Hands /\ posts' = posts
  BY <1>1 DEF Hands
<1> QED
  BY <1>0, <1>2, <1>11, <1>12, HandedOver

LEMMA BroadcastHands ==
  ASSUME Inv, TypeOK', Broadcast PROVE OneHand' /\ HandsKnow' /\ Stories'
<1>0. TypeOK /\ OneHand /\ HandsKnow /\ Stories
  BY DEF Inv
<1>1. /\ UNCHANGED <<note, inflight, queue, dispatcher, event, handler, jobs, worker, record, posts>>
      /\ targets # <<>> /\ targets' = Tail(targets)
  BY DEF Broadcast, Bus!Calls, Bus!HandlerReturns, cbVars
<1>2. \A t \in Tests, y \in Ending, n \in Nat : EventHas(t, y, n)' => EventHas(t, y, n)
  BY <1>0, <1>1, TailLess
<1>3. \A t \in Tests, h \in Hands, y \in Ending, n \in Nat : Carries(h, t, y, n)' => Carries(h, t, y, n)
  BY <1>1, <1>2, HandsApart, HandsApartNext, HandsFrame
<1>4. Fades
  BY <1>1 DEF Fades
<1> QED
  BY <1>0, <1>1, <1>3, <1>4, HandsStay

\* An event that ends no test is published.
LEMMA OtherPublished ==
  ASSUME TypeOK, NEW p \in Places, NEW e, ~Final(e), Bus!Publish(p, e),
         NEW t \in Tests, NEW y, NEW n, FlightHas(t, y, n)'
  PROVE  FlightHas(t, y, n)
<1>1. inflight' = [inflight EXCEPT ![p] = e] /\ inflight \in [Places -> Events] /\ t \in Places
  BY DEF Bus!Publish, TypeOK, BusTypes, Places
<1>2. inflight'[t] = inflight[t] \/ inflight'[t] = e
  BY <1>1
<1> QED
  BY <1>2 DEF FlightHas, Final

LEMMA LooksHands ==
  ASSUME Inv, TypeOK', WorkerLooks PROVE OneHand' /\ HandsKnow' /\ Stories'
<1>0. TypeOK /\ OneHand /\ HandsKnow /\ Stories /\ HeldOnce
  BY DEF Inv
<1>1. UNCHANGED <<note, inflight, queue, dispatcher, event, targets, handler, record, posts>>
  BY DEF WorkerLooks, WorkerOnly, busVars
<1>2. Fades
  BY <1>1 DEF Fades
<1>3. CASE worker'.pc # "have"
  <2>1. jobs' = jobs /\ worker'.pc \notin {"have", "posting"}
    BY <1>0, <1>3 DEF WorkerLooks, TypeOK, NotifierTypes
  <2>2. \A t \in Tests, y \in Ending, n \in Nat : ~WorkerHas(t, y, n)'
    BY <2>1 DEF WorkerHas
  <2>3. \A t \in Tests, h \in Hands, y \in Ending, n \in Nat : Carries(h, t, y, n)' => Carries(h, t, y, n)
    BY <1>1, <2>1, <2>2, HandsApart, HandsApartNext, HandsFrame
  <2> QED
    BY <1>0, <1>1, <1>2, <2>3, HandsStay
<1>4. CASE worker'.pc = "have"
  <2>1. /\ jobs \in Seq(Jobs) /\ Earliest \in DOMAIN jobs
        /\ jobs' = Without(Earliest) /\ worker'.job = jobs[Earliest]
    BY <1>0, <1>4, EarliestIs DEF WorkerLooks, TypeOK, NotifierTypes
  <2>2. PICK e \in DOMAIN jobs : e = Earliest
    BY <2>1
  <2>3. \A k \in DOMAIN jobs' : \E i \in DOMAIN jobs : i # e /\ jobs'[k] = jobs[i]
    <3>1. /\ DOMAIN jobs = 1..Len(jobs) /\ Len(jobs) \in Nat
          /\ DOMAIN jobs' = 1..(Len(jobs) - 1)
          /\ \A k \in DOMAIN jobs' : jobs'[k] = jobs[IF k < e THEN k ELSE k + 1]
      BY <2>1, <2>2, WithoutOne, LenProperties
    <3>2. \A k \in DOMAIN jobs' : (IF k < e THEN k ELSE k + 1) \in DOMAIN jobs /\ (IF k < e THEN k ELSE k + 1) # e
      BY <3>1
    <3> QED
      BY <3>1, <3>2
  <2>4. jobs[e] \in Jobs
    BY <2>1, ElementOfSeq, LenProperties
  <2>5. PICK u \in Tests : u = jobs[e].test
    BY <2>4 DEF Jobs
  <2>6. PICK x \in Ending : x = jobs[e].type
    BY <2>4 DEF Jobs
  <2>7. PICK m \in Nat : m = jobs[e].attempt
    BY <2>4 DEF Jobs
  <2>8. Carries("jobs", u, x, m) /\ "jobs" \in Hands
    BY <2>5, <2>6, <2>7 DEF Carries, JobsHave, Is, Hands
  <2>9. ASSUME NEW t \in Tests, NEW y \in Ending, NEW n \in Nat, JobsHave(t, y, n)'
        PROVE  JobsHave(t, y, n) /\ t # u
    <3>1. PICK k \in DOMAIN jobs' : Is(jobs'[k], t, y, n)
      BY <2>9 DEF JobsHave, Is
    <3>2. PICK i \in DOMAIN jobs : i # e /\ jobs'[k] = jobs[i]
      BY <2>3
    <3>3. jobs[i].test = t
      BY <3>1, <3>2 DEF Is
    <3> QED
      BY <1>0, <2>5, <3>1, <3>2, <3>3 DEF HeldOnce, JobsHave
  <2>10. ASSUME NEW t \in Tests, NEW h \in Hands, NEW y \in Ending, NEW n \in Nat, Carries(h, t, y, n)'
         PROVE  IF t = u THEN h = "worker" /\ \E g \in Hands : Carries(g, t, y, n) ELSE Carries(h, t, y, n)
    <3>1. CASE h = "worker"
      <4>1. t = u /\ y = x /\ n = m
        BY <2>1, <2>2, <2>5, <2>6, <2>7, <2>10, <3>1, HandsApartNext DEF WorkerHas, Is
      <4> QED
        BY <2>8, <3>1, <4>1
    <3>2. CASE h # "worker"
      <4>1. Carries(h, t, y, n) /\ (h = "jobs" => t # u)
        BY <1>1, <2>9, <2>10, <3>2, HandsApart, HandsApartNext, HandsFrame
      <4>2. t # u
        BY <1>0, <2>8, <4>1, NoOther
      <4> QED
        BY <4>1, <4>2
    <3> QED
      BY <3>1, <3>2
  <2>11. "worker" \in Hands /\ posts' = posts
    BY <1>1 DEF Hands
  <2> QED
    BY <1>0, <1>2, <2>10, <2>11, HandedOver
<1> QED
  BY <1>3, <1>4

LEMMA ProcessHands ==
  ASSUME Inv, TypeOK', Process PROVE OneHand' /\ HandsKnow' /\ Stories'
<1>0. TypeOK /\ OneHand /\ HandsKnow /\ Stories /\ Attempts
  BY DEF Inv
<1>1. UNCHANGED <<note, inflight, queue, dispatcher, event, targets, handler, jobs, record>>
  BY DEF Process, WorkerOnly, busVars
<1>2. worker.job \in Jobs /\ worker.pc = "have"
  BY <1>0 DEF Process, TypeOK, NotifierTypes
<1>3. CASE record[worker.job.test] = "gone"
  <2>1. worker' = Free /\ posts' = posts
    BY <1>3 DEF Process
  <2>2. \A t \in Tests, y \in Ending, n \in Nat : ~WorkerHas(t, y, n)'
    BY <2>1 DEF WorkerHas, Free
  <2>3. \A t \in Tests, h \in Hands, y \in Ending, n \in Nat : Carries(h, t, y, n)' => Carries(h, t, y, n)
    BY <1>1, <2>2, HandsApart, HandsApartNext, HandsFrame
  <2>4. Fades
    BY <1>1 DEF Fades
  <2> QED
    BY <1>0, <2>1, <2>3, <2>4, HandsStay
<1>4. CASE record[worker.job.test] # "gone"
  <2>1. PICK u \in Tests : u = worker.job.test
    BY <1>2 DEF Jobs
  <2>2. PICK x \in Ending : x = worker.job.type
    BY <1>2 DEF Jobs
  <2>3. PICK n \in Nat : n = worker.job.attempt
    BY <1>2 DEF Jobs
  <2>4. PICK k \in Nat : k = n + 1
    OBVIOUS
  <2>5. n < MaxAttempts
    BY <1>0, <1>2, <2>3 DEF Attempts
  <2>6. posts' = [posts EXCEPT ![u] = Append(posts[u], [event |-> x, state |-> record[u], attempt |-> n + 1])]
    BY <1>4, <2>1, <2>2, <2>3 DEF Process, Payload
  <2>7. worker' = [pc |-> "posting", job |-> [worker.job EXCEPT !.attempt = k]]
    BY <1>4, <2>3, <2>4 DEF Process
  <2>8. worker'.job.test = u /\ worker'.job.type = x /\ worker'.job.attempt = k
    BY <1>2, <2>1, <2>2, <2>7 DEF Jobs
  <2>9. Carries("worker", u, x, n) /\ "worker" \in Hands
    BY <1>2, <2>1, <2>2, <2>3 DEF Carries, WorkerHas, Is, Hands
  <2>10. ASSUME NEW t \in Tests, NEW h \in Hands, NEW y \in Ending, NEW m \in Nat, Carries(h, t, y, m)'
         PROVE  IF t = u THEN h = "worker" /\ y = x /\ m = n + 1 ELSE Carries(h, t, y, m)
    <3>1. CASE h = "worker"
      <4>1. t = u /\ y = x /\ m = k
        BY <2>8, <2>10, <3>1, HandsApartNext DEF WorkerHas, Is
      <4> QED
        BY <2>4, <3>1, <4>1
    <3>2. CASE h # "worker"
      <4>1. Carries(h, t, y, m)
        BY <1>1, <2>10, <3>2, HandsApart, HandsApartNext, HandsFrame
      <4>2. t # u
        BY <1>0, <2>9, <3>2, <4>1, NoOther
      <4> QED
        BY <4>1, <4>2
    <3> QED
      BY <3>1, <3>2
  <2>11. UNCHANGED record /\ record[u] # "gone"
    BY <1>1, <1>4, <2>1
  <2> QED
    BY <1>0, <2>5, <2>6, <2>9, <2>10, <2>11, HandPosts
<1> QED
  BY <1>3, <1>4

LEMMA RetryHands ==
  ASSUME Inv, TypeOK', Retry PROVE OneHand' /\ HandsKnow' /\ Stories'
<1>0. TypeOK /\ OneHand /\ HandsKnow /\ Stories
  BY DEF Inv
<1>1. UNCHANGED <<note, inflight, queue, dispatcher, event, targets, handler, record, posts>>
  BY DEF Retry, WorkerOnly, busVars
<1>2. worker.job \in Jobs /\ worker.pc = "posting" /\ worker' = Free
  BY <1>0 DEF Retry, TypeOK, NotifierTypes
<1>3. PICK d : d = Backoff * 2 ^ (worker.job.attempt - 1)
  OBVIOUS
<1>4. PICK r : r = [worker.job EXCEPT !.due = d]
  OBVIOUS
<1>5. jobs' = Append(jobs, r)
  BY <1>3, <1>4 DEF Retry
<1>6. PICK u \in Tests : u = worker.job.test
  BY <1>2 DEF Jobs
<1>7. PICK x \in Ending : x = worker.job.type
  BY <1>2 DEF Jobs
<1>8. PICK m \in Nat : m = worker.job.attempt
  BY <1>2 DEF Jobs
<1>9. r.test = u /\ r.type = x /\ r.attempt = m
  BY <1>2, <1>4, <1>6, <1>7, <1>8 DEF Jobs
<1>10. Carries("worker", u, x, m) /\ "worker" \in Hands
  BY <1>2, <1>6, <1>7, <1>8 DEF Carries, WorkerHas, Is, Hands
<1>11. \A i \in DOMAIN jobs' : (i \in DOMAIN jobs /\ jobs'[i] = jobs[i]) \/ jobs'[i] = r
  BY <1>0, <1>5, JobsAppended
<1>12. ASSUME NEW t \in Tests, NEW y \in Ending, NEW n \in Nat, JobsHave(t, y, n)'
       PROVE  JobsHave(t, y, n) \/ (t = u /\ y = x /\ n = m)
  BY <1>9, <1>11, <1>12 DEF JobsHave, Is
<1>13. ASSUME NEW t \in Tests, NEW h \in Hands, NEW y \in Ending, NEW n \in Nat, Carries(h, t, y, n)'
       PROVE  IF t = u THEN h = "jobs" /\ \E g \in Hands : Carries(g, t, y, n) ELSE Carries(h, t, y, n)
  <2>1. CASE h = "jobs"
    <3>1. JobsHave(t, y, n) \/ (t = u /\ y = x /\ n = m)
      BY <1>12, <1>13, <2>1, HandsApartNext
    <3> QED
      BY <1>10, <2>1, <3>1, HandsApart
  <2>2. CASE h # "jobs"
    <3>1. ~WorkerHas(t, y, n)'
      BY <1>2 DEF WorkerHas, Free
    <3>2. Carries(h, t, y, n) /\ h # "worker"
      BY <1>1, <1>13, <2>2, <3>1, HandsApart, HandsApartNext, HandsFrame
    <3>3. t # u
      BY <1>0, <1>10, <3>2, NoOther
    <3> QED
      BY <3>2, <3>3
  <2> QED
    BY <2>1, <2>2
<1>14. "jobs" \in Hands /\ posts' = posts /\ Fades
  BY <1>1 DEF Hands, Fades
<1> QED
  BY <1>0, <1>13, <1>14, HandedOver

\* The other steps of the notifier's thread, of time and of the daemon only
\* take jobs away.
LEMMA OtherHands ==
  ASSUME Inv, TypeOK',
         WorkerWaits \/ WorkerTimedOut \/ Delivered \/ GiveUp \/ PublishOutcome \/ Tick \/ Stop \/ HubStep \/ UNCHANGED vars
  PROVE  OneHand' /\ HandsKnow' /\ Stories'
<1>0. TypeOK /\ OneHand /\ HandsKnow /\ Stories
  BY DEF Inv
<1>1. UNCHANGED <<note, queue, dispatcher, event, targets, handler, record, posts>>
  BY DEF WorkerWaits, WorkerTimedOut, Delivered, GiveUp, PublishOutcome, Tick, Stop, HubStep, Initialize, StartNotifier,
         SubscribeCancelled, WaitedForIdle, StopFlag, UnsubscribeCompleted, UnsubscribeCancelled, NotifyWorker, JoinWorker,
         StopServers, WorkerOnly, HubOnly, busVars, vars, Bus!Publish, Bus!Subscribe, Bus!Unsubscribe
<1>2. \A t \in Tests, y \in Ending, n \in Nat : FlightHas(t, y, n)' => FlightHas(t, y, n)
  <2>1. CASE PublishOutcome
    <3>1. ~Final(Ev(<<"callback", worker.pc>>, worker.job.test, "none"))
      BY <2>1, TypesDiffer DEF PublishOutcome, Final, Ev, Ending, CallbackTypes
    <3> QED
      BY <1>0, <2>1, <3>1, OtherPublished DEF PublishOutcome, Places
  <2>2. CASE Stop
    <3>1. ~Final(Ev(Stopping, "none", "none"))
      BY TypesDiffer DEF Final, Ev, Ending
    <3> QED
      BY <1>0, <2>2, <3>1, OtherPublished DEF Stop, Places
  <2>3. CASE WorkerWaits \/ WorkerTimedOut \/ Delivered \/ GiveUp \/ Tick \/ HubStep \/ UNCHANGED vars
    <3>1. UNCHANGED inflight
      BY <2>3 DEF WorkerWaits, WorkerTimedOut, Delivered, GiveUp, Tick, HubStep, Initialize, StartNotifier,
           SubscribeCancelled, WaitedForIdle, StopFlag, UnsubscribeCompleted, UnsubscribeCancelled, NotifyWorker,
           JoinWorker, StopServers, busVars, vars, Bus!Subscribe, Bus!Unsubscribe
    <3> QED
      BY <3>1, HandsFrame
  <2> QED
    BY <2>1, <2>2, <2>3
<1>3. \A t \in Tests, y \in Ending, n \in Nat : JobsHave(t, y, n)' => JobsHave(t, y, n)
  <2>1. CASE Tick
    <3>1. jobs \in Seq(Jobs) /\ \A i \in DOMAIN jobs : jobs[i] \in Jobs
      BY <1>0, ElementOfSeq, LenProperties DEF TypeOK, NotifierTypes
    <3>2. jobs' = [i \in DOMAIN jobs |-> [jobs[i] EXCEPT !.due = @ - 1]]
      BY <2>1 DEF Tick
    <3>3. \A i \in DOMAIN jobs : /\ jobs'[i].test = jobs[i].test /\ jobs'[i].type = jobs[i].type
                                 /\ jobs'[i].attempt = jobs[i].attempt
      <4> TAKE i \in DOMAIN jobs
      <4>1. PICK r \in Jobs : r = jobs[i]
        BY <3>1
      <4>2. PICK d : d = r.due - 1
        OBVIOUS
      <4>3. jobs'[i] = [r EXCEPT !.due = d]
        BY <3>2, <4>1, <4>2
      <4> QED
        BY <4>1, <4>3 DEF Jobs
    <3>4. DOMAIN jobs' = DOMAIN jobs
      BY <3>2
    <3> QED
      BY <3>3, <3>4 DEF JobsHave, Is
  <2>2. CASE JoinWorker
    <3>1. DOMAIN jobs' = {}
      BY <2>2, EmptySeq, LenProperties DEF JoinWorker
    <3> QED
      BY <3>1 DEF JobsHave
  <2>3. CASE UNCHANGED jobs
    BY <2>3, HandsFrame
  <2> QED
    BY <2>1, <2>2, <2>3 DEF WorkerWaits, WorkerTimedOut, Delivered, GiveUp, PublishOutcome, Stop, HubStep, Initialize,
      StartNotifier, SubscribeCancelled, WaitedForIdle, StopFlag, UnsubscribeCompleted, UnsubscribeCancelled,
      NotifyWorker, StopServers, vars
<1>4. \A t \in Tests, y \in Ending, n \in Nat : WorkerHas(t, y, n)' => WorkerHas(t, y, n)
  <2>1. worker'.pc \in {"have", "posting"} => worker' = worker
    BY <1>0 DEF WorkerWaits, WorkerTimedOut, Delivered, GiveUp, PublishOutcome, Tick, Stop, HubStep, Initialize,
         StartNotifier, SubscribeCancelled, WaitedForIdle, StopFlag, UnsubscribeCompleted, UnsubscribeCancelled,
         NotifyWorker, JoinWorker, StopServers, HubOnly, vars, Free, Woken, TypeOK, NotifierTypes
  <2> QED
    BY <2>1 DEF WorkerHas, Is
<1>5. \A t \in Tests, h \in Hands, y \in Ending, n \in Nat : Carries(h, t, y, n)' => Carries(h, t, y, n)
  BY <1>1, <1>2, <1>3, <1>4, HandsApart, HandsApartNext, HandsFrame
<1>6. Fades
  BY <1>1 DEF Fades
<1> QED
  BY <1>0, <1>1, <1>5, <1>6, HandsStay

\* Every step keeps the end of a test in one hand, that knows what was posted.
LEMMA NextHands == Inv /\ TypeOK' /\ [Next]_vars => OneHand' /\ HandsKnow' /\ Stories'
BY EngineHands, BusHands, ReadsHands, AcceptsHands, SchedulesHands, BroadcastHands, LooksHands, ProcessHands, RetryHands,
   OtherHands
DEF Next, EngineEnds, HandlerStep, WorkerStep

\* The element appended shares its test with no other.
LEMMA JobsOnceMore ==
  ASSUME TypeOK, TypeOK', HeldOnce, NEW r, jobs' = Append(jobs, r), \A i \in DOMAIN jobs : jobs[i].test # r.test
  PROVE  \A i, j \in DOMAIN jobs' : jobs'[i].test = jobs'[j].test => i = j
<1>1. \A i \in DOMAIN jobs' : (i \in DOMAIN jobs /\ jobs'[i] = jobs[i]) \/ (i = Len(jobs) + 1 /\ jobs'[i] = r)
  BY JobsAppended
<1> QED
  BY <1>1 DEF HeldOnce

\* No job waits for a test whose end another hand holds.
LEMMA NoJobOf ==
  ASSUME TypeOK, OneHand, NEW h \in Hands, h # "jobs", NEW r \in Jobs, Carries(h, r.test, r.type, r.attempt)
  PROVE  \A i \in DOMAIN jobs : jobs[i].test # r.test
<1> SUFFICES ASSUME NEW i \in DOMAIN jobs, jobs[i].test = r.test PROVE FALSE
  OBVIOUS
<1>1. jobs[i] \in Jobs
  BY ElementOfSeq, LenProperties DEF TypeOK, NotifierTypes
<1>2. PICK t \in Tests : t = r.test
  BY DEF Jobs
<1>3. PICK y \in Ending, n \in Nat : y = jobs[i].type /\ n = jobs[i].attempt
  BY <1>1 DEF Jobs
<1>4. Carries("jobs", t, y, n) /\ "jobs" \in Hands
  BY <1>2, <1>3 DEF Carries, JobsHave, Is, Hands
<1>5. PICK x \in Ending, m \in Nat : x = r.type /\ m = r.attempt
  BY DEF Jobs
<1>6. Carries(h, t, x, m)
  BY <1>2, <1>5
<1> QED
  BY <1>4, <1>6, NoOther

LEMMA NextHeldOnce == Inv /\ TypeOK' /\ [Next]_vars => HeldOnce'
<1> SUFFICES ASSUME Inv, TypeOK', [Next]_vars PROVE HeldOnce'
  OBVIOUS
<1>0. TypeOK /\ OneHand /\ HeldOnce /\ Published
  BY DEF Inv
<1> DEFINE QueueOnce == \A i, j \in DOMAIN queue : Final(queue[i]) /\ Final(queue[j]) /\ queue[i].test = queue[j].test => i = j
           JobsOnce == \A i, j \in DOMAIN jobs : jobs[i].test = jobs[j].test => i = j
<1>a. UNCHANGED queue => QueueOnce'
  BY <1>0 DEF HeldOnce, Final
<1>b. UNCHANGED jobs => JobsOnce'
  BY <1>0 DEF HeldOnce
<1>c. QueueOnce' /\ JobsOnce' => HeldOnce'
  BY DEF HeldOnce
<1>1. CASE UNCHANGED <<queue, jobs>>
  BY <1>1, <1>a, <1>b, <1>c
<1>2. CASE HandlerSchedules
  <2>1. /\ handler.job \in Jobs /\ handler.pc # "off" /\ jobs' = Append(jobs, handler.job) /\ UNCHANGED queue
    BY <1>0, <1>2 DEF HandlerSchedules, Bus!HandlerReturns, TypeOK, NotifierTypes
  <2>2. Carries("handler", handler.job.test, handler.job.type, handler.job.attempt) /\ "handler" \in Hands
    BY <2>1 DEF Carries, HandlerHas, Is, Hands
  <2>3. \A i \in DOMAIN jobs : jobs[i].test # handler.job.test
    BY <1>0, <2>1, <2>2, NoJobOf
  <2>4. JobsOnce'
    BY <1>0, <2>1, <2>3, JobsOnceMore
  <2> QED
    BY <1>a, <1>c, <2>1, <2>4
<1>3. CASE Retry
  <2>1. worker.job \in Jobs /\ worker.pc = "posting" /\ UNCHANGED queue
    BY <1>0, <1>3 DEF Retry, TypeOK, NotifierTypes, busVars
  <2>2. PICK d : d = Backoff * 2 ^ (worker.job.attempt - 1)
    OBVIOUS
  <2>3. PICK r : r = [worker.job EXCEPT !.due = d]
    OBVIOUS
  <2>4. jobs' = Append(jobs, r) /\ r.test = worker.job.test
    BY <1>3, <2>1, <2>2, <2>3 DEF Retry, Jobs
  <2>5. Carries("worker", worker.job.test, worker.job.type, worker.job.attempt) /\ "worker" \in Hands
    BY <2>1 DEF Carries, WorkerHas, Is, Hands
  <2>6. \A i \in DOMAIN jobs : jobs[i].test # r.test
    BY <1>0, <2>1, <2>4, <2>5, NoJobOf
  <2>7. JobsOnce'
    BY <1>0, <2>4, <2>6, JobsOnceMore
  <2> QED
    BY <1>a, <1>c, <2>1, <2>7
<1>4. CASE WorkerLooks
  <2>1. UNCHANGED queue
    BY <1>4 DEF WorkerLooks, busVars
  <2>2. CASE worker'.pc = "have"
    <3>1. /\ jobs \in Seq(Jobs) /\ Earliest \in DOMAIN jobs /\ jobs' = Without(Earliest)
      BY <1>0, <1>4, <2>2, EarliestIs DEF WorkerLooks, TypeOK, NotifierTypes
    <3>2. PICK e \in DOMAIN jobs : e = Earliest
      BY <3>1
    <3>3. /\ DOMAIN jobs = 1..Len(jobs) /\ Len(jobs) \in Nat
          /\ DOMAIN jobs' = 1..(Len(jobs) - 1)
          /\ \A k \in DOMAIN jobs' : jobs'[k] = jobs[IF k < e THEN k ELSE k + 1]
      BY <3>1, <3>2, WithoutOne, LenProperties
    <3>4. \A k \in DOMAIN jobs' : (IF k < e THEN k ELSE k + 1) \in DOMAIN jobs
      BY <3>3
    <3>5. \A k, l \in DOMAIN jobs' : (IF k < e THEN k ELSE k + 1) = (IF l < e THEN l ELSE l + 1) => k = l
      BY <3>3
    <3>6. JobsOnce'
      BY <1>0, <3>3, <3>4, <3>5 DEF HeldOnce
    <3> QED
      BY <1>a, <1>c, <2>1, <3>6
  <2>3. CASE worker'.pc # "have"
    BY <1>0, <1>1, <1>4, <2>1, <2>3 DEF WorkerLooks, TypeOK, NotifierTypes
  <2> QED
    BY <2>2, <2>3
<1>5. CASE Tick
  <2>1. jobs \in Seq(Jobs) /\ \A i \in DOMAIN jobs : jobs[i] \in Jobs
    BY <1>0, ElementOfSeq, LenProperties DEF TypeOK, NotifierTypes
  <2>2. \A i \in DOMAIN jobs : jobs'[i].test = jobs[i].test
    BY <1>5, <2>1 DEF Tick, Jobs
  <2>3. DOMAIN jobs' = DOMAIN jobs /\ UNCHANGED queue
    BY <1>5 DEF Tick, busVars
  <2>4. JobsOnce'
    BY <1>0, <2>2, <2>3 DEF HeldOnce
  <2> QED
    BY <1>a, <1>c, <2>3, <2>4
<1>6. CASE JoinWorker
  <2>1. DOMAIN jobs' = {} /\ UNCHANGED queue
    BY <1>6, EmptySeq, LenProperties DEF JoinWorker, busVars
  <2> QED
    BY <1>a, <1>c, <2>1
<1>7. CASE BusStep
  <2>1. UNCHANGED jobs
    BY <1>7 DEF BusStep, cbVars
  <2>2. ASSUME NEW p \in Places, Bus!Enqueue(p) PROVE QueueOnce'
    <3>1. queue \in Seq(Events) /\ inflight[p] \in Events /\ queue' = Append(queue, inflight[p])
      BY <1>0, <2>2 DEF Bus!Enqueue, TypeOK, BusTypes
    <3>2. \A i \in DOMAIN queue' :
            (i \in DOMAIN queue /\ queue'[i] = queue[i]) \/ (i = Len(queue) + 1 /\ queue'[i] = inflight[p])
      BY <3>1, Appended
    <3>3. \A i \in DOMAIN queue : ~(Final(queue[i]) /\ Final(inflight[p]) /\ queue[i].test = inflight[p].test)
      <4> SUFFICES ASSUME NEW i \in DOMAIN queue, Final(queue[i]), Final(inflight[p]), queue[i].test = inflight[p].test
                   PROVE  FALSE
        OBVIOUS
      <4>1. p \in Tests /\ inflight[p].test = p
        BY <1>0 DEF Published
      <4>2. PICK x \in Ending : x = inflight[p].type
        BY DEF Final, Ending
      <4>3. PICK y \in Ending : y = queue[i].type
        BY DEF Final, Ending
      <4>4. /\ Carries("flight", p, x, 0) /\ Carries("queue", p, y, 0)
            /\ "flight" \in Hands /\ "queue" \in Hands /\ 0 \in Nat
        BY <4>1, <4>2, <4>3 DEF Carries, FlightHas, QueueHas, Hands
      <4> QED
        BY <1>0, <4>1, <4>4, NoOther
    <3> QED
      BY <1>0, <3>2, <3>3 DEF HeldOnce, Final
  <2>3. ASSUME Bus!Take PROVE QueueOnce'
    <3>1. queue \in Seq(Events) /\ queue # <<>> /\ queue' = Tail(queue)
      BY <1>0, <2>3 DEF Bus!Take, TypeOK, BusTypes
    <3>2. PICK n \in Nat : n = Len(queue)
      BY <3>1, LenProperties
    <3>3. DOMAIN queue = 1..n /\ n # 0
      BY <3>1, <3>2, LenProperties, EmptySeq
    <3>4. Tail(queue) \in Seq(Events) /\ Len(Tail(queue)) = n - 1
      BY <3>1, <3>2, HeadTailProperties
    <3>5. DOMAIN queue' = 1..(n - 1)
      BY <3>1, <3>4, LenProperties
    <3>6. \A i \in 1..(n - 1) : queue'[i] = queue[i + 1]
      BY <3>1, <3>2, <3>4, HeadTailProperties
    <3>7. \A i \in DOMAIN queue' : i \in Nat /\ i + 1 \in DOMAIN queue /\ queue'[i] = queue[i + 1]
      BY <3>3, <3>5, <3>6
    <3>8. \A i, j \in DOMAIN queue' : Final(queue'[i]) /\ Final(queue'[j]) /\ queue'[i].test = queue'[j].test
                                        => i + 1 = j + 1
      BY <1>0, <3>7 DEF HeldOnce
    <3> QED
      BY <3>7, <3>8 DEF Final
  <2>4. ASSUME Bus!CopyHandlers \/ Bus!Dispatched PROVE QueueOnce'
    BY <1>a, <2>4 DEF Bus!CopyHandlers, Bus!Dispatched
  <2> QED
    BY <1>7, <1>b, <1>c, <2>1, <2>2, <2>3, <2>4 DEF BusStep, Places
<1>8. CASE \E t \in Tests : Dequeue(t) \/ CancelRunning(t) \/ CancelQueued(t) \/ Drop(t) \/ Complete(t) \/ PublishFinal(t)
  BY <1>1, <1>8 DEF Dequeue, CancelRunning, CancelQueued, Drop, Complete, PublishFinal, End, EngineOnly, busVars, Bus!Publish
<1>9. CASE HandlerReads \/ HandlerAccepts \/ Broadcast
  BY <1>1, <1>9 DEF HandlerReads, HandlerAccepts, Broadcast, Bus!HandlerReturns, cbVars
<1>10. CASE WorkerWaits \/ WorkerTimedOut \/ Process \/ Delivered \/ GiveUp \/ PublishOutcome
  BY <1>1, <1>10 DEF WorkerWaits, WorkerTimedOut, Process, Delivered, GiveUp, PublishOutcome, busVars, Bus!Publish
<1>11. CASE Stop \/ Initialize \/ StartNotifier \/ SubscribeCancelled \/ WaitedForIdle \/ StopFlag
            \/ UnsubscribeCompleted \/ UnsubscribeCancelled \/ NotifyWorker \/ StopServers
  BY <1>1, <1>11 DEF Stop, Initialize, StartNotifier, SubscribeCancelled, WaitedForIdle, StopFlag, UnsubscribeCompleted,
     UnsubscribeCancelled, NotifyWorker, StopServers, busVars, Bus!Publish, Bus!Subscribe, Bus!Unsubscribe
<1>12. CASE UNCHANGED vars
  BY <1>1, <1>12 DEF vars
<1> QED
  BY <1>2, <1>3, <1>4, <1>5, <1>6, <1>7, <1>8, <1>9, <1>10, <1>11, <1>12
  DEF Next, EngineEnds, HandlerStep, WorkerStep, HubStep

-----------------------------------------------------------------------------
(* The theorems.                                                           *)

LEMMA InitInv == Init => Inv
<1> SUFFICES ASSUME Init PROVE Inv
  OBVIOUS
<1>1. TypeOK
  BY InitTypes
<1>2. /\ handlers = <<>> /\ queue = <<>> /\ targets = <<>> /\ jobs = <<>>
      /\ event = Bus!NoEvent /\ dispatcher = "idle" /\ hub = "new"
      /\ worker.pc = "off" /\ handler.pc = "off" /\ stats.pending = 0
      /\ \A t \in Tests : note[t] = Bus!NoEvent /\ posts[t] = <<>>
      /\ \A p \in Places : inflight[p] = Bus!NoEvent
  BY DEF Init, Bus!Init, Places
<1>3. ~Final(Bus!NoEvent) /\ Bus!NoEvent.type \notin Ending
  BY TypesDiffer DEF Final, Bus!NoEvent, Ending
<1>4. DOMAIN handlers = {} /\ DOMAIN queue = {} /\ DOMAIN targets = {} /\ DOMAIN jobs = {} /\ Len(jobs) = 0
  BY <1>2
<1>5. Pending
  BY <1>2, <1>4 DEF Pending, PendingExact, Outstanding
<1>6. Subscribed /\ Called
  BY <1>2, <1>4 DEF Subscribed, Called
<1>7. Published
  BY <1>2, <1>3 DEF Published
<1>8. HeldOnce
  BY <1>4 DEF HeldOnce
<1>9. Attempts
  BY <1>2, <1>4 DEF Attempts
<1>10. \A t \in Tests, h \in Hands, y \in Ending, n \in Nat : ~Carries(h, t, y, n)
  <2> SUFFICES ASSUME NEW t \in Tests, NEW y \in Ending, NEW n \in Nat
               PROVE  /\ ~NoteHas(t, y, n) /\ ~FlightHas(t, y, n) /\ ~QueueHas(t, y, n) /\ ~EventHas(t, y, n)
                      /\ ~HandlerHas(t, y, n) /\ ~JobsHave(t, y, n) /\ ~WorkerHas(t, y, n)
    BY DEF Carries
  <2>1. ~NoteHas(t, y, n)
    BY <1>2, <1>3 DEF NoteHas
  <2>2. ~FlightHas(t, y, n)
    BY <1>2, <1>3 DEF FlightHas, Places
  <2> QED
    BY <1>2, <1>3, <1>4, <2>1, <2>2 DEF QueueHas, EventHas, HandlerHas, JobsHave, WorkerHas
<1>11. OneHand /\ HandsKnow
  BY <1>10 DEF OneHand, HandsKnow
<1>12. Stories
  <2>1. MaxAttempts \in Nat /\ 0 <= MaxAttempts
    BY NotifierAssumption
  <2> QED
    BY <1>2, <2>1 DEF Stories, Story
<1> QED
  BY <1>1, <1>5, <1>6, <1>7, <1>8, <1>9, <1>11, <1>12 DEF Inv

LEMMA NextInv == Inv /\ [Next]_vars => Inv'
<1> SUFFICES ASSUME Inv, [Next]_vars PROVE Inv'
  OBVIOUS
<1>1. TypeOK'
  BY NextTypes DEF Inv
<1> QED
  BY <1>1, NextPending, NextSubscribed, NextCalled, NextPublished, NextHands, NextHeldOnce, NextAttempts DEF Inv

LEMMA SpecInv == Spec => []Inv
BY InitInv, NextInv, PTL DEF Spec

\* TypeOK of the notifier, the bus under it and the part of TestHub around it:
\* events on the queue are events that are published, jobs are those of tests
\* that ended, and the thread and the handler are where the code can be.
THEOREM NotifierTypeCorrect == Spec => []TypeOK
BY SpecInv, PTL DEF Inv

\* callback_notifier.cpp counts stats_.pending apart from jobs_, under several
\* locks: the counter is the number of callbacks that are still to be settled,
\* whatever is retried, dropped or interrupted by a stop.
THEOREM NotifierPendingExact == Spec => []PendingExact
<1>1. Inv => PendingExact
  BY DEF Inv, Pending
<1> QED
  BY <1>1, SpecInv, PTL

\* The end of a test is in one hand at most on its way from the engine over the
\* bus to the notifier's jobs, and who holds it knows how often it was posted:
\* so the posts of a test are at most callbacks.max_attempts, numbered in order,
\* with one event and one final verdict, for any number of tests and retries.
THEOREM NotifierOneStoryPerTest == Spec => []OneStoryPerTest
<1>1. Inv => OneStoryPerTest
  <2> SUFFICES ASSUME Inv, NEW t \in Tests
               PROVE  /\ Len(posts[t]) <= MaxAttempts
                      /\ \A i \in DOMAIN posts[t] :
                           /\ posts[t][i] = [posts[t][1] EXCEPT !.attempt = i]
                           /\ posts[t][i].state \in Verdicts
                           /\ posts[t][i].event = Cancelled => posts[t][i].state = "CANCELLED"
    BY DEF OneStoryPerTest
  <2>1. Story(t) /\ posts[t] \in Seq(Payloads)
    BY DEF Inv, Stories, TypeOK, NotifierTypes
  <2>2. ASSUME NEW i \in DOMAIN posts[t] PROVE posts[t][i].state \in Verdicts
    <3>1. posts[t] # <<>> /\ posts[t][1] \in Payloads
      <4>1. Len(posts[t]) \in Nat /\ DOMAIN posts[t] = 1..Len(posts[t])
        BY <2>1, LenProperties
      <4>2. 1 \in 1..Len(posts[t])
        BY <4>1
      <4> QED
        BY <2>1, <4>1, <4>2, ElementOfSeq, EmptySeq
    <3>2. posts[t][i] = [posts[t][1] EXCEPT !.attempt = i] /\ posts[t][1].state \in Verdicts
      BY <2>1, <3>1 DEF Story
    <3> QED
      BY <3>1, <3>2 DEF Payloads
  <2> QED
    BY <2>1, <2>2 DEF Story
<1> QED
  BY <1>1, SpecInv, PTL
=============================================================================
