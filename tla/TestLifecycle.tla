---------------------------- MODULE TestLifecycle ----------------------------
(***************************************************************************)
(* What the daemon promises about one test, without queues, locks, threads *)
(* or files: an id is used once; a test is queued, runs and gets a verdict *)
(* that never changes; only the end of the process loses an unfinished     *)
(* test; only a finished test is removed, and a removal that was cut short *)
(* by the end of the process may come undone.                              *)
(***************************************************************************)
CONSTANTS Tests

VARIABLES
  running,   \* the process is up
  used,      \* ids handed out
  life       \* state of every test; "absent" for unknown and removed ones

vars == <<running, used, life>>

Unfinished == {"QUEUED", "RUNNING"}
Verdict == {"PASSED", "FAILED", "SKIPPED", "TEST_ERROR", "CANCELLED"}

Init ==
  /\ running = TRUE
  /\ used = {}
  /\ life = [t \in Tests |-> "absent"]

\* What one test may do while the process is up.
Advance(t) ==
  \/ life'[t] = life[t]
  \/ life[t] = "absent" /\ t \notin used /\ life'[t] = "QUEUED"
  \/ life[t] = "QUEUED" /\ life'[t] \in {"RUNNING", "CANCELLED", "TEST_ERROR"}
  \/ life[t] = "RUNNING" /\ life'[t] \in Verdict
  \/ life[t] \in Verdict /\ life'[t] \in {"removing", "absent"}
  \/ life[t] = "removing" /\ life'[t] = "absent"

\* What the end of the process makes of one test.
Survive(t) ==
  \/ life[t] \in Unfinished /\ life'[t] \in Verdict \cup {"absent"}
  \/ life[t] \in Verdict /\ life'[t] \in {life[t], "absent"}
  \/ life[t] = "removing" /\ life'[t] \in Verdict
  \/ life[t] = "absent" /\ life'[t] = "absent"

\* What the next start makes of one test: history beyond the limit goes.
Reload(t) == life[t] \in Verdict \cup {"absent"} /\ life'[t] \in {life[t], "absent"}

Work == running /\ running' /\ \A t \in Tests : Advance(t)
End  == running /\ ~running' /\ \A t \in Tests : Survive(t)
Boot == ~running /\ running' /\ \A t \in Tests : Reload(t)

Next ==
  /\ Work \/ End \/ Boot
  /\ used' = used \cup {t \in Tests : life'[t] = "QUEUED"}
  /\ life' \in [Tests -> Unfinished \cup Verdict \cup {"removing", "absent"}]

Spec == Init /\ [][Next]_vars
=============================================================================
