---------------------------- MODULE SlotAllocator ----------------------------
(***************************************************************************)
(* What the runner pool promises to its sessions: a request is granted all *)
(* its slots in one step, from slots nobody holds; slots come back one at  *)
(* a time; and the pool is sealed, for replacing all processes, only while *)
(* nobody holds anything.                                                  *)
(***************************************************************************)
EXTENDS Naturals, FiniteSets

CONSTANTS Sessions, PoolSize

Slots == 0..(PoolSize - 1)

VARIABLES
  want,      \* per session: the number of slots it waits for
  holders,   \* per slot: the sessions that hold it
  sealed     \* all processes are being replaced

vars == <<want, holders, sealed>>

Init ==
  /\ want = [s \in Sessions |-> 0]
  /\ holders = [i \in Slots |-> {}]
  /\ sealed = FALSE

\* Only a session without slots asks for slots: nobody holds and waits.
Ask(s, n) ==
  /\ want[s] = 0
  /\ \A i \in Slots : s \notin holders[i]
  /\ want' = [want EXCEPT ![s] = n]
  /\ UNCHANGED <<holders, sealed>>

Grant(s, S) ==
  /\ ~sealed
  /\ Cardinality(S) = want[s]
  /\ \A i \in S : holders[i] = {}
  /\ holders' = [i \in Slots |-> IF i \in S THEN {s} ELSE holders[i]]
  /\ want' = [want EXCEPT ![s] = 0]
  /\ UNCHANGED sealed

\* There is no pool yet: the session is told so.
Refuse(s) ==
  /\ want[s] > 0
  /\ want' = [want EXCEPT ![s] = 0]
  /\ UNCHANGED <<holders, sealed>>

GiveBack(s, i) ==
  /\ s \in holders[i]
  /\ holders' = [holders EXCEPT ![i] = @ \ {s}]
  /\ UNCHANGED <<want, sealed>>

Seal ==
  /\ \A i \in Slots : holders[i] = {}
  /\ sealed' = TRUE
  /\ UNCHANGED <<want, holders>>

Unseal ==
  /\ sealed' = FALSE
  /\ UNCHANGED <<want, holders>>

Next ==
  \/ \E s \in Sessions :
       \/ \E n \in 1..PoolSize : Ask(s, n)
       \/ \E S \in SUBSET Slots : Grant(s, S)
       \/ Refuse(s)
       \/ \E i \in Slots : GiveBack(s, i)
  \/ Seal
  \/ Unseal

Spec == Init /\ [][Next]_vars
=============================================================================
