----------------------------- MODULE MCTestQueue -----------------------------
(* Instance of TestQueue for TLC.                                             *)
EXTENDS TestQueue

CONSTANTS
  t1, t2, t3, t4,
  MaxEnqueues     \* bound on the number of enqueue operations

\* Two tests share the middle priority, one is more and one is less urgent.
MCPriority == [t \in Tests |-> IF t = t1 THEN 0 ELSE IF t = t4 THEN 2 ELSE 1]

EnqueuesBounded == sequence <= MaxEnqueues
=============================================================================
