------------------------------- MODULE MCEngine -------------------------------
(* Instance of ExecutionEngine for TLC.                                       *)
EXTENDS ExecutionEngine, TLC

CONSTANTS t1, t2

\* The last test is the urgent one.
MCPriority == [t \in Tests |-> IF t = t1 THEN 1 ELSE 2]

Symmetry == Permutations(Workers) \cup Permutations(Clients)
=============================================================================
