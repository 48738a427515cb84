-------------------------- MODULE MCProcessRunner ---------------------------
(* One owner with three calls, one other thread with one, pipes that hold   *)
(* one message: a write blocks as soon as the program falls one behind.     *)
EXTENDS ProcessRunner

Calls == [c \in Callers |-> IF c = Owner THEN 3 ELSE 1]

=============================================================================
