---------------------------- MODULE MCRunnerPool ----------------------------
(* Instance of RunnerPool for TLC.                                            *)
EXTENDS RunnerPool, TLC

Symmetry == Permutations(Sessions)
=============================================================================
