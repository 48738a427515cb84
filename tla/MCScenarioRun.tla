---------------------------- MODULE MCScenarioRun ----------------------------
(* Instance of ScenarioRun for TLC.                                           *)
EXTENDS ScenarioRun

\* Two specifications: a scenario with a context and no step of its own, and one
\* with a concept and a teardown ...
Small ==
  << [ok |-> TRUE, contexts |-> <<0>>, items |-> << <<>> >>, teardowns |-> <<>>],
     [ok |-> TRUE, contexts |-> <<>>, items |-> << <<2>> >>, teardowns |-> <<0>>] >>

\* ... and three: two scenarios, one that does not parse, another scenario.
Broken ==
  << [ok |-> TRUE, contexts |-> <<>>, items |-> << <<0>>, <<0>> >>, teardowns |-> <<>>],
     [ok |-> FALSE, contexts |-> <<>>, items |-> <<>>, teardowns |-> <<>>],
     [ok |-> TRUE, contexts |-> <<>>, items |-> << <<0>> >>, teardowns |-> <<>>] >>

MCRequests ==
  { [plan |-> Small, streams |-> 3, failFast |-> FALSE, retries |-> 0],
    [plan |-> Small, streams |-> 1, failFast |-> TRUE, retries |-> 1],
    [plan |-> Broken, streams |-> 1, failFast |-> FALSE, retries |-> 0],
    [plan |-> Broken, streams |-> 2, failFast |-> TRUE, retries |-> 0] }
=============================================================================
