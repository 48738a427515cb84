---------------------------- MODULE MCSpecCatalog ----------------------------
(* Two projects: one with a specification and a concept file, one with a     *)
(* concept file.                                                             *)
EXTENDS SpecCatalog
CONSTANTS s1, c1, c2, p1, p2
MCProjectOf == [f \in Files |-> IF f = c2 THEN p2 ELSE p1]

Life(e, c, T) == [edits |-> e, calls |-> c, tests |-> T]
\* Two changes by others and an API call; one change and two calls; two calls
\* while tests are submitted.
AllLives == { Life(2, 1, {}), Life(1, 2, {}), Life(0, 2, Tests) }

=============================================================================
