------------------------------- MODULE MCText -------------------------------
(* The algorithms that keep no state, each on all small inputs, the parser of *)
(* specifications on all short files, and the reader of HTTP requests on      *)
(* short connections.                                                         *)
EXTENDS TagFilter, Concepts, Trends, ProjectConfig, SpecParser, MCHttp

\* The question a behaviour asks, and its input.
VARIABLE probe

Probe(about, inputs) == \E i \in inputs : probe = [about |-> about, input |-> i]

-----------------------------------------------------------------------------
MCCompound ==
  "not-a" :> [key |-> "not", rest |-> "-a"] @@ "or-b" :> [key |-> "or", rest |-> "-b"]

Arguments  == {Dynamic("x"), Dynamic("y"), Value("1")}
Pairs      == {<<a, b>> : a \in Arguments, b \in Arguments}
Parameters == {<<"x", "y">>, <<"y", "x">>, <<"x", "x">>, <<"y">>}

\* A concept that uses another one, which may use the first one again.
Dictionaries ==
  {"c" :> [params |-> p, steps |-> <<IsStep("d", a), IsStep("leaf", a)>>]
   @@ "d" :> [params |-> q, steps |-> <<IsStep(t, b)>>]
     : p \in Parameters, q \in Parameters, a \in Pairs, b \in Pairs, t \in {"c", "leaf"}}

Calls == {<<Value("1"), Value("2")>>, <<Dynamic("y"), Value("2")>>, <<Value("1")>>}

Histories ==
  BoundedSeq({[state |-> s, specs |-> f] : s \in {"PASSED", "CANCELLED", "none"},
                                           f \in {<<>>, <<"f">>, <<"g">>, <<"f", "g", "f">>}}, 3)

Results == BoundedSeq({[key |-> k, state |-> s] : k \in {"k", "l"},
                                                  s \in {"PASSED", "SKIPPED", "FAILED", "TEST_ERROR"}}, 2)

Projects ==
  BoundedSeq({[id |-> i, name |-> n, dir |-> d] : i \in {None, <<"a">>, <<"a", 2>>},
                                                  n \in {"", "a"}, d \in {None, <<"d">>}}, 3)

Configs == {Config(p, c, d) : p \in Projects, c \in {None, <<"a">>, <<"a", 2>>, <<"z">>},
                              d \in {None, <<"d">>}}

Probes ==
  \/ Probe("tags", BoundedSeq(Tokens \ DOMAIN Compound, 5))
  \/ Probe("all tags", BoundedSeq(Tokens, 3) \X {<<>>, <<"a", "|", "or">>})
  \/ Probe("concepts", BoundedSeq(LineKinds, 5))
  \/ Probe("expansion", Dictionaries \X Calls)
  \/ Probe("trends", Histories)
  \/ Probe("comparison", Results \X Results)
  \/ Probe("configuration", Configs)
  \/ Probe("files", {<<>>})

\* While another question is asked the client of the connection sends nothing.
Init ==
  /\ ParseInit /\ ConnInit
  /\ Probe("connection", {<<>>}) \/ (script = <<>> /\ Probes)

Next ==
  /\ UNCHANGED probe
  /\ \/ probe.about = "files" /\ ParseNext /\ UNCHANGED connVars
     \/ probe.about = "connection" /\ ConnNext /\ UNCHANGED parseVars

Spec == Init /\ [][Next]_<<parseVars, connVars, probe>>

Asked(about, Holds(_)) == probe.about = about => Holds(probe.input)

-----------------------------------------------------------------------------
\* Tag expressions select what the grammar says they do (see ParsesAsMeant), and
\* several of them select what each selects (see AllIsConjunction).
TagsSelectAsWritten ==
  /\ Asked("tags", ParsesAsMeant)
  /\ Asked("all tags", LAMBDA i : AllIsConjunction(i[1], i[2]))

\* No step of a concept file is lost (see EveryConceptStepAccounted), and concepts
\* are expanded as calls are (see ExpandsAsCalled).
ConceptsRunAsWritten ==
  /\ Asked("concepts", EveryConceptStepAccounted)
  /\ Asked("expansion", LAMBDA i : ExpandsAsCalled(i[1], IsStep("c", i[2])))

\* Series are the latest runs of a specification (see SeriesAreLatestRuns), the
\* newest test follows the previous one (see NewestFollowsPrevious), and a
\* comparison says the same both ways round (see ComparisonMirrors).
TrendsTellTheHistory ==
  /\ Asked("trends", LAMBDA i : \A limit \in {1, 2} : SeriesAreLatestRuns(i, limit))
  /\ Asked("trends", NewestFollowsPrevious)
  /\ Asked("comparison", LAMBDA i : ComparisonMirrors(i[1], i[2]))

\* Projects are told apart and one is current (see ProjectsSettled), the one asked
\* for wherever that is clear (see ChoiceKept).
ConfigurationSettles ==
  Asked("configuration",
        LAMBDA c : ProjectsSettled(c) /\ \A dir \in {None, <<"d">>, <<"e">>} : ChoiceKept(c, dir))

=============================================================================
