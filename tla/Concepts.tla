------------------------------ MODULE Concepts ------------------------------
(***************************************************************************)
(* Concepts: the file that defines them (ConceptDictionary::parse) and     *)
(* their expansion in a specification (SpecParser::expandConcept,          *)
(* src/src/spec/spec_parser.cpp).                                          *)
(*                                                                         *)
(* A line of a concept file is the heading of a concept, a heading that    *)
(* does not parse, a step that parses or not, a table row, a blank line or *)
(* text.  Steps are known by their line numbers.                           *)
(***************************************************************************)
EXTENDS Naturals, Sequences

CONSTANTS
  ConceptNames,   \* parameterized texts of headings
  MaxDepth        \* how deep concepts are expanded (16 in the code)

NoStep == 0

\* The parser's state: the dictionary, the pending concept (or none), lastStep
\* with the place it points to, the rows of an open table, lines with an error.
StartOfFile ==
  [dictionary |-> <<>>, pending |-> <<>>, lastStep |-> NoStep, rows |-> 0, errors |-> {}]

\* flushTable: the rows become a table of the step read last.
Flushed(p) ==
  [p EXCEPT !.rows = 0,
            !.pending = IF p.rows > 0
                        THEN <<[@[1] EXCEPT !.steps[p.lastStep].tables = @ + 1]>> ELSE @]

Defined(p, name) == \E i \in DOMAIN p.dictionary : p.dictionary[i].name = name

\* commit: the pending concept enters the dictionary unless it has no steps or
\* its text is taken; then its heading has an error.
Committed(p) ==
  LET f == Flushed(p)
      keep == f.pending # <<>> /\ f.pending[1].steps # <<>> /\ ~Defined(f, f.pending[1].name)
  IN  [f EXCEPT !.pending = <<>>, !.lastStep = NoStep,
                !.dictionary = IF keep THEN Append(@, f.pending[1]) ELSE @,
                !.errors = IF f.pending = <<>> \/ keep THEN @ ELSE @ \cup {f.pending[1].line}]

StepHere(p, n) ==
  IF p.pending = <<>> THEN [p EXCEPT !.errors = @ \cup {n}]
  ELSE [p EXCEPT !.pending = <<[@[1] EXCEPT !.steps = Append(@, [line |-> n, tables |-> 0])]>>,
                 !.lastStep = Len(p.pending[1].steps) + 1]

\* One line; a step that does not parse leaves lastStep where it was.
LineOf(p, kind, n) ==
  CASE kind \in ConceptNames ->
         [Committed(p) EXCEPT !.pending = <<[name |-> kind, line |-> n, steps |-> <<>>]>>]
    [] kind = "bad heading" -> [Committed(p) EXCEPT !.errors = @ \cup {n}]
    [] kind = "step"        -> StepHere(Flushed(p), n)
    [] kind = "bad step"    -> [Flushed(p) EXCEPT !.errors = @ \cup {n}]
    [] kind = "row" /\ p.lastStep # NoStep -> [p EXCEPT !.rows = @ + 1]
    [] OTHER -> Flushed(p)

RECURSIVE Read(_, _)
Read(lines, n) == IF n = 0 THEN StartOfFile ELSE LineOf(Read(lines, n - 1), lines[n], n)

ParseConcepts(lines) == Committed(Read(lines, Len(lines)))

LineKinds == ConceptNames \cup {"bad heading", "step", "bad step", "row", "blank"}

\* Whatever a concept file contains: each step is a step of the concept whose
\* heading is the last above it, or an error at its line, or lost with a heading
\* that has an error; a dictionary never has an empty concept or one text twice.
EveryConceptStepAccounted(lines) ==
  LET p == ParseConcepts(lines)
      Headings == {i \in DOMAIN lines : lines[i] \in ConceptNames}
      Above(i) == {h \in Headings : h < i /\ \A k \in (h + 1)..i : lines[k] \notin ConceptNames \cup {"bad heading"}}
      Kept == UNION {{[name |-> p.dictionary[i].name, heading |-> p.dictionary[i].line,
                       line |-> p.dictionary[i].steps[j].line]
                        : j \in DOMAIN p.dictionary[i].steps} : i \in DOMAIN p.dictionary}
  IN  /\ \A i \in DOMAIN lines :
           lines[i] = "step" =>
             IF Above(i) = {} THEN i \in p.errors
             ELSE \E h \in Above(i) :
                    \/ h \in p.errors
                    \/ [name |-> lines[h], heading |-> h, line |-> i] \in Kept
      /\ \A k \in Kept : k.heading \notin p.errors /\ lines[k.line] = "step"
      /\ \A i, j \in DOMAIN p.dictionary : p.dictionary[i].name = p.dictionary[j].name => i = j
      /\ \A h \in Headings : h \notin p.errors => \E k \in Kept : k.heading = h

-----------------------------------------------------------------------------
(* expandConcept.  A dictionary maps a text to its parameters and steps; a *)
(* step is a text with arguments, each a value or a dynamic parameter.     *)

Value(v)   == [dynamic |-> FALSE, name |-> v]
Dynamic(x) == [dynamic |-> TRUE, name |-> x]
IsStep(text, args) == [text |-> text, args |-> args]

Shorter(s, t) == IF Len(s) < Len(t) THEN Len(s) ELSE Len(t)

\* Mutant: the parameters are replaced one after the other.
Resolved_InTurn(arg, params, args) ==
  LET one[i \in 0..Shorter(params, args)] ==
        IF i = 0 THEN arg
        ELSE IF one[i - 1] = Dynamic(params[i]) THEN args[i] ELSE one[i - 1]
  IN  one[Shorter(params, args)]

\* binding.find: a dynamic argument is replaced by what the parameter of that
\* name is bound to, the last one if a heading repeats a name.
Resolved(arg, params, args) ==
  LET bound == {i \in 1..Shorter(params, args) : arg = Dynamic(params[i])}
  IN  IF bound = {} THEN arg ELSE args[CHOOSE i \in bound : \A j \in bound : j <= i]

\* The steps that are run for a step: its own text, or the steps of the concept
\* it names, with its arguments for their parameters.
RECURSIVE Expand(_, _, _)
Expand(dict, step, depth) ==
  IF depth > MaxDepth \/ step.text \notin DOMAIN dict THEN <<step>>
  ELSE LET def == dict[step.text]
           inner(i) == [def.steps[i] EXCEPT
                          !.args = [k \in DOMAIN @ |-> Resolved(@[k], def.params, step.args)]]
           all[i \in 0..Len(def.steps)] ==
             IF i = 0 THEN <<>> ELSE all[i - 1] \o Expand(dict, inner(i), depth + 1)
       IN  all[Len(def.steps)]

\* The same with environments in place of rewriting: what an argument of a step
\* means is looked up in the call of the concept it stands in, up to the
\* specification.
RECURSIVE Lookup(_, _), Run(_, _, _)
Lookup(arg, env) ==
  LET top == env[Len(env)]
      bound == {i \in DOMAIN top.params \cap DOMAIN top.args : arg = Dynamic(top.params[i])}
  IN  IF env = <<>> \/ bound = {} THEN arg
      ELSE LET i == CHOOSE i \in bound : \A j \in bound : j <= i
           IN  Lookup(top.args[i], SubSeq(env, 1, Len(env) - 1))

Run(dict, step, env) ==
  IF step.text \notin DOMAIN dict \/ Len(env) > MaxDepth
  THEN <<[step EXCEPT !.args = [k \in DOMAIN @ |-> Lookup(@[k], env)]]>>
  ELSE LET def == dict[step.text]
           call == Append(env, [params |-> def.params, args |-> step.args])
           all[i \in 0..Len(def.steps)] ==
             IF i = 0 THEN <<>> ELSE all[i - 1] \o Run(dict, def.steps[i], call)
       IN  all[Len(def.steps)]

\* Expansion passes arguments down as calls do: an argument keeps its meaning
\* through any nesting, whatever the parameters of the concepts on the way are
\* called, and a concept that uses itself is left at the same depth.
ExpandsAsCalled(dict, step) == Expand(dict, step, 0) = Run(dict, step, <<>>)

=============================================================================
