------------------------------- MODULE Trends -------------------------------
(***************************************************************************)
(* Trends over finished tests and the comparison of two of them            *)
(* (src/src/engine/trends.h, ExecutionEngine::trendRuns and compareTests). *)
(*                                                                         *)
(* A test is its state ("none" while it has no result) and the sequence of *)
(* the specifications it ran; a result is the sequence of its scenarios,   *)
(* each with its key (file, name and data row) and state.                  *)
(***************************************************************************)
EXTENDS Naturals, Sequences, FiniteSets, SequencesExt

Failing  == {"FAILED", "TEST_ERROR"}
SpecsOf(test) == {test.specs[i] : i \in DOMAIN test.specs}

\* trendRuns: what counts of the history, in the order of submission.
TrendRuns(order) == SelectSeq(order, LAMBDA test : test.state \notin {"none", "CANCELLED"})

Trimmed(s, maxPoints) == SubSeq(s, IF Len(s) > maxPoints THEN Len(s) - maxPoints + 1 ELSE 1, Len(s))

\* Mutant: a run counts once for every mention of a specification.
Mentions_Each(run, spec) == Len(SelectSeq(run.specs, LAMBDA f : f = spec))

\* A run counts once for a specification it names several times (seen).
Mentions(run, spec) == IF spec \in SpecsOf(run) THEN 1 ELSE 0

\* groupTrends: the runs of each specification as they come, at last those of
\* all; an empty filter asks for every one.
GroupTrends(runs, filter, limit) ==
  LET maxPoints == IF limit < 1 THEN 1 ELSE limit
      specs  == {f \in UNION {SpecsOf(runs[i]) : i \in DOMAIN runs} : filter \in {"", f}}
      add(bySpec, run) == [f \in specs |-> bySpec[f] \o [n \in 1..Mentions(run, f) |-> run]]
      bySpec == FoldLeft(add, [f \in specs |-> <<>>], runs)
      all    == IF filter = "" /\ runs # <<>> THEN {"(all)"} ELSE {}
  IN  [f \in specs \cup all |-> Trimmed(IF f = "(all)" THEN runs ELSE bySpec[f], maxPoints)]

\* compareScenarios: the last scenario of a key is the one that counts.
StateIn(result, key) ==
  result[CHOOSE i \in DOMAIN result : /\ result[i].key = key
                                      /\ \A j \in DOMAIN result : result[j].key = key => j <= i].state

KeysOf(result) == {result[i].key : i \in DOMAIN result}

Change(was, is) ==
  CASE was \in Failing /\ is \notin Failing -> "improved"
    [] was \notin Failing /\ is \in Failing -> "regressed"
    [] was \in Failing /\ is \in Failing    -> "still_failed"
    [] OTHER -> "unchanged"

Compare(baseline, current) ==
  [k \in KeysOf(baseline) \cup KeysOf(current) |->
     IF k \notin KeysOf(baseline) THEN "added"
     ELSE IF k \notin KeysOf(current) THEN "removed"
     ELSE Change(StateIn(baseline, k), StateIn(current, k))]

\* specSetsOverlap: a test that names no specification goes with every other.
Overlap(a, b) == SpecsOf(a) = {} \/ SpecsOf(b) = {} \/ SpecsOf(a) \cap SpecsOf(b) # {}

Comparable(order, current, i) ==
  i # current /\ order[i].state \notin {"none", "CANCELLED"} /\ Overlap(order[current], order[i])

\* The automatic baseline of compareTests: from the newest test down, whether or
\* not it is older than the current one; 0 if there is none.
Baseline(order, current) ==
  LET candidates == {i \in DOMAIN order : Comparable(order, current, i)}
  IN  IF candidates = {} THEN 0 ELSE CHOOSE i \in candidates : \A j \in candidates : j <= i

-----------------------------------------------------------------------------
\* The series of a specification are its latest runs, each once, whatever else
\* the runs contain and whether or not one specification was asked for.
SeriesAreLatestRuns(order, limit) ==
  LET runs == TrendRuns(order)
      all  == GroupTrends(runs, "", limit)
  IN  /\ \A f \in DOMAIN all \ {"(all)"} :
           LET of == SelectSeq(runs, LAMBDA run : f \in SpecsOf(run))
           IN  /\ GroupTrends(runs, f, limit) = (f :> all[f])
               /\ Len(all[f]) = IF Len(of) < limit THEN Len(of) ELSE limit
               /\ all[f] = SubSeq(of, Len(of) - Len(all[f]) + 1, Len(of))
      /\ runs # <<>> => all["(all)"] # <<>>

\* Comparing the other way round tells the same story: what got worse got
\* better, what came went, and a failing scenario never counts as unchanged.
ComparisonMirrors(a, b) ==
  LET mirror == "regressed" :> "improved" @@ "improved" :> "regressed" @@ "added" :> "removed"
                @@ "removed" :> "added" @@ "still_failed" :> "still_failed" @@ "unchanged" :> "unchanged"
  IN  /\ DOMAIN Compare(a, b) = DOMAIN Compare(b, a)
      /\ \A k \in DOMAIN Compare(a, b) :
           /\ Compare(a, b)[k] = mirror[Compare(b, a)[k]]
           /\ Compare(a, b)[k] = "unchanged" =>
                \A r \in {a, b} : StateIn(r, k) \notin Failing

\* The newest test is compared with the comparable test right before it: no run
\* in between is left out and none is its own baseline.  (An older test is
\* compared with the newest one, not with the one before it.)
NewestFollowsPrevious(order) ==
  LET n == Len(order)
      older == {i \in 1..(n - 1) : Comparable(order, n, i)}
  IN  n > 0 => /\ Baseline(order, n) < n
               /\ older # {} => Baseline(order, n) \in older
               /\ \A i \in older : i <= Baseline(order, n)

=============================================================================
