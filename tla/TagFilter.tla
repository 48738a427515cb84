------------------------------ MODULE TagFilter ------------------------------
(***************************************************************************)
(* The tag expressions that select scenarios                               *)
(* (src/src/engine/tag_filter.h).                                          *)
(*                                                                         *)
(* An expression is a sequence of tokens: words, "!", "&" (also "&&" and   *)
(* ","), "|" (also "||"), "(" and ")".  The words "and", "or" and "not"    *)
(* are keywords where the parser asks for them and tags where it asks for  *)
(* a tag.  Compound words like not-ready begin with a keyword that the     *)
(* parser may take for itself, because only letters, digits and "_" end a  *)
(* keyword.  Case, blanks and error texts are left out.                    *)
(***************************************************************************)
EXTENDS Integers, Sequences, FiniteSets

CONSTANTS
  TagNames,   \* words that are tags wherever they stand
  Compound    \* compound word -> [key, rest]: the keyword it begins with

Words    == TagNames \cup DOMAIN Compound \cup {"and", "or", "not"}
Symbols  == {"!", "&", "|", "(", ")"}
Tokens   == Words \cup Symbols
AllTags  == TagNames \cup {"and", "or"} \cup DOMAIN Compound \cup {Compound[w].rest : w \in DOMAIN Compound}

\* The meaning of an expression: the sets of tags it selects.
TagSets    == SUBSET AllTags
Tagged(w)  == {S \in TagSets : w \in S}
Result(rest, sel) == [ok |-> TRUE, rest |-> rest, sel |-> sel]
NoResult          == [ok |-> FALSE, rest |-> <<>>, sel |-> {}]

\* What is left of s after one of ops, s itself if none is there.  A keyword is
\* taken off the front of a compound word.
Consume(s, ops) ==
  IF s = <<>> THEN s
  ELSE IF s[1] \in ops THEN Tail(s)
  ELSE IF s[1] \in DOMAIN Compound /\ Compound[s[1]].key \in ops
       THEN <<Compound[s[1]].rest>> \o Tail(s)
  ELSE s

RECURSIVE ParseOr(_), MoreOr(_), ParseAnd(_), MoreAnd(_), ParseUnary(_)

ParseOr(s) == MoreOr(ParseAnd(s))

MoreOr(left) ==
  LET s == Consume(left.rest, {"|", "or"})
      right == ParseAnd(s)
  IN  IF ~left.ok \/ s = left.rest THEN left
      ELSE IF right.ok THEN MoreOr(Result(right.rest, left.sel \cup right.sel)) ELSE NoResult

ParseAnd(s) == MoreAnd(ParseUnary(s))

\* Mutant: what follows an operator is parsed to the end of the expression, so
\* that "|" binds tighter than "&" on its right.
MoreAnd_TakesAll(left) ==
  LET s == Consume(left.rest, {"&", "and"})
      right == ParseOr(s)
  IN  IF ~left.ok \/ s = left.rest THEN left
      ELSE IF right.ok THEN MoreAnd(Result(right.rest, left.sel \cap right.sel)) ELSE NoResult

MoreAnd(left) ==
  LET s == Consume(left.rest, {"&", "and"})
      right == ParseUnary(s)
  IN  IF ~left.ok \/ s = left.rest THEN left
      ELSE IF right.ok THEN MoreAnd(Result(right.rest, left.sel \cap right.sel)) ELSE NoResult

ParseUnary(s) ==
  LET negated == Consume(s, {"!", "not"})
      operand == ParseUnary(negated)
      inner   == ParseOr(Tail(s))
  IN  IF s = <<>> THEN NoResult
      ELSE IF negated # s
      THEN IF operand.ok THEN Result(operand.rest, TagSets \ operand.sel) ELSE NoResult
      ELSE IF s[1] = "("
      THEN IF inner.ok /\ inner.rest # <<>> /\ inner.rest[1] = ")"
           THEN Result(Tail(inner.rest), inner.sel) ELSE NoResult
      ELSE IF s[1] \in Symbols THEN NoResult
      ELSE Result(Tail(s), Tagged(s[1]))

\* parse: an empty expression and one that does not parse both select
\* everything, only the second is invalid.
Parse(s) ==
  LET p == ParseOr(s)
  IN  IF s = <<>> THEN [valid |-> TRUE, sel |-> TagSets]
      ELSE IF p.ok /\ p.rest = <<>> THEN [valid |-> TRUE, sel |-> p.sel]
      ELSE [valid |-> FALSE, sel |-> TagSets]

\* all: what a test asks for with two expressions, the empty ones left out.
Combined(a, b) ==
  LET wrapped(e) == <<"(">> \o e \o <<")">>
  IN  IF a = <<>> /\ b = <<>> THEN <<>>
      ELSE IF a = <<>> THEN wrapped(b) ELSE IF b = <<>> THEN wrapped(a)
      ELSE wrapped(a) \o <<"&">> \o wrapped(b)

-----------------------------------------------------------------------------
(* The grammar of the header comment, without a parser: an expression is   *)
(* split at any operator of the loosest kind that is not in parentheses.   *)

\* The meanings of tokens i to j of s at a level: none or one for each way to
\* derive them.
RECURSIVE Means(_, _)
Means(s, level) ==
  LET Sub(i, j) == SubSeq(s, i, j)
      n == Len(s)
      Split(ops, l, r, Op(_, _)) ==
        UNION {{Op(x, y) : x \in Means(Sub(1, k - 1), l), y \in Means(Sub(k + 1, n), r)}
                 : k \in {k \in 2..(n - 1) : s[k] \in ops}}
  IN  CASE n = 0 -> {}
        [] n > 0 /\ level = "or" ->
             Means(s, "and") \cup
             Split({"|", "or"}, "or", "and", LAMBDA x, y : x \cup y)
        [] n > 0 /\ level = "and" ->
             Means(s, "unary") \cup
             Split({"&", "and"}, "and", "unary", LAMBDA x, y : x \cap y)
        [] n > 0 /\ level = "unary" ->
             (IF s[1] \in {"!", "not"} THEN {TagSets \ x : x \in Means(Tail(s), "unary")} ELSE {})
             \cup (IF s[1] = "(" /\ s[n] = ")" /\ n > 2 THEN Means(Sub(2, n - 1), "or") ELSE {})
             \cup (IF n = 1 /\ s[1] \in Words \ {"not"} THEN {Tagged(s[1])} ELSE {})

\* The parser accepts what the grammar derives and gives it its meaning, the
\* operators binding as they should and words serving as keyword and as tag.
\* (Compound words apart, whose keyword the parser may take off.)
ParsesAsMeant(s) ==
  (\A i \in DOMAIN s : s[i] \notin DOMAIN Compound) /\ s # <<>> =>
    LET p == Parse(s)
    IN  Means(s, "or") = IF p.valid THEN {p.sel} ELSE {}

Opens(s, k)  == Cardinality({i \in 1..k : s[i] = "("}) - Cardinality({i \in 1..k : s[i] = ")"})
Enclosed(s)  == \A k \in DOMAIN s : Opens(s, k) >= 0

\* Several expressions select what each of them selects, and are refused where
\* one of them would be: what stands in one cannot change another, unless it
\* closes a parenthesis it did not open.
AllIsConjunction(a, b) ==
  Enclosed(a) /\ Enclosed(b) =>
    LET p == Parse(Combined(a, b))
    IN  /\ p.valid <=> Parse(a).valid /\ Parse(b).valid
        /\ p.valid => p.sel = Parse(a).sel \cap Parse(b).sel

=============================================================================
