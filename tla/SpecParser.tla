----------------------------- MODULE SpecParser -----------------------------
(***************************************************************************)
(* SpecParser::parse: a specification is read line by line                 *)
(* (src/src/spec/spec_parser.cpp).                                         *)
(*                                                                         *)
(* A line is its kind: a heading of level one or two ("# x", or x over a   *)
(* line of "=" or "-", which counts as one line here), blank, the teardown *)
(* marker, tags with or without a comma at the end, a step that parses or  *)
(* not, a table row, a table separator, or text.  Steps and rows are known *)
(* by their line numbers; what is written in them is left out.             *)
(***************************************************************************)
EXTENDS Naturals, Sequences

CONSTANTS
  MaxLines,   \* bound: lines of a file ...
  MaxSpec     \* ... and of one that begins with its heading

Kinds == {"h1", "h2", "blank", "teardown", "tags", "tags,", "step", "bad step", "row", "separator", "text"}

VARIABLES
  lines,      \* the kinds of the lines read so far
  section,    \* "before", "spec", "scenario" or "teardown"
  contexts, scenarios, teardowns,  \* the steps; a scenario is the steps it has
  tables,     \* tables so far: whose (0: the data table) and their rows
  lastStep,   \* lastStep, 0 for null
  inTable,    \* "no", or for whom: "step" (tableForStep) or "data"
  tableRows,  \* tableRows
  sawStep,    \* sawStepInSpecBody
  continued,  \* tagContinuation
  tagLines,  \* lines taken as the continuation of a tag line
  errors,     \* lines with an error; 0: no heading
  warnings,   \* lines with a warning; 0: a second data table
  ended

document == <<contexts, scenarios, teardowns>>
table    == <<tables, inTable, tableRows>>
parseVars == <<lines, section, document, table, lastStep, sawStep, continued, tagLines,
               errors, warnings, ended>>

ParseInit ==
  /\ lines = <<>> /\ section = "before"
  /\ contexts = <<>> /\ scenarios = <<>> /\ teardowns = <<>>
  /\ tables = <<>> /\ inTable = "no" /\ tableRows = <<>>
  /\ lastStep = 0 /\ sawStep = FALSE
  /\ continued = FALSE /\ tagLines = {}
  /\ errors = {} /\ warnings = {}
  /\ ended = FALSE

Here == Len(lines) + 1

MoreLines == ~ended /\ Here <= (IF lines # <<>> /\ lines[1] = "h1" THEN MaxSpec ELSE MaxLines)

\* A line of kind k that does not continue tags.
Line(k) ==
  /\ MoreLines
  /\ ~continued \/ k = "blank"
  /\ lines' = Append(lines, k)
  /\ UNCHANGED <<tagLines, ended>>

-----------------------------------------------------------------------------
HasDataTable == \E i \in DOMAIN tables : tables[i].owner = 0

\* Whose an open table is: the last step's, the specification's (0) or nobody's.
Owner == IF inTable = "step" /\ lastStep # 0 THEN {lastStep}
         ELSE IF section = "spec" /\ ~sawStep THEN {0} ELSE {}

Second == Owner = {0} /\ HasDataTable

\* flushTable: the rows become a table of their owner; a second data table is
\* warned of and dropped.
Flush ==
  /\ tables' = IF tableRows = <<>> \/ Owner = {} \/ Second THEN tables
               ELSE Append(tables, [owner |-> CHOOSE o \in Owner : TRUE, rows |-> tableRows])
  /\ warnings' = IF tableRows # <<>> /\ Second THEN warnings \cup {0} ELSE warnings
  /\ inTable' = "no" /\ tableRows' = <<>>

Error == errors' = errors \cup {Here}

\* The line after a tag line that ends with a comma is tags, whatever it is.
ContinueTags(k) ==
  /\ MoreLines /\ continued /\ k # "blank"
  /\ lines' = Append(lines, k)
  /\ tagLines' = tagLines \cup {Here}
  /\ continued' = (k = "tags,")
  /\ UNCHANGED <<section, document, table, lastStep, sawStep, errors, warnings, ended>>

Heading ==
  /\ Line("h1")
  /\ Flush
  /\ IF section = "before" THEN section' = "spec" /\ UNCHANGED errors
                           ELSE Error /\ UNCHANGED section
  /\ lastStep' = 0 /\ continued' = FALSE
  /\ UNCHANGED <<document, sawStep>>

ScenarioHeading ==
  /\ Line("h2")
  /\ Flush
  /\ IF section \in {"before", "teardown"}
     THEN Error /\ UNCHANGED <<section, scenarios>>
     ELSE /\ section' = "scenario"
          /\ scenarios' = Append(scenarios, <<>>)
          /\ UNCHANGED errors
  /\ lastStep' = 0 /\ continued' = FALSE
  /\ UNCHANGED <<contexts, teardowns, sawStep>>

Blank ==
  /\ Line("blank")
  /\ Flush
  /\ continued' = FALSE
  /\ UNCHANGED <<section, document, lastStep, sawStep, errors>>

TeardownMarker ==
  /\ Line("teardown")
  /\ Flush
  /\ IF section = "before" THEN Error /\ UNCHANGED section
                           ELSE section' = "teardown" /\ UNCHANGED errors
  /\ lastStep' = 0 /\ continued' = FALSE
  /\ UNCHANGED <<document, sawStep>>

\* Tags stand under the heading they belong to, before any step.
TagLine(k) ==
  /\ k \in {"tags", "tags,"}
  /\ Line(k)
  /\ Flush
  /\ IF \/ section \in {"before", "teardown"}
        \/ section = "spec" /\ sawStep
        \/ section = "scenario" /\ scenarios[Len(scenarios)] # <<>>
     THEN Error /\ continued' = FALSE
     ELSE continued' = (k = "tags,") /\ UNCHANGED errors
  /\ lastStep' = 0
  /\ UNCHANGED <<section, document, sawStep>>

\* addStep, for a step that parses ...
StepLine ==
  /\ Line("step")
  /\ Flush
  /\ lastStep' = IF section = "before" THEN 0 ELSE Here
  /\ IF section = "before" THEN Error ELSE UNCHANGED errors
  /\ contexts' = IF section = "spec" THEN Append(contexts, Here) ELSE contexts
  /\ sawStep' = (sawStep \/ section = "spec")
  /\ scenarios' = IF section = "scenario" THEN [scenarios EXCEPT ![Len(scenarios)] = Append(@, Here)]
                                          ELSE scenarios
  /\ teardowns' = IF section = "teardown" THEN Append(teardowns, Here) ELSE teardowns
  /\ continued' = FALSE
  /\ UNCHANGED section

\* ... and for one that does not.
BadStep ==
  /\ Line("bad step")
  /\ Flush
  /\ Error
  /\ lastStep' = 0 /\ continued' = FALSE
  /\ UNCHANGED <<section, document, sawStep>>

\* A row or a separator; the first one decides whose table it is, and one that
\* is nobody's is warned of.
TableLine(k) ==
  LET whose == IF inTable # "no" THEN inTable
               ELSE IF lastStep # 0 THEN "step"
               ELSE IF section = "spec" /\ ~sawStep THEN "data" ELSE "no"
  IN  /\ k \in {"row", "separator"}
      /\ Line(k)
      /\ inTable' = whose
      /\ tableRows' = IF whose # "no" /\ k = "row" THEN Append(tableRows, Here) ELSE tableRows
      /\ warnings' = IF whose = "no" THEN warnings \cup {Here} ELSE warnings
      /\ continued' = FALSE
      /\ UNCHANGED <<section, document, tables, lastStep, sawStep, errors>>

\* Mutant: text between a step and a table is passed over.
Text_KeepsStep ==
  /\ Line("text")
  /\ Flush
  /\ continued' = FALSE
  /\ UNCHANGED <<section, document, lastStep, sawStep, errors>>

Text ==
  /\ Line("text")
  /\ Flush
  /\ lastStep' = 0 /\ continued' = FALSE
  /\ UNCHANGED <<section, document, sawStep, errors>>

\* After the last line; warnings of empty scenarios are left out.
EndOfFile ==
  /\ ~ended
  /\ ended' = TRUE
  /\ Flush
  /\ errors' = IF section = "before" THEN errors \cup {0} ELSE errors
  /\ UNCHANGED <<lines, section, document, lastStep, sawStep, continued, tagLines>>

ParseNext ==
  \/ Heading \/ ScenarioHeading \/ Blank \/ TeardownMarker \/ StepLine \/ BadStep \/ Text
  \/ \E k \in Kinds : ContinueTags(k) \/ TagLine(k) \/ TableLine(k)
  \/ EndOfFile

-----------------------------------------------------------------------------
ParseSpec == ParseInit /\ [][ParseNext]_parseVars

-----------------------------------------------------------------------------
LinesOf(kinds) == {i \in DOMAIN lines : lines[i] \in kinds}

\* The parts of the document in the order of the file.
Places  == 0..(Len(scenarios) + 1)
Part(p) == IF p = 0 THEN contexts ELSE IF p <= Len(scenarios) THEN scenarios[p] ELSE teardowns

Steps == UNION {{Part(p)[i] : i \in DOMAIN Part(p)} : p \in Places}

\* Every step of the file is in the document once, in the order of the file
\* whatever headings stand where they must not, or its line has an error.  The
\* one exception is a line that a tag line with a comma at its end takes: the
\* next one, and those that follow lines of tags with commas.
EveryStepOnce ==
  LET taken == {i \in LinesOf(Kinds) : \E j \in LinesOf({"tags,"}) \ errors :
                  j < i /\ \A k \in (j + 1)..(i - 1) : lines[k] = "tags,"}
  IN  /\ \A p, q \in Places : \A i \in DOMAIN Part(p), j \in DOMAIN Part(q) :
           p < q \/ (p = q /\ i < j) => Part(p)[i] < Part(q)[j]
      /\ LinesOf({"step", "bad step"}) \ taken \subseteq Steps \cup errors
      /\ Steps \subseteq LinesOf({"step"}) \ errors

\* A table belongs to the step right above it, with nothing but blank lines and
\* other tables between, and the data table stands between the heading and
\* the first step: no table is given to a step further up.
TablesWhereWritten ==
  \A t \in {tables[i] : i \in DOMAIN tables} :
    IF t.owner # 0
    THEN \A i \in (t.owner + 1)..(t.rows[1]) : lines[i] \in {"blank", "row", "separator"}
    ELSE /\ \E i \in LinesOf({"h1"}) : i < t.rows[1]
         /\ \A i \in Steps : i > t.rows[1]

\* Every row of a file that was read to its end is in the table of a step, in
\* the data table, or in a warning: none is dropped in silence.
EveryRowAccounted ==
  ended =>
    LET inTables == UNION {{tables[i].rows[j] : j \in DOMAIN tables[i].rows} : i \in DOMAIN tables}
    IN  \/ LinesOf({"row"}) \subseteq inTables \cup warnings \cup tagLines
        \/ 0 \in warnings

\* A specification file is read as it is written, its steps, its tables and
\* their rows (SpecParser::parse).
SpecReadAsWritten == EveryStepOnce /\ TablesWhereWritten /\ EveryRowAccounted

=============================================================================
