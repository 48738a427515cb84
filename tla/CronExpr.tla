------------------------------ MODULE CronExpr ------------------------------
(***************************************************************************)
(* Five-field cron expressions (src/src/util/cron.h).  A source is a       *)
(* record of five fields or an alias; a field is the set of the items of   *)
(* its comma list, an item a range with an optional step: lists that name  *)
(* an item twice ("*,*") and the characters of an item are left out;       *)
(* everything parse checks or computes is kept.                            *)
(***************************************************************************)
EXTENDS Naturals

\* The items of a comma list, and a source field by field.
FieldItem == {i \in [star : BOOLEAN, lo : Nat, hi : Nat, slash : BOOLEAN, step : Nat] :
                (i.star => i.lo = 0 /\ i.hi = 0) /\ (~i.slash => i.step = 1)}
CronSource == [minute : SUBSET FieldItem, hour : SUBSET FieldItem, dom : SUBSET FieldItem,
               month : SUBSET FieldItem, dow : SUBSET FieldItem]

\* A broken-down time.
Moment == [min : 0..59, hour : 0..23, mday : 1..31, mon : 1..12, wday : 0..6]

\* "*", "*/step", "lo", "lo-hi", "lo-hi/step" of the comma list.
Star        == [star |-> TRUE, lo |-> 0, hi |-> 0, slash |-> FALSE, step |-> 1]
StarBy(n)   == [Star EXCEPT !.slash = TRUE, !.step = n]
At(n)       == [Star EXCEPT !.star = FALSE, !.lo = n, !.hi = n]
Span(a, b)  == [At(a) EXCEPT !.hi = b]

Fields(mi, h, d, mo, w) == [minute |-> mi, hour |-> h, dom |-> d, month |-> mo, dow |-> w]

Alias(name) ==
  CASE name \in {"@yearly", "@annually"} -> Fields({At(0)}, {At(0)}, {At(1)}, {At(1)}, {Star})
    [] name = "@monthly"                 -> Fields({At(0)}, {At(0)}, {At(1)}, {Star}, {Star})
    [] name = "@weekly"                  -> Fields({At(0)}, {At(0)}, {Star}, {Star}, {At(0)})
    [] name \in {"@daily", "@midnight"}  -> Fields({At(0)}, {At(0)}, {Star}, {Star}, {Star})
    [] name = "@hourly"                  -> Fields({At(0)}, {Star}, {Star}, {Star}, {Star})

ItemOk(i, min, max) ==
  /\ i.slash => i.step \in 1..(max - min + 1)
  /\ ~i.star => i.lo \in min..max /\ i.hi \in min..max /\ i.lo <= i.hi

ItemBits(i, min, max) ==
  LET begin == IF i.star THEN min ELSE i.lo
      end   == IF i.star THEN max ELSE i.hi
  IN  {v \in begin..end : (v - begin) % i.step = 0}

FieldOk(f, min, max) == f # {} /\ \A i \in f : ItemOk(i, min, max)

FieldBits(f, min, max) == UNION {ItemBits(i, min, max) : i \in f}

ParseOk(c) ==
  /\ FieldOk(c.minute, 0, 59) /\ FieldOk(c.hour, 0, 23) /\ FieldOk(c.dom, 1, 31)
  /\ FieldOk(c.month, 1, 12) /\ FieldOk(c.dow, 0, 7)

\* 0 and 7 both mean Sunday.
BothSundays(S) == IF S \cap {0, 7} # {} THEN S \cup {0, 7} ELSE S

\* What parse leaves in a CronExpr, for fields that are in order.
Parse(c) ==
  [minute |-> FieldBits(c.minute, 0, 59), hour |-> FieldBits(c.hour, 0, 23),
   dom |-> FieldBits(c.dom, 1, 31), month |-> FieldBits(c.month, 1, 12),
   dow |-> BothSundays(FieldBits(c.dow, 0, 7)),
   domAll |-> c.dom = {Star}, dowAll |-> c.dow = {Star}]

\* Mutant: day of month and day of week must both match.
Matches_BothDays(e, tm) ==
  /\ tm.min \in e.minute /\ tm.hour \in e.hour /\ tm.mon \in e.month
  /\ tm.mday \in e.dom /\ tm.wday \in e.dow

Matches(e, tm) ==
  /\ tm.min \in e.minute /\ tm.hour \in e.hour /\ tm.mon \in e.month
  /\ CASE e.domAll /\ e.dowAll  -> TRUE
       [] e.domAll /\ ~e.dowAll -> tm.wday \in e.dow
       [] ~e.domAll /\ e.dowAll -> tm.mday \in e.dom
       [] OTHER                 -> tm.mday \in e.dom \/ tm.wday \in e.dow

-----------------------------------------------------------------------------
(* What a source means, field by field (the comment at the head of cron.h).*)

Admits(f, min, v) ==
  \E i \in f : \/ i.star /\ (v - min) % i.step = 0
               \/ ~i.star /\ v >= i.lo /\ v <= i.hi /\ (v - i.lo) % i.step = 0

AdmitsWeekday(f, wday) == Admits(f, 0, wday) \/ (wday = 0 /\ Admits(f, 0, 7))

Due(c, tm) ==
  /\ Admits(c.minute, 0, tm.min) /\ Admits(c.hour, 0, tm.hour) /\ Admits(c.month, 1, tm.mon)
  /\ LET day     == Admits(c.dom, 1, tm.mday)
         weekday == AdmitsWeekday(c.dow, tm.wday)
     IN  IF {Star} \in {c.dom, c.dow} THEN day /\ weekday ELSE day \/ weekday

=============================================================================
