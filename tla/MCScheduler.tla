---------------------------- MODULE MCScheduler -----------------------------
(* The scheduler over the two minutes around the midnight of Saturday, 29   *)
(* February: day, weekday, month and hour all change.                       *)
EXTENDS Scheduler, TLC

Midnight == <<[min |-> 59, hour |-> 23, mday |-> 29, mon |-> 2, wday |-> 6],
              [min |-> 0, hour |-> 0, mday |-> 1, mon |-> 3, wday |-> 0]>>

Every == {Star}

\* The last minute of an hour and every minute up to 30; a Sunday written as 7
\* or the 29th, whichever comes.
DayOrWeekday == Fields({At(59), Span(0, 30)}, Every, {At(29)}, Every, {At(7)})

\* Every second minute from 1 on, on weekends.
Stepped == Fields({[Span(1, 59) EXCEPT !.slash = TRUE, !.step = 2]}, {StarBy(23)}, Every, Every,
                  {Span(6, 7)})

\* A reversed range: refused.
Reversed == Fields({Span(30, 10)}, Every, Every, Every, Every)

Texts == {DayOrWeekday, Stepped, Alias("@weekly"), Reversed}

PermutedIds == Permutations(Ids)

=============================================================================
