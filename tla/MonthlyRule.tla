---------------------------- MODULE MonthlyRule -----------------------------
(***************************************************************************)
(* The 'monthly:D' branch of scheduler.schedule_next_recurring.  It        *)
(* replaces calendar fields, so time is counted in stamps that list month, *)
(* day of month and tick of the day in that order; comparing two stamps    *)
(* compares the two moments.  A day has the DayTicks ticks of WeeklyRule.   *)
(***************************************************************************)
EXTENDS WeeklyRule, Sequences

CONSTANTS
  Months,      \* months in a year
  MonthDays    \* the lengths of consecutive months, repeated for ever

ASSUME MonthAssumption ==
  /\ Months \in Nat \ {0}
  /\ MonthDays \in Seq(28..31)
  /\ Len(MonthDays) > 0

(* Months are counted on from year to year: Month(y, m) is month m of the  *)
(* year y.                                                                 *)
Month(y, m) == y * Months + (m - 1)
DaysIn(n)   == MonthDays[(n % Len(MonthDays)) + 1]

Stamp(n, d, tick) == (n * 32 + d) * DayTicks + tick
TickOf(s)  == s % DayTicks
DayOf(s)   == (s \div DayTicks) % 32
MonthOf(s) == (s \div DayTicks) \div 32
IsDate(s)  == DayOf(s) \in 1..DaysIn(MonthOf(s))

Year(s)        == MonthOf(s) \div Months
MonthInYear(s) == (MonthOf(s) % Months) + 1

\* Mutants of MonthlyStep: the month's length is forgotten; the last month
\* of a year counts for the next year.
MonthlyStepAnyDay(day, s) == Stamp(MonthOf(s) + 1, day, TickOf(s))
MonthlyStepEarlyYear(day, s) ==
  LET m == MonthInYear(s) + 1
      y == Year(s) + (IF m >= Months THEN 1 ELSE 0)
      n == Month(y, IF m > Months THEN 1 ELSE m)
  IN  IF day \in 1..DaysIn(n) THEN Stamp(n, day, TickOf(s)) ELSE Stamp(n + 1, 1, TickOf(s))

(* replace(year, month, day) keeps the time of day and raises ValueError   *)
(* when the month has no such day; the handler then takes the first day of *)
(* the month after the one it tried.  Both carry into the next year.       *)
MonthlyStep(day, s) ==
  LET m  == IF MonthInYear(s) + 1 > Months THEN 1 ELSE MonthInYear(s) + 1
      y  == Year(s) + (IF MonthInYear(s) + 1 > Months THEN 1 ELSE 0)
      m2 == IF m < Months THEN m + 1 ELSE 1
      y2 == y + (IF m = Months THEN 1 ELSE 0)
  IN  IF day \in 1..DaysIn(Month(y, m))
        THEN Stamp(Month(y, m), day, TickOf(s))
        ELSE Stamp(Month(y2, m2), 1, TickOf(s))

\* Mutant of MonthlyNext: one step, not as many as bring it past now.
MonthlyNextOnce(day, fired, now) == MonthlyStep(day, fired)

MonthlyNext(day, fired, now) ==
  LET next[s \in Nat] == IF s > now THEN s ELSE next[MonthlyStep(day, s)]
  IN  next[fired]
=============================================================================
