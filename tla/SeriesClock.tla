---------------------------- MODULE SeriesClock -----------------------------
(***************************************************************************)
(* The life of one recurring series as a sequence of fire times: each      *)
(* firing is handled some time after it was due, and the handler computes  *)
(* the next fire time from the row's fire_at and from the clock.           *)
(***************************************************************************)
EXTENDS MonthlyRule

CONSTANTS
  Weeklies,     \* weekdays W of the 'weekly:W' rules considered
  Monthlies,    \* days D of the 'monthly:D' rules considered
  Starts,       \* fire_at, in ticks, of the first occurrence of a weekly rule
  StartStamps,  \* fire_at, as a stamp, of the first occurrence of a monthly one
  MaxLate,      \* bound on how late a firing is handled
  MaxFirings    \* bound on the number of firings considered

ASSUME SeriesAssumption ==
  /\ Starts \subseteq Nat
  /\ \A s \in StartStamps : s \in Nat /\ IsDate(s)
  /\ MaxLate \in Nat /\ MaxFirings \in Nat

VARIABLES
  rule,      \* [unit |-> "weekly" or "monthly", arg |-> W or D], the row's rule
  fireAt,    \* fire_at of the row that waits
  handled,   \* the moment the last firing's handler read the clock
  firings    \* how many rows of the series have fired

vars == <<rule, fireAt, handled, firings>>

Rules == [unit : {"weekly"}, arg : Weeklies] \cup [unit : {"monthly"}, arg : Monthlies]

TypeOK ==
  /\ rule \in Rules
  /\ fireAt \in Nat
  /\ rule.unit = "monthly" => IsDate(fireAt)
  /\ handled \in Nat
  /\ firings \in 0..MaxFirings

Init ==
  /\ rule \in Rules
  /\ fireAt \in (IF rule.unit = "weekly" THEN Starts ELSE StartStamps)
  /\ handled = 0
  /\ firings = 0

(* schedule_next_recurring: the weekday W of a weekly rule is never read.  *)
NextOccurrence(r, fired, now) ==
  IF r.unit = "weekly"
    THEN WeeklyNext(fired, now)
    ELSE MonthlyNext(r.arg, fired, now)

(* The moments at which the handler of the occurrence due at t may read    *)
(* the clock; of the stamps, those that are dates.                         *)
HandlingMoments(r, t) ==
  {m \in t..(t + MaxLate) : r.unit = "monthly" => IsDate(m)}

Fire ==
  /\ firings < MaxFirings
  /\ handled' \in HandlingMoments(rule, fireAt)
  /\ fireAt' = NextOccurrence(rule, fireAt, handled')
  /\ firings' = firings + 1
  /\ UNCHANGED rule

Next == Fire

Spec == Init /\ [][Next]_vars

-----------------------------------------------------------------------------
(* Whatever the rule and however late the bot is, the next occurrence lies *)
(* in the future: an outage never leaves a backlog of past occurrences     *)
(* that fire in a burst.                                                   *)
NextIsAhead == [][fireAt' > handled']_vars

(* The next weekly occurrence is the first moment after now that is a      *)
(* whole number of weeks (at least one) after the one that fired.          *)
WeeklyIsFirstOnGrid ==
  [][rule.unit = "weekly" =>
       LET grid == {fireAt + k * Week : k \in 1..(handled' + 1)}
       IN  /\ fireAt' \in grid
           /\ \A t \in grid : t > handled' => fireAt' <= t]_vars

(* The next monthly occurrence keeps the time of day and falls on day D,   *)
(* or on the first of a month after one that has no day D, at most two     *)
(* months after now.  For D in 1..28 it is the first moment after now, in  *)
(* a later month than the firing, on day D.                                *)
OnRule(day, s) == DayOf(s) = day \/ (DayOf(s) = 1 /\ day \notin 1..DaysIn(MonthOf(s) - 1))

MonthlyIsFirstOnDay ==
  [][rule.unit = "monthly" =>
       LET months == (MonthOf(fireAt) + 1)..(MonthOf(handled') + 2)
           days   == {Stamp(n, rule.arg, TickOf(fireAt)) : n \in months}
       IN  /\ TickOf(fireAt') = TickOf(fireAt)
           /\ MonthOf(fireAt') \in months
           /\ OnRule(rule.arg, fireAt')
           /\ rule.arg \in 1..28 => \A t \in days : t > handled' => fireAt' <= t]_vars
=============================================================================
