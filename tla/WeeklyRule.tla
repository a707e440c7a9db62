----------------------------- MODULE WeeklyRule -----------------------------
(***************************************************************************)
(* The 'weekly:W' branch of scheduler.schedule_next_recurring: one week    *)
(* after the firing, and if the bot was late, as many whole weeks later as *)
(* bring it past now.  Time is counted in ticks, because the code adds     *)
(* timedeltas.                                                             *)
(***************************************************************************)
EXTENDS Naturals

CONSTANTS
  DayTicks,    \* ticks in a day
  WeekDays     \* days in a week

ASSUME WeekAssumption == DayTicks \in Nat \ {0} /\ WeekDays \in Nat \ {0}

Week == WeekDays * DayTicks

\* Mutants of WeeksBehind: not rounded up past now; one week too many.
WeeksBehindShort(next, now) == ((now - next) \div DayTicks) \div WeekDays
WeeksBehindLong(next, now)  == ((now - next) \div DayTicks) \div WeekDays + 2

(* int((now - next).days / 7) + 1: the lag is counted in whole days first. *)
WeeksBehind(next, now) == ((now - next) \div DayTicks) \div WeekDays + 1

\* Mutant of WeeklyNext: the week counts from the moment of handling.
WeeklyNextFromNow(fired, now) == now + Week

WeeklyNext(fired, now) ==
  LET next == fired + Week
  IN  IF next > now THEN next ELSE next + WeeksBehind(next, now) * Week
=============================================================================
