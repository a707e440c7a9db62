SPECIFICATION Spec
CONSTANTS
  DayTicks = 1
  WeekDays = 2
  Firers = {f1, f2}
  Requests <- MCOneShot
  PollSeconds = 1
  MonthSpan = 2
  MaxTime = 2
  MaxCreates = 1
  MaxAttempts = 0
  MaxFaults = 0
  MaxStops = 0
  NoTime = NoTime
SYMMETRY Symmetry
INVARIANTS OneShotFiresOnce
