SPECIFICATION FairSpec
CONSTANTS
  DayTicks = 1
  WeekDays = 2
  Firers = {f1, f2}
  Requests <- MCRequests
  PollSeconds = 1
  MonthSpan = 2
  MaxTime = 1
  MaxCreates = 1
  MaxAttempts = 1
  MaxFaults = 1
  MaxStops = 1
  NoTime = NoTime
INVARIANTS TypeOK SeriesAlive DoneWasFired
PROPERTIES OverForGood DueRowsAreHandled
