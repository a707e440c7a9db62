SPECIFICATION PromptSpec
CONSTANTS
  DayTicks = 1
  WeekDays = 2
  Firers = {f1, f2}
  Requests <- MCMixed
  PollSeconds = 1
  MonthSpan = 2
  MaxTime = 3
  MaxCreates = 1
  MaxAttempts = 1
  MaxFaults = 1
  MaxStops = 1
  NoTime = NoTime
SYMMETRY Symmetry
INVARIANTS RefiresPaidFor OneOccurrenceAhead WeeklyOnGrid
PROPERTIES BooksAhead
