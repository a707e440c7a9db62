SPECIFICATION Spec
CONSTANTS
  DayTicks = 2
  WeekDays = 3
  Months = 2
  MonthDays <- MCMonthDays
  Weeklies <- MCWeeklies
  Monthlies <- MCMonthlies
  Starts <- MCStarts
  StartStamps <- MCStartStamps
  MaxLate = 200
  MaxFirings = 2
INVARIANTS TypeOK
PROPERTIES NextIsAhead WeeklyIsFirstOnGrid MonthlyIsFirstOnDay
CHECK_DEADLOCK FALSE
