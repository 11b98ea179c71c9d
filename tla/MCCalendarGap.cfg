SPECIFICATION CalendarSpec
CONSTANTS
  PageSize = 1
  FirstMonth <- OldestMonth
  LastMonth = 1
  Past <- PastWears
  MaxLogs = 4
  MaxTurns = 2
  MaxLoads = 3
  MaxSlips = 1
INVARIANTS
  MonthIsWhole
CHECK_DEADLOCK FALSE
