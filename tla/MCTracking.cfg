SPECIFICATION TrackingSpec
CONSTANTS
  Kinds = {"item", "outfit", "log"}
  MaxVisits = 3
  MaxWrites = 2
  MaxTypes = 1
  MaxTroubles = 1
  PageSize = 1
  FirstMonth <- OldestMonth
  LastMonth = 1
  Past <- PastWears
  MaxLogs = 4
  MaxTurns = 2
  MaxLoads = 2
  MaxSlips = 1
  Zones <- Offsets
  Mornings <- Openings
  Bygone = {1, 118}
  GarmentsOf <- Snapshots
  MaxTicks = 2
  MaxNotes = 3
  MaxLooks = 2
INVARIANTS
  ReadersHear
  PageIsTrue
  OneRequestEach
  HistoryIsTold
  PlansAreShown
  DaysAreTrue
CHECK_DEADLOCK FALSE
