SPECIFICATION DiarySpec
CONSTANTS
  Zones <- Offsets
  Mornings <- Openings
  Bygone = {118}
  GarmentsOf <- Snapshots
  MaxTicks = 6
  MaxNotes = 2
  MaxLooks = 3
INVARIANTS
  PassedDaysCanBeLogged
CHECK_DEADLOCK FALSE
