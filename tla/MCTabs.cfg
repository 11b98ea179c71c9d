SPECIFICATION TabsSpec
CONSTANTS
  Posts = {p1}
  MaxPresses = 3
  MaxLoads = 2
  MaxLosses = 1
  Sorts = {"top", "shoes"}
  SortOf <- TwoSorts
  GridPage = 1
  MaxWalkPages = 3
  Stock = 3
  MaxPieces = 4
  MaxChanges = 1
  MaxFetches = 3
  MaxDrops = 1
  Shared <- Worn
  AuthorOf <- Authors
  OwnerOf <- Owners
  CaptionOf <- Lengths
  SavedOrder <- Order
  SavedPage = 2
  Widths = {143, 151}
  MaxSaves = 5
  MaxRemovals = 3
  MaxFailures = 1
INVARIANTS
  RowsAreTrue
  SavesSettle
  ListsAreTrue
  WallIsTrue
CHECK_DEADLOCK FALSE
