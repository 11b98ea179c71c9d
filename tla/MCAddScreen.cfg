SPECIFICATION AddSpec
CONSTANTS
  Categories = {"tops", "shoes"}
  First = "tops"
  MaxPhotos = 2
  MaxItems = 2
  MaxOverrides = 1
  MaxSlips = 1
  Shelf <- MyShelf
  MaxItemsPerSlot = 2
  Shapes <- AllShapes
  AskedSeasons = {"any", "winter", "summer"}
  AskedLimit = 3
  Limit = 5
  MaxOutfitItems = 3
  MaxGets = 2
  MaxOutfitPosts = 2
  MaxTaps = 3
  MaxTroubles = 1
INVARIANTS
  OneRequestEach
  NothingIsMadeUp
  ShortlistIsTrue
  EngineMeetsItsRules
PROPERTIES
  NothingIsLost
CHECK_DEADLOCK FALSE
