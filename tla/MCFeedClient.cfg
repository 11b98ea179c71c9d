\* Two posts of others and one the viewer shares, in pages of one; one change
\* of the search box, one or two gestures; requests may fail; all of it fair.
SPECIFICATION FairSpec
CONSTANTS
  all = all
  blue = blue
  MaxPosts = 3
  Start = 2
  Mine = {3}
  Terms = {all, blue}
  Blank = all
  Matching <- Captions
  PageSize = 1
  MaxKeys = 1
  MaxRequests = 2
  Failing = TRUE
INVARIANTS
  ListIsSound
PROPERTIES
  NothingIsTakenBack
  TermSettles
