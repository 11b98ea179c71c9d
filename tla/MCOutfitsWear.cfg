\* Two wears of one outfit, back-dated or not, its items deleted meanwhile, one request lost;
\* handlers weakly fair.
SPECIFICATION FairSpec
CONSTANTS
  u1 = u1
  u2 = u2
  i1 = i1
  i2 = i2
  o1 = o1
  o2 = o2
  w1 = w1
  w2 = w2
  r1 = r1
  r2 = r2
  work = work
  None = None
  Users = {u1}
  Items = {i1, i2}
  Owner <- OneOwner
  OutfitIds = {o1}
  RecordIds = {w1, w2}
  Names = {}
  Requests = {r1, r2}
  Handlers = {"create", "delete", "wear", "plan", "unplan", "deleteItem"}
  MaxLosses = 1
INVARIANTS
  CountersTrackLog
PROPERTIES
  WearsGetCounted
