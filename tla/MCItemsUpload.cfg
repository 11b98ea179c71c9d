\* Uploads and deletes: every order of the two stores' calls, one rejected call, one loss.
SPECIFICATION FairSpec
CONSTANTS
  u1 = u1
  u2 = u2
  i1 = i1
  i2 = i2
  r1 = r1
  r2 = r2
  r3 = r3
  tops = tops
  shoes = shoes
  None = None
  Users = {u1, u2}
  Items = {i1, i2}
  Requests = {r1, r2}
  Categories = {tops}
  Handlers = {"upload", "delete"}
  Ambiguous = FALSE
  MaxPresses = 0
  MaxRejects = 1
  MaxLosses = 1
INVARIANTS
  StoresAgree
PROPERTIES
  LoneObjectsResolve
