\* Two users, one of them owning both garments; a post is taken of an outfit that is
\* renamed, recomposed and deleted meanwhile, its items retired and restored.
SPECIFICATION Spec
CONSTANTS
  u1 = u1
  u2 = u2
  i1 = i1
  i2 = i2
  o1 = o1
  o2 = o2
  w1 = w1
  w2 = w2
  r1 = r1
  r2 = r2
  work = work
  None = None
  Users = {u1, u2}
  Items = {i1, i2}
  Owner <- OneOwner
  OutfitIds = {o1}
  RecordIds = {w1}
  Names = {work}
  Requests = {r1, r2}
  Handlers = {"create", "patch", "delete", "post", "unpost", "retireItem"}
  MaxLosses = 0
SYMMETRY SymmetryOneOwner
INVARIANTS
  OwnGarmentsOnly
PROPERTIES
  CopiesAreTrue
  PatchesKeepApart
