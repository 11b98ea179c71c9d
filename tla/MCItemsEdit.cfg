\* One item edited and deleted by two requests at a time.
SPECIFICATION Spec
CONSTANTS
  u1 = u1
  u2 = u2
  i1 = i1
  i2 = i2
  r1 = r1
  r2 = r2
  r3 = r3
  tops = tops
  shoes = shoes
  None = None
  Users = {u1}
  Items = {i1}
  Requests = {r1, r2}
  Categories = {tops, shoes}
  Handlers = {"upload", "laundry", "retire", "category", "delete"}
  Ambiguous = FALSE
  MaxPresses = 2
  MaxRejects = 1
  MaxLosses = 1
SYMMETRY Symmetry
INVARIANTS
  LogIsTrue
PROPERTIES
  FieldsIndependent
