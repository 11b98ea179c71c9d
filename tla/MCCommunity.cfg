\* Two requests of two users on one post, two of which may fail part-way; the
\* handlers' own steps weakly fair, so no symmetry.
SPECIFICATION FairSpec
CONSTANTS
  u1 = u1
  u2 = u2
  p1 = p1
  r1 = r1
  r2 = r2
  None = None
  Users = {u1, u2}
  Posts = {p1}
  Requests = {r1, r2}
  MaxFailures = 2
INVARIANTS
  TypeOK
  CountTracksLikes
  NoStrandedLike
PROPERTIES
  ImplementsLedger
  OrphanLikesVanish
  OnlyOwnersRemove
