SPECIFICATION Spec
CONSTANTS
  r1 = r1
  t1 = t1
  Found = {r1}
  Temps = {t1}
  AlbumOf <- AlbumOfAll
  NoAlbum = none
  Clients = {c1, c2}
  Deciders = {d1, d2}
  Nobody = nobody
  Limit = 1
  MaxReqs = 2
  MaxEdits = 1
  MaxFaults = 1
INVARIANTS PendingHasRow NoOrphan DecisionMatches
PROPERTIES CooldownHonoured ImplementsRequestBook
CHECK_DEADLOCK FALSE
SYMMETRY Symmetric
