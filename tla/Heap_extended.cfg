CONSTANTS
  half = half
  third = third
  NoPage = NoPage
  PageCount = 2
  MaxExtents = 2
  MaxRange = 2
  Buckets = {half}
  BlockCount <- Counts
  MapBits = 2
  MixedUse = TRUE
  PoolSize = 2
  MaxHeight = 3
  Requests = {1}
SPECIFICATION MCSpec
INVARIANT BlocksAreDisjoint
