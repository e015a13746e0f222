CONSTANTS
  half = half  third = third
  NoPage = NoPage
  PageCount = 3
  MaxExtents = 2
  MaxRange = 3
  Buckets <- Both
  BlockCount <- Counts
  MapBits = 3
  MixedUse = FALSE
  PoolSize = 11
  MaxHeight = 4
  Requests = {1, 4}
SPECIFICATION MCSpec
INVARIANTS
  TypeOK
  BlocksAreDisjoint
  NothingLeaks
  BlocksAreTracked
  PoolTreesAreSound
PROPERTY PoolImplements
