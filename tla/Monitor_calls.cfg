CONSTANTS
  t1 = t1  t2 = t2  t3 = t3
  NoHandle = NoHandle
  Threads = {t1, t2, t3}
  SlowThreads = {t1}
  Tryers = {t2}
  Waiters = {t1, t2, t3}
  Interruptible = {t1}
  Recursive = TRUE
  NestMod = 4
SPECIFICATION MCSpec
INVARIANTS
  TypeOK
  HeldIsOwned
  NobodyStranded
PROPERTIES
  DeliveredOnRelease
  PairNotifiedReturn
