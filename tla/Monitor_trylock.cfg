CONSTANTS
  t1 = t1  t2 = t2
  NoHandle = NoHandle
  Threads = {t1, t2}
  SlowThreads = {t1}
  Tryers = {t1}
  Waiters = {}
  Interruptible = {}
  Recursive = TRUE
  NestMod = 4
SPECIFICATION Spec
INVARIANT HeldIsOwned
