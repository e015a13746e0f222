CONSTANTS
  r = r  w1 = w1  w2 = w2
  Threads = {r, w1, w2}
  Readers = {r}
  Writers = {w1, w2}
  TryWriters = {}
  Unattached = {}
  WRBIAS = 7
  BroadcastLatches = {TRUE}
SPECIFICATION Spec
INVARIANT NoOrphanedWriter
