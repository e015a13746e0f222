CONSTANTS
  r1 = r1  r2 = r2  w = w
  Threads = {r1, r2, w}
  Readers = {r1, r2}
  Writers = {w}
  TryWriters = {}
  Unattached = {}
  WRBIAS = 7
  BroadcastLatches = {TRUE}
SPECIFICATION FairSpec
PROPERTY ReaderNotForgotten
