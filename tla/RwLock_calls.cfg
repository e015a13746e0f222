CONSTANTS
  r1 = r1  r2 = r2  r3 = r3  w = w
  Threads = {r1, r2, r3, w}
  Readers = {r1, r2, r3, w}
  Writers = {r1, r2, r3, w}
  TryWriters = {r1, r2, r3, w}
  Unattached = {}
  WRBIAS = 7
  BroadcastLatches = {TRUE, FALSE}
SPECIFICATION MCSpec
INVARIANTS
  TypeOK
  Exclusion
  SingleGrant
  CountMeaning
  LoneWriterIsSafe
PROPERTIES
  Implements
  OnlyWriterServed
