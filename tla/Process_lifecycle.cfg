CONSTANTS
  a = a  b = b
  Threads = {a, b}
  MaxForks = 1
SPECIFICATION FairSpec
INVARIANTS
  TypeOK
  InitializedIsReady
  TlsMatchesCore
  CallsFitTheirCaller
PROPERTIES
  NeverDemoted
  CallsReturn
