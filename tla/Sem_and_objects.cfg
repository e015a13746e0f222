CONSTANTS
  g = g  b = b  p1 = p1  p2 = p2
  Threads = {g, b, p1, p2}
  Getters = {g, b}
  InBand = {b}
  Putters = {p1, p2}
  Pollers = {g, b}
  Closers = {p2}
  InitVal = 1
  MaxPuts = 3
  Users = {u1, u2}
  Owner = owner
  ObjectKinds = {"event", "sem"}
  OtherProtocols = {"count"}
  FdCount = 3
  MaxElements = 2
  NoFile = NoFile  Factory = Factory  Lost = Lost
SPECIFICATION MCSpec
SYMMETRY UserSymmetry
CHECK_DEADLOCK FALSE
INVARIANTS
  TypeOK
  Conservation
  PollNotMissed
  ObjectsAreWhole
  DescriptorsAccounted
  FaultsExplained
  ClosedBeforeReuse
PROPERTY Implements
