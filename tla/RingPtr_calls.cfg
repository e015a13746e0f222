CONSTANTS
  a = a  b = b
  Threads = {a, b}
  Order = 1
  MinOrder = 1
  MaxCalls = 7
SPECIFICATION Spec
SYMMETRY ThreadSymmetry
CHECK_DEADLOCK FALSE
INVARIANTS
  TypeOK
  ValuesReachable
PROPERTIES
  FifoOrder
  StatusIsHonest
