CONSTANTS
  a = a
  Threads = {a}
  MaxForks = 0
SPECIFICATION Spec
INVARIANT WriteReportsCount
