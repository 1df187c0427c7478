CONSTANTS
  NumDisks = 2
  Marked = {2}
  OnlyMarked = TRUE
  Worker = {w1, w2}
  TTL = 4
  Quota = 1
  Faults <- AllFaults
  MaxFaults = 2
  MaxBadDays = 2
  Nil = Nil
SPECIFICATION Spec
INVARIANTS
  TypeOK
PROPERTIES
  CoverageKept
