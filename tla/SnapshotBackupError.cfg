CONSTANTS
  NumDisks = 2
  Marked = {1}
  OnlyMarked = FALSE
  Worker = {w1}
  TTL = 1
  Quota = 1
  Faults <- AllFaults
  MaxFaults = 1
  MaxBadDays = 1
  Nil = Nil
SPECIFICATION Spec
INVARIANTS
  NoTaskLost
