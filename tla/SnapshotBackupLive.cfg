CONSTANTS
  NumDisks = 2
  Marked = {1}
  OnlyMarked = FALSE
  Worker = {w1, w2}
  TTL = 1
  Quota = 1
  Faults <- RetriedFaults
  MaxFaults = 1
  MaxBadDays = 1
  Nil = Nil
SPECIFICATION FairSpec
INVARIANTS
  NoTaskLost
PROPERTIES
  TasksEndInSnapshots
  ExpiredGo
