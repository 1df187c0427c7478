CONSTANTS
  NumFiles = 2
  PageSize = 1
  Run = {r1}
  MaxOps = 3
  MaxFaults = 0
  Nil = Nil
SPECIFICATION FairSpec
PROPERTIES
  EveryFileEnds
