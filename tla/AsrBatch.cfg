CONSTANTS
  NumFiles = 1
  PageSize = 1
  Run = {r1, r2}
  MaxOps = 4
  MaxFaults = 1
  Nil = Nil
SPECIFICATION FairSpec
INVARIANTS
  TypeOK
  DoneIsStored
  SubmissionsBounded
PROPERTIES
  EveryFileEnds
