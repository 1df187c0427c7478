CONSTANTS
  r1 = r1
  r2 = r2
  r3 = r3
  a1 = a1
  a2 = a2
  b1 = b1
  b2 = b2
  f = f
  NoHop = NoHop
  NoTable = NoTable
  p1 = p1
  p2 = p2
  i1 = i1
  i2 = i2
  Router = {r1, r2}
  Address = {a1, a2}
  Foreign = {}
  Prefix = {p1}
  NumTables = 1
  Reports <- UpDown
  Owner <- PairOwner
  Backup <- PairBackup
  Segment <- PairSegment
  Home <- PairHome
  BackToPrimary = TRUE
  Invocation = {i1, i2}
  OperatorEdits = "never"
  MaxApplies = 0
SPECIFICATION FairSpec
PROPERTIES
  FailoverHappens
  FailbackHappens
  PreferredHopKept
  SettledStays
