CONSTANTS
  r1 = r1
  r2 = r2
  r3 = r3
  b1 = b1
  b2 = b2
  a1 = a1
  a2 = a2
  f = f
  NoHop = NoHop
  NoTable = NoTable
  p1 = p1
  p2 = p2
  Router = {r1, r2, r3}
  Address = {a1, a2, b1, b2}
  Foreign = {f}
  Prefix = {p1, p2}
  NumTables = 1
  Reports <- PairReports
  Owner <- TwoNetOwner
  Backup <- TwoNetBackup
  Segment <- TwoNetSegment
  Home <- TwoNetHome
  BackToPrimary = TRUE
  Invocation = {i1}
  i1 = i1
  i2 = i2
  OperatorEdits = "quiet"
  MaxApplies = 1
SPECIFICATION Spec
PROPERTY
  AppliedParametersStay
