CONSTANTS
  r1 = r1
  Router = {r1}
  NumSubnets = 1
  RouterOf <- OneRouter
  Checker = {c1}
  Worker = {w1, w2}
  NumTries = 2
  Failures = FALSE
  MaxErrors = 0
  MaxCopies = 2
  Nil = Nil
SPECIFICATION FairSpec
PROPERTIES
  RecoveryEndsOnPrimary
