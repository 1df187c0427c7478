CONSTANTS
  r1 = r1
  Router = {r1}
  NumSubnets = 1
  RouterOf <- OneRouter
  Checker = {c1, c2}
  Worker = {w1, w2}
  NumTries = 2
  Failures = TRUE
  MaxErrors = 1
  MaxCopies = 1
  Nil = Nil
SPECIFICATION FairSpec
INVARIANTS
  TypeOK
  DetachedIsHandled
PROPERTIES
  FailoverReached
  FailbackReached
  ImplementsRequests
  NoTurningBack
