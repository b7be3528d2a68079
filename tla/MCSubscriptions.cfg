SPECIFICATION FairSubscriptionsSpec
CONSTANTS
  c1 = c1
  c2 = c2
  f1 = f1
  f2 = f2
  NoFilter = NoFilter
  Conns = {c1, c2}
  Filters = {f1, f2}
  Acls <- MCAcls
  FirstAcl <- MCFirstAcl
  MaxRequests = 3
  MaxReloads = 1
  MayFail = TRUE
INVARIANTS
  RevocationEnforced
  InterestCounted
PROPERTIES
  RevokedStops
CHECK_DEADLOCK FALSE
