SPECIFICATION FairSessionSpec
CONSTANTS
  c1 = c1
  c2 = c2
  c3 = c3
  c4 = c4
  k1 = k1
  Anonymous = Anonymous
  Nothing = Nothing
  NoAcl = NoAcl
  Clients = {c1, c2, c3, c4}
  Principals = {Anonymous, k1}
  Scenarios <- MCScenarios
  PerTick = 1
  Burst = 1
  PrincipalCap = 1
  MaxClock = 2
  Cap = 1
  MaxInterrupts = 1
INVARIANTS
  NothingLost
  AckedWasPrinted
  OnlyPermitted
  NoReplyMissed
  RateExact
PROPERTIES
  EveryCommandAnswered
CHECK_DEADLOCK FALSE
