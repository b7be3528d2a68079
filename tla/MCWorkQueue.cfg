SPECIFICATION FairWorkQueueSpec
CONSTANTS
  c1 = c1
  c2 = c2
  task = task
  note = note
  jobs = jobs
  NoLetter = NoLetter
  Conns = {c1, c2}
  Groups = {jobs}
  Ids = {task, note}
  FilterOf <- MCFilterOf
  MatchedBy <- MCMatchedBy
  Letter <- MCLetter
  OutboxCapacity = 1
  MaxAttempts = 1
  AckModes = {TRUE, FALSE}
  MaxJoins = 3
INVARIANTS
  NoTaskLost
  AttemptsAreSends
  DueStaysLeased
PROPERTIES
  AckedIsFinal
  LeaseSettles
  GivenUpIsDeadLettered
CHECK_DEADLOCK FALSE
