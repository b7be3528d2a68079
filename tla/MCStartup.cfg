SPECIFICATION FairStartupSpec
CONSTANTS
  Unset = Unset
  Zero = Zero
  Missing = Missing
  Garbage = Garbage
  v1 = v1
  v2 = v2
  bad = bad
  Malformed = {bad}
  Starts <- MCStarts
  Edits <- MCEdits
  MaxEdits = 2
  MaxSignals = 2
INVARIANTS
  ReloadsAreWhole
  ReadyMeansLoaded
PROPERTIES
  ReloadTakesEffect
CHECK_DEADLOCK FALSE
