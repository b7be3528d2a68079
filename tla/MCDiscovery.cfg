SPECIFICATION FairDiscoverySpec
CONSTANTS
  Nodes = {1, 2, 3}
  Seeds <- MCSeeds
  DirCap <- MCDirCap
  MaxDials = 1
  MaxBackoff = 1
  Cap = 4
  Dialers <- MCDialers
  MaxFailures = 1
INVARIANTS
  PermitsHeld
  HelloFirst
  OneLoopPerPeer
PROPERTIES
  MeshConnects
CHECK_DEADLOCK FALSE
