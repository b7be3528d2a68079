SPECIFICATION MeshSpec
CONSTANTS
  a = a
  b = b
  c1 = c1
  c2 = c2
  t = t
  NoFilter = NoFilter
  Unrestricted = Unrestricted
  Nodes = {a, b}
  Links <- MCLinks
  Clients = {c1, c2}
  Home <- MCHome
  Filters = {t}
  Wildcards = {}
  PeerFilters <- MCPeerFilters
  FirstFilter = Unrestricted
  Cap = 3
  MaxRequests = 2
  MaxReloads = 1
  MaxConnects = 2
INVARIANTS
  InterestAgrees
CHECK_DEADLOCK FALSE
