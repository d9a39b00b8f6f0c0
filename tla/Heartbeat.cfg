SPECIFICATION Spec
CONSTANTS
  n1 = n1 n2 = n2
  Conns = {c1, c2}
  Nodes = {n1, n2}
  Services <- MCServices
  NoNode = NoNode
  NoConn = NoConn
  heartbeat_timeout = 2
INVARIANTS NoGhost ConnectedIsListed AgentsOutliveTheirEvents
PROPERTIES SilentIsDropped
CHECK_DEADLOCK FALSE
