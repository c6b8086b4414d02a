SPECIFICATION FairSpec
CONSTANTS
  Requests = {c1, c2}
  MaxRouters = 2
CHECK_DEADLOCK FALSE
INVARIANTS NoTunnelThroughClosed RoutesInForce NothingLeaks
PROPERTIES TunnelEnds
