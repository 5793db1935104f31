CONSTANTS
  MaxEpoch = 2
  Proxy = {p1}
SPECIFICATION FairSpec
CHECK_DEADLOCK FALSE
INVARIANTS OneLivePair WaitersReachable
PROPERTIES DeadTunnelRebuilt ImplementsSupervisor
