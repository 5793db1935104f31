CONSTANTS
  MaxEpoch = 2
  Stream = {s1, s2}
  Backlog = 1
  None = None
SPECIFICATION FairSpec
CHECK_DEADLOCK FALSE
INVARIANTS OneLivePair StreamsTracked
PROPERTIES StreamAnswered DeadTunnelRebuilt ImplementsSupervisor
