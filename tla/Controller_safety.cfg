CONSTANTS
  Request = {r1, r2}
  Owner = {o1, o2}
  Client = {c1}
  Room = {a, b}
  None = None
SPECIFICATION FairSpec
CHECK_DEADLOCK FALSE
INVARIANT StoppedByOne
PROPERTIES OwnersTracked StopFinishes StopKills SupervisorEnds
